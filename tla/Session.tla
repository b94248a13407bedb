------------------------------ MODULE Session ------------------------------
(***************************************************************************)
(* The client and the server of projeto2.  The server is one thread: it    *)
(* accepts a connection and serves it until the client is gone, while the  *)
(* others wait in the backlog.  The client sends a request and blocks.     *)
(*                                                                         *)
(* A message is a sequence of fields, one for the operation with its       *)
(* result or value, and one for each key or entry; on the wire its length  *)
(* goes before it, in 16 bits.  Requests come from lines of 100 characters *)
(* and always fit; answers with every key need not.                        *)
(***************************************************************************)
EXTENDS Naturals, Sequences, FiniteSets

CONSTANTS
    Client,         \* the clients
    Key,            \* the keys
    None,           \* no client, no key
    Limit,          \* a length is sent modulo Limit (2^16 in the code)
    Descriptors,    \* how many connections the server can hold open
    MaxCommands     \* bound: how many commands the users type

ASSUME SessionAssumption ==
    /\ None \notin Client \cup Key
    /\ Limit \in Nat \ {0} /\ Descriptors \in Nat /\ MaxCommands \in Nat
    /\ IsFiniteSet(Key)

VARIABLES
    server,     \* "down", "accepting", "receiving", "answering" or "dead"
    present,    \* the keys in the table
    peer,       \* the client that is served, or None
    answer,     \* the message to send back
    broken,     \* the connection of peer is known to be reset
    accepted,   \* how many sockets accept() has given the server
    backlog,    \* the clients that are connected and not yet accepted
    up, down,   \* what is on its way from and to each client
    main,       \* main[c]: how far main() of c is
    sock,       \* sock[c]: the socket of c: "none", "open" or "closed"
    last,       \* last[c]: the last command of c
    want,       \* want[c]: the length that c has read
    eof,        \* eof[c]: the input of c is at its end
    heard,      \* history: heard[c]: what the last command of c returned
    cut,        \* history: cut[c]: an answer to c was announced too short
    given       \* how many commands the users have typed

service == <<present, peer, answer, broken, accepted>>
wires   == <<up, down>>
user    == <<last, eof, given>>
vars    == <<server, service, backlog, wires, main, sock, want, user, heard, cut>>

Message(no, code, items) == [no |-> no, code |-> code, items |-> items]
Nothing    == Message(0, "none", 0)
NoCommand  == [op |-> "none", key |-> None, no |-> 0]
Repeatable == {"get", "del", "size", "getkeys", "gettable"}
-----------------------------------------------------------------------------
Init ==
    /\ server = "down" /\ present = {} /\ peer = None
    /\ answer = Nothing /\ broken = FALSE /\ accepted = 0
    /\ backlog = <<>>
    /\ up = [c \in Client |-> <<>>] /\ down = [c \in Client |-> <<>>]
    /\ main = [c \in Client |-> "start"] /\ sock = [c \in Client |-> "none"]
    /\ last = [c \in Client |-> NoCommand] /\ want = [c \in Client |-> 0]
    /\ eof = [c \in Client |-> FALSE] /\ heard = [c \in Client |-> "none"]
    /\ cut = [c \in Client |-> FALSE] /\ given = 0

(* network_server_init(): from here on connect() succeeds.                 *)
Listen ==
    /\ server = "down"
    /\ server' = "accepting"
    /\ UNCHANGED <<service, backlog, wires, main, sock, want, user, heard, cut>>
-----------------------------------------------------------------------------
(* Messages on the wire.  A field is a record; the announced length is a   *)
(* field of its own.                                                       *)
Field(no, code, items) == Message(no, code, items)
Body(m)  == <<Field(m.no, m.code, m.items)>>
                \o [i \in 1 .. m.items |-> Field(m.no, "data", i)]

(* network_send(): the length, cut to 16 bits, and all the bytes.          *)
Frame(m) == <<Field((1 + m.items) % Limit, "size", 0)>> \o Body(m)
TooLong(m) == 1 + m.items >= Limit

(* A field read where a length was expected is any number.                 *)
Lengths(field) == IF field.code = "size" THEN {field.no} ELSE 0 .. Limit - 1

(* read_all(): the next bytes of the stream, once that many have come.     *)
Available(c, n) == Len(down[c]) >= n
ReadAll(c, n)   == SubSeq(down[c], 1, n)

(* These bytes are the whole answer to the last command.                   *)
IsAnswer(c, fields) ==
    /\ fields # <<>> /\ fields[1].no = last[c].no
    /\ fields[1].code \in {"ok", "error"}
    /\ Len(fields) = 1 + fields[1].items
-----------------------------------------------------------------------------
(* invoke(): the table afterwards, and the message that goes back.         *)
Effect(r) ==
    CASE r.op = "put" -> present \cup {r.key}
      [] r.op = "del" -> present \ {r.key}
      [] OTHER        -> present

Items(r) ==
    IF r.op \in {"getkeys", "gettable"} THEN Cardinality(present) ELSE 0

Invoke(r) ==
    IF r.op \in {"get", "del"} /\ r.key \notin present
    THEN Message(r.no, "error", 0)
    ELSE Message(r.no, "ok", Items(r))

(* Fault: a connection more than there are descriptors.                    *)
AcceptBeyond ==
    /\ server = "accepting" /\ backlog # <<>>
    /\ accepted <= Descriptors
    /\ server' = "receiving"
    /\ peer' = Head(backlog) /\ backlog' = Tail(backlog)
    /\ accepted' = accepted + 1 /\ broken' = FALSE
    /\ UNCHANGED <<present, answer, wires, main, sock, want, user, heard, cut>>

(* network_main_loop() accepts; no socket is ever closed, and when no      *)
(* descriptor is left accept() fails for ever.                             *)
Accept ==
    /\ server = "accepting" /\ backlog # <<>>
    /\ accepted < Descriptors
    /\ server' = "receiving"
    /\ peer' = Head(backlog) /\ backlog' = Tail(backlog)
    /\ accepted' = accepted + 1 /\ broken' = FALSE
    /\ UNCHANGED <<present, answer, wires, main, sock, want, user, heard, cut>>

(* The request is received and executed, even if its client is gone.       *)
Receive ==
    /\ server = "receiving" /\ up[peer] # <<>>
    /\ LET r == Head(up[peer])
       IN  present' = Effect(r) /\ answer' = Invoke(r)
    /\ up' = [up EXCEPT ![peer] = Tail(@)]
    /\ server' = "answering"
    /\ UNCHANGED <<peer, broken, accepted, backlog, down, main, sock, want,
                   user, heard, cut>>

(* network_main_loop() returns; the socket stays open.                     *)
LeaveLoop ==
    /\ server' = "accepting" /\ peer' = None /\ answer' = Nothing /\ broken' = FALSE
    /\ UNCHANGED <<present, accepted, backlog, wires, main, sock, want, user, heard, cut>>

(* Fault: the end of the stream always passes for a message.               *)
EndAsMessage ==
    /\ server = "receiving" /\ up[peer] = <<>> /\ sock[peer] = "closed"
    /\ server' = "answering" /\ answer' = Message(0, "error", 0)
    /\ UNCHANGED <<present, peer, broken, accepted, backlog, wires, main, sock,
                   want, user, heard, cut>>

(* The client is gone.  An error ends the loop.  An end of file leaves the *)
(* length undefined: what a buffer of 65535 bytes holds may or may not     *)
(* pass for a message, of no known operation.                              *)
ReceiveEnd ==
    /\ server = "receiving" /\ up[peer] = <<>> /\ sock[peer] = "closed"
    /\ \/ LeaveLoop
       \/ /\ ~broken
          /\ server' = "answering" /\ answer' = Message(0, "error", 0)
          /\ UNCHANGED <<present, peer, broken, accepted, backlog, wires, main,
                         sock, want, user, heard, cut>>

Send ==
    /\ server = "answering" /\ sock[peer] = "open"
    /\ down' = [down EXCEPT ![peer] = @ \o Frame(answer)]
    /\ cut' = [cut EXCEPT ![peer] = @ \/ TooLong(answer)]
    /\ server' = "receiving" /\ answer' = Nothing
    /\ UNCHANGED <<present, peer, broken, accepted, backlog, up, main, sock,
                   want, user, heard>>

(* The process ends: the kernel closes its sockets.                        *)
Die ==
    /\ server' = "dead" /\ present' = {} /\ peer' = None
    /\ answer' = Nothing /\ broken' = FALSE /\ accepted' = 0
    /\ backlog' = <<>> /\ up' = [c \in Client |-> <<>>]
    /\ UNCHANGED <<down, main, sock, want, user, heard, cut>>

(* The client is gone: the length and the message are two writes, and the  *)
(* second may find the connection reset.  Then SIGPIPE, which the server   *)
(* leaves at its default, ends the process; or the write fails; or nothing *)
(* is noticed before the next read.                                        *)
SendInVain ==
    /\ server = "answering" /\ sock[peer] = "closed"
    /\ \/ Die
       \/ LeaveLoop
       \/ /\ server' = "receiving" /\ answer' = Nothing /\ broken' = TRUE
          /\ UNCHANGED <<present, peer, accepted, backlog, wires, main, sock,
                         want, user, heard, cut>>

Stop == server \notin {"down", "dead"} /\ Die

Serve == Listen \/ Accept \/ Receive \/ ReceiveEnd \/ Send \/ SendInVain
-----------------------------------------------------------------------------
(* network_connect(): the connection goes to the backlog of the server.    *)
Connected(c) ==
    /\ server \notin {"down", "dead"}
    /\ backlog' = Append(backlog, c)
    /\ sock' = [sock EXCEPT ![c] = "open"]
    /\ main' = [main EXCEPT ![c] = "prompt"]

(* No one listens: main() returns.                                         *)
GivesUp(c) ==
    /\ server \in {"down", "dead"}
    /\ main' = [main EXCEPT ![c] = "ended"]
    /\ UNCHANGED <<backlog, sock>>

Start(c) ==
    /\ main[c] = "start"
    /\ Connected(c) \/ GivesUp(c)
    /\ UNCHANGED <<server, service, wires, want, user, heard, cut>>

(* A stub returns: the answer to its request, something else, or an error. *)
Return(c, what) ==
    /\ main' = [main EXCEPT ![c] = "prompt"]
    /\ heard' = [heard EXCEPT ![c] = what]
    /\ want' = [want EXCEPT ![c] = 0]

CloseSocket(c) == sock' = [sock EXCEPT ![c] = "closed"]

(* network_send_receive() writes the request and goes on to read.  With a  *)
(* server that is gone it may or may not get that far; with a socket that  *)
(* an earlier failure closed it does not.                                  *)
SendRequest(c, r) ==
    \/ /\ sock[c] = "open" /\ server # "dead"
       /\ up' = [up EXCEPT ![c] = Append(@, r)]
       /\ main' = [main EXCEPT ![c] = "waiting"]
       /\ heard' = [heard EXCEPT ![c] = "none"]
       /\ UNCHANGED <<sock, want>>
    \/ /\ sock[c] = "open" /\ server = "dead"
       /\ main' = [main EXCEPT ![c] = "waiting"]
       /\ heard' = [heard EXCEPT ![c] = "none"]
       /\ UNCHANGED <<up, sock, want>>
    \/ /\ sock[c] = "closed" \/ server = "dead"
       /\ Return(c, "error") /\ CloseSocket(c)
       /\ UNCHANGED up

Command(c, op, k) ==
    /\ main[c] = "prompt" /\ given < MaxCommands
    /\ given' = given + 1
    /\ LET r == [op |-> op, key |-> k, no |-> given + 1]
       IN  last' = [last EXCEPT ![c] = r] /\ SendRequest(c, r)
    /\ UNCHANGED <<server, service, backlog, down, eof, cut>>

(* The stubs: each fills in a request and waits for its answer.            *)
RtablePut(c, k)   == Command(c, "put", k)
RtableGet(c, k)   == Command(c, "get", k)
RtableDel(c, k)   == Command(c, "del", k)
RtableSize(c)     == Command(c, "size", None)
RtableGetKeys(c)  == Command(c, "getkeys", None)
RtableGetTable(c) == Command(c, "gettable", None)

(* The command loop of main().                                             *)
Put(c)      == ~eof[c] /\ \E k \in Key : RtablePut(c, k)
Get(c)      == ~eof[c] /\ \E k \in Key : RtableGet(c, k)
Del(c)      == ~eof[c] /\ \E k \in Key : RtableDel(c, k)
Size(c)     == ~eof[c] /\ RtableSize(c)
GetKeys(c)  == ~eof[c] /\ RtableGetKeys(c)
GetTable(c) == ~eof[c] /\ RtableGetTable(c)

(* At the end of the input fgets() leaves the line of the last command in  *)
(* place, and main() does not look at what it returns: the command is run  *)
(* again, and again.  A put was torn by strtok() and is refused.           *)
EndOfInput(c) ==
    /\ main[c] = "prompt" /\ ~eof[c]
    /\ eof' = [eof EXCEPT ![c] = TRUE]
    /\ UNCHANGED <<server, service, backlog, wires, main, sock, want, last,
                   given, heard, cut>>

Again(c) == eof[c] /\ last[c].op \in Repeatable /\ Command(c, last[c].op, last[c].key)

(* The process ends, with rtable_disconnect() or without.  An answer that  *)
(* it has not read resets the connection, and then a request that the      *)
(* server has not read may be lost.                                        *)
End(c) ==
    /\ main' = [main EXCEPT ![c] = "ended"] /\ CloseSocket(c)
    /\ down' = [down EXCEPT ![c] = <<>>] /\ want' = [want EXCEPT ![c] = 0]
    /\ last' = [last EXCEPT ![c] = NoCommand] /\ eof' = [eof EXCEPT ![c] = FALSE]
    /\ heard' = [heard EXCEPT ![c] = "none"] /\ cut' = [cut EXCEPT ![c] = FALSE]
    /\ \/ UNCHANGED up
       \/ down[c] # <<>> /\ up' = [up EXCEPT ![c] = <<>>]
    /\ UNCHANGED <<server, service, backlog, given>>

Quit(c) == main[c] = "prompt" /\ ~eof[c] /\ End(c)
Kill(c) == main[c] \in {"prompt", "waiting", "reading"} /\ End(c)

(* network_send_receive(): the length of the answer, and the answer.       *)
ReadLength(c) ==
    /\ main[c] = "waiting" /\ Available(c, 1)
    /\ \E n \in Lengths(Head(down[c])) : want' = [want EXCEPT ![c] = n]
    /\ down' = [down EXCEPT ![c] = Tail(@)]
    /\ main' = [main EXCEPT ![c] = "reading"]
    /\ UNCHANGED <<server, service, backlog, up, sock, user, heard, cut>>

(* Fault: the last field of the answer stays in the stream.                *)
ReadShort(c) ==
    /\ main[c] = "reading" /\ Available(c, want[c]) /\ want[c] > 0
    /\ Return(c, IF IsAnswer(c, ReadAll(c, want[c])) THEN "answer" ELSE "error")
    /\ down' = [down EXCEPT ![c] = SubSeq(@, want[c], Len(@))]
    /\ UNCHANGED <<server, service, backlog, up, sock, user, cut>>

(* Bytes that are not one message may or may not pass for one.             *)
ReadMessage(c) ==
    /\ main[c] = "reading" /\ Available(c, want[c])
    /\ \E what \in IF IsAnswer(c, ReadAll(c, want[c])) THEN {"answer"}
                                                       ELSE {"other", "error"} :
            Return(c, what)
    /\ down' = [down EXCEPT ![c] = SubSeq(@, want[c] + 1, Len(@))]
    /\ UNCHANGED <<server, service, backlog, up, sock, user, cut>>

(* The server is gone.  read() fails, or finds the end of file: that is no *)
(* error, and what stands in the length and in the buffer may pass for a   *)
(* message.                                                                *)
ReadEnd(c) ==
    /\ server = "dead"
    /\ \/ main[c] = "waiting" /\ ~Available(c, 1)
       \/ main[c] = "reading" /\ ~Available(c, want[c])
    /\ \/ Return(c, "error") /\ CloseSocket(c)
       \/ (\E what \in {"other", "error"} : Return(c, what)) /\ UNCHANGED sock
    /\ down' = [down EXCEPT ![c] = <<>>]
    /\ UNCHANGED <<server, service, backlog, up, user, cut>>

Read(c) == ReadLength(c) \/ ReadMessage(c) \/ ReadEnd(c)
User(c) ==
    \/ Start(c) \/ Put(c) \/ Get(c) \/ Del(c) \/ Size(c) \/ GetKeys(c) \/ GetTable(c)
    \/ EndOfInput(c) \/ Again(c) \/ Quit(c) \/ Kill(c)

Next == Serve \/ Stop \/ \E c \in Client : User(c) \/ Read(c)

Spec == Init /\ [][Next]_vars

(* The two processes run.  Nothing makes a user act.                       *)
Fairness == WF_vars(Serve) /\ \A c \in Client : WF_vars(Read(c))
FairSpec == Spec /\ Fairness
-----------------------------------------------------------------------------
(* The type of every variable; the server has a client exactly while it    *)
(* receives and answers, and a message in hand exactly while it answers.   *)
Request == [op : Repeatable \cup {"put"}, key : Key \cup {None}, no : 1 .. MaxCommands]
Fields  == [no : Nat, code : {"ok", "error", "data", "size"}, items : Nat]

TypeOK ==
    /\ server \in {"down", "accepting", "receiving", "answering", "dead"}
    /\ present \subseteq Key
    /\ peer \in Client \cup {None}
    /\ server \in {"receiving", "answering"} <=> peer # None
    /\ server = "answering" <=> answer # Nothing
    /\ broken \in BOOLEAN /\ accepted \in 0 .. Descriptors
    /\ backlog \in Seq(Client)
    /\ up \in [Client -> Seq(Request)] /\ down \in [Client -> Seq(Fields)]
    /\ main \in [Client -> {"start", "prompt", "waiting", "reading", "ended"}]
    /\ sock \in [Client -> {"none", "open", "closed"}]
    /\ last \in [Client -> Request \cup {NoCommand}]
    /\ want \in [Client -> 0 .. Limit - 1]
    /\ eof \in [Client -> BOOLEAN] /\ cut \in [Client -> BOOLEAN]
    /\ heard \in [Client -> {"none", "answer", "other", "error"}]
    /\ given \in 0 .. MaxCommands

(* What a command returns is the answer to its own request, whole, unless  *)
(* the server is gone or an answer has been too long for its length.       *)
OwnAnswers ==
    \A c \in Client : heard[c] \in {"other", "error"} => server = "dead" \/ cut[c]

(* A client that waits for ever waits for another one that does not go, or *)
(* for a server that has no descriptor left, or for the rest of an answer  *)
(* that was too long.                                                      *)
Waiting(c) == main[c] \in {"waiting", "reading"} /\ ~cut[c]
Held(c)    == \/ \E d \in Client \ {c} : peer = d /\ sock[d] = "open"
              \/ server = "accepting" /\ accepted = Descriptors

WaitsForOthers == \A c \in Client : <>[]Waiting(c) => <>[]Held(c)
=============================================================================
