---------------------------- MODULE SessionProofs ----------------------------
(***************************************************************************)
(* Proofs about Session, for every number of clients, keys, descriptors    *)
(* and commands, and for every limit of a length: the types, and that a    *)
(* command returns the answer to its own request.                          *)
(***************************************************************************)
EXTENDS Session, Integers, FiniteSetTheorems, SequenceTheorems, TLAPS

(* What invoke() makes of a request.                                       *)
Answers == [no : Nat, code : {"ok", "error"}, items : Nat]

(* What is on the wire: an announced length fits in its bits.              *)
Wired == {f \in Fields : f.code = "size" => f.no \in 0 .. Limit - 1}

LEMMA FieldIn ==
    ASSUME NEW no \in Nat, NEW code \in {"ok", "error", "data", "size"}, NEW items \in Nat
    PROVE  /\ Field(no, code, items) \in Fields
           /\ Field(no, code, items).no = no
           /\ Field(no, code, items).code = code
           /\ Field(no, code, items).items = items
BY DEF Field, Message, Fields

LEMMA AnswerIn ==
    ASSUME NEW no \in Nat, NEW code \in {"ok", "error"}, NEW items \in Nat
    PROVE  /\ Message(no, code, items) \in Answers
           /\ Message(no, code, items).no = no
           /\ Message(no, code, items).code = code
           /\ Message(no, code, items).items = items
BY DEF Message, Answers

LEMMA NothingIn == Nothing.code = "none" /\ Nothing \notin Answers
BY DEF Nothing, Message, Answers

(* A message is as long as it says.                                        *)
LEMMA BodyIs ==
    ASSUME NEW m \in Answers
    PROVE  /\ Body(m) \in Seq(Wired) /\ Body(m) # <<>>
           /\ Len(Body(m)) = 1 + m.items
           /\ Body(m)[1].no = m.no /\ Body(m)[1].code = m.code /\ Body(m)[1].items = m.items
<1> DEFINE first == Field(m.no, m.code, m.items)
           rest  == [i \in 1 .. m.items |-> Field(m.no, "data", i)]
<1>1. m.no \in Nat /\ m.items \in Nat /\ m.code \in {"ok", "error"}
  BY DEF Answers
<1>2. first \in Wired /\ first.no = m.no /\ first.code = m.code /\ first.items = m.items
  BY <1>1, FieldIn DEF Wired
<1>3. \A i \in 1 .. m.items : Field(m.no, "data", i) \in Wired
  BY <1>1, FieldIn DEF Wired
<1>4. rest \in Seq(Wired) /\ Len(rest) = m.items
  <2> HIDE DEF Wired
  <2>1. rest \in [1 .. m.items -> Wired]
    BY <1>3
  <2>2. QED
    BY <1>1, <2>1
<1>5. <<first>> \in Seq(Wired) /\ Len(<<first>>) = 1 /\ <<first>>[1] = first
  BY <1>2
<1> HIDE DEF first, rest
<1>6. Body(m) = <<first>> \o rest
  BY DEF Body, first, rest
<1>7. Body(m) \in Seq(Wired) /\ Len(Body(m)) = 1 + m.items /\ Body(m)[1] = first
  BY <1>1, <1>4, <1>5, <1>6, ConcatProperties
<1>8. Body(m) # <<>>
  BY <1>1, <1>7
<1>9. QED
  BY <1>2, <1>7, <1>8

(* The length goes first.                                                  *)
LEMMA FrameIs ==
    ASSUME NEW m \in Answers
    PROVE  /\ Frame(m) \in Seq(Wired) /\ Frame(m) # <<>>
           /\ Head(Frame(m)).code = "size"
           /\ ~TooLong(m) => Head(Frame(m)).no = 1 + m.items
           /\ Tail(Frame(m)) = Body(m)
<1> DEFINE size == Field((1 + m.items) % Limit, "size", 0)
<1>1. m.items \in Nat /\ (1 + m.items) % Limit \in 0 .. Limit - 1
  BY SessionAssumption DEF Answers
<1>2. size \in Wired /\ size.code = "size" /\ size.no = (1 + m.items) % Limit
  BY <1>1, FieldIn DEF Wired
<1>3. ~TooLong(m) => (1 + m.items) % Limit = 1 + m.items
  BY <1>1, SessionAssumption DEF TooLong
<1>4. Body(m) \in Seq(Wired)
  BY BodyIs
<1>5. <<size>> \in Seq(Wired) /\ Len(<<size>>) = 1 /\ <<size>>[1] = size
  BY <1>2
<1> HIDE DEF size
<1>6. Frame(m) = <<size>> \o Body(m)
  BY DEF Frame, size
<1>7. /\ Frame(m) \in Seq(Wired) /\ Len(Frame(m)) = 1 + Len(Body(m))
      /\ \A i \in 1 .. 1 + Len(Body(m)) : Frame(m)[i] = IF i <= 1 THEN <<size>>[i] ELSE Body(m)[i - 1]
  BY <1>4, <1>5, <1>6, ConcatProperties
<1>8. Len(Body(m)) \in Nat
  BY <1>4, LenProperties
<1>9. Frame(m) # <<>> /\ Head(Frame(m)) = size
  BY <1>5, <1>7, <1>8
<1>10. /\ Tail(Frame(m)) \in Seq(Wired) /\ Len(Tail(Frame(m))) = Len(Body(m))
       /\ \A i \in 1 .. Len(Body(m)) : Tail(Frame(m))[i] = Frame(m)[i + 1]
  BY <1>7, <1>8, <1>9, HeadTailProperties
<1>11. \A i \in 1 .. Len(Body(m)) : Tail(Frame(m))[i] = Body(m)[i]
  BY <1>7, <1>8, <1>10
<1>12. Tail(Frame(m)) = Body(m)
  BY <1>4, <1>10, <1>11, SeqEqual
<1>13. QED
  BY <1>2, <1>3, <1>7, <1>9, <1>12
-----------------------------------------------------------------------------
(* A request that needs a key has one.                                     *)
Asked == {r \in Request : r.op \in {"put", "get", "del"} => r.key \in Key}

ServerTypes ==
    /\ server \in {"down", "accepting", "receiving", "answering", "dead"}
    /\ present \subseteq Key
    /\ peer \in Client \cup {None}
    /\ server \in {"receiving", "answering"} <=> peer # None
    /\ server = "answering" <=> answer # Nothing
    /\ answer \in Answers \cup {Nothing}
    /\ broken \in BOOLEAN /\ accepted \in 0 .. Descriptors

WireTypes ==
    /\ backlog \in Seq(Client)
    /\ up \in [Client -> Seq(Asked)] /\ down \in [Client -> Seq(Wired)]

ClientTypes ==
    /\ main \in [Client -> {"start", "prompt", "waiting", "reading", "ended"}]
    /\ sock \in [Client -> {"none", "open", "closed"}]
    /\ last \in [Client -> Asked \cup {NoCommand}]
    /\ want \in [Client -> 0 .. Limit - 1]
    /\ eof \in [Client -> BOOLEAN] /\ cut \in [Client -> BOOLEAN]
    /\ heard \in [Client -> {"none", "answer", "other", "error"}]
    /\ given \in 0 .. MaxCommands

TypeInv == ServerTypes /\ WireTypes /\ ClientTypes

LEMMA InvImpliesType == TypeInv => TypeOK
<1> SUFFICES ASSUME TypeInv PROVE TypeOK
  OBVIOUS
<1> USE DEF TypeInv
<1>1. Asked \subseteq Request
  BY DEF Asked
<1>2. up \in [Client -> Seq(Request)]
  <2>1. \A c \in Client : up[c] \in Seq(Request)
    BY <1>1, SeqMonotonic DEF WireTypes
  <2>2. QED
    BY <2>1 DEF WireTypes
<1>3. last \in [Client -> Request \cup {NoCommand}]
  BY <1>1 DEF ClientTypes
<1>4. down \in [Client -> Seq(Fields)]
  <2>1. Wired \subseteq Fields
    BY DEF Wired
  <2>2. \A c \in Client : down[c] \in Seq(Fields)
    BY <2>1, SeqMonotonic DEF WireTypes
  <2>3. QED
    BY <2>2 DEF WireTypes
<1>5. QED
  BY <1>2, <1>3, <1>4 DEF TypeOK, ServerTypes, WireTypes, ClientTypes

(* invoke() on a request.                                                  *)
LEMMA InvokeType ==
    ASSUME ServerTypes, NEW r \in Asked
    PROVE  Effect(r) \subseteq Key /\ Invoke(r) \in Answers /\ Invoke(r).no = r.no
<1>1. IsFiniteSet(present) /\ Cardinality(present) \in Nat
  BY SessionAssumption, FS_Subset, FS_CardinalityType DEF ServerTypes
<1>2. Items(r) \in Nat
  BY <1>1 DEF Items
<1>3. r.no \in Nat
  BY DEF Asked, Request
<1>4. Effect(r) \subseteq Key
  BY DEF Effect, Asked, ServerTypes
<1>5. QED
  BY <1>2, <1>3, <1>4, AnswerIn DEF Invoke

LEMMA LoopLeft == ASSUME TypeInv, LeaveLoop PROVE TypeInv'
BY SessionAssumption DEF TypeInv, LeaveLoop, ServerTypes, WireTypes, ClientTypes, user, wires

LEMMA Died == ASSUME TypeInv, Die PROVE TypeInv'
<1>1. ServerTypes'
  <2>1. accepted' \in 0 .. Descriptors
    BY SessionAssumption DEF Die
  <2>2. QED
    BY <2>1 DEF Die, ServerTypes
<1>2. WireTypes'
  BY EmptySeq DEF TypeInv, Die, WireTypes
<1>3. ClientTypes'
  BY DEF TypeInv, Die, ClientTypes, user
<1>4. QED
  BY <1>1, <1>2, <1>3 DEF TypeInv

LEMMA ServeTypes == ASSUME TypeInv, Serve \/ Stop PROVE TypeInv'
<1> USE DEF TypeInv
<1>1. CASE Listen
  BY <1>1 DEF Listen, ServerTypes, WireTypes, ClientTypes, service, wires, user
<1>2. CASE Accept
  <2>1. Head(backlog) \in Client /\ Tail(backlog) \in Seq(Client)
    BY <1>2, HeadTailProperties DEF Accept, WireTypes
  <2>2. ServerTypes'
    <3>1. accepted' \in 0 .. Descriptors
      BY <1>2, SessionAssumption DEF Accept, ServerTypes
    <3>2. peer' \in Client /\ peer' # None
      BY <1>2, <2>1, SessionAssumption DEF Accept
    <3>3. QED
      BY <1>2, <3>1, <3>2 DEF Accept, ServerTypes
  <2>3. WireTypes' /\ ClientTypes'
    BY <1>2, <2>1 DEF Accept, WireTypes, ClientTypes, wires, user
  <2>4. QED
    BY <2>2, <2>3
<1>3. CASE Receive
  <2>1. peer \in Client /\ up[peer] \in Seq(Asked) /\ up[peer] # <<>>
    BY <1>3 DEF Receive, ServerTypes, WireTypes
  <2>2. Head(up[peer]) \in Asked /\ Tail(up[peer]) \in Seq(Asked)
    BY <2>1, HeadTailProperties
  <2>3. present' \subseteq Key /\ answer' \in Answers
    BY <1>3, <2>2, InvokeType DEF Receive
  <2>4. ServerTypes'
    BY <1>3, <2>3, NothingIn DEF Receive, ServerTypes
  <2>5. WireTypes' /\ ClientTypes'
    BY <1>3, <2>2 DEF Receive, WireTypes, ClientTypes, user
  <2>6. QED
    BY <2>4, <2>5
<1>4. CASE ReceiveEnd
  <2>1. CASE LeaveLoop
    BY <2>1, LoopLeft
  <2>2. CASE ~LeaveLoop
    <3>1. Message(0, "error", 0) \in Answers
      BY AnswerIn
    <3>2. ServerTypes'
      BY <1>4, <2>2, <3>1, NothingIn DEF ReceiveEnd, ServerTypes
    <3>3. WireTypes' /\ ClientTypes'
      BY <1>4, <2>2 DEF ReceiveEnd, WireTypes, ClientTypes, wires, user
    <3>4. QED
      BY <3>2, <3>3
  <2>3. QED
    BY <2>1, <2>2
<1>5. CASE Send
  <2>1. peer \in Client /\ answer \in Answers /\ down[peer] \in Seq(Wired)
    BY <1>5 DEF Send, ServerTypes, WireTypes
  <2>2. down[peer] \o Frame(answer) \in Seq(Wired)
    BY <2>1, FrameIs, ConcatProperties
  <2>3. ServerTypes'
    BY <1>5 DEF Send, ServerTypes
  <2>4. WireTypes'
    BY <1>5, <2>2 DEF Send, WireTypes
  <2>5. ClientTypes'
    BY <1>5, <2>1 DEF Send, ClientTypes, user, TooLong
  <2>6. QED
    BY <2>3, <2>4, <2>5
<1>6. CASE SendInVain
  <2>1. CASE Die \/ LeaveLoop
    BY <2>1, LoopLeft, Died
  <2>2. CASE ~(Die \/ LeaveLoop)
    BY <1>6, <2>2 DEF SendInVain, ServerTypes, WireTypes, ClientTypes, wires, user
  <2>3. QED
    BY <2>1, <2>2
<1>7. CASE Stop
  BY <1>7, Died DEF Stop
<1>8. QED
  BY <1>1, <1>2, <1>3, <1>4, <1>5, <1>6, <1>7 DEF Serve

(* A command: its request, and what becomes of it.                         *)
LEMMA CommandTypes ==
    ASSUME TypeInv, NEW c \in Client, NEW op \in Repeatable \cup {"put"}, NEW k \in Key \cup {None},
           op \in {"put", "get", "del"} => k \in Key, Command(c, op, k)
    PROVE  TypeInv'
<1> USE DEF TypeInv
<1> DEFINE r == [op |-> op, key |-> k, no |-> given + 1]
<1>1. given + 1 \in 1 .. MaxCommands
  BY SessionAssumption DEF Command, ClientTypes
<1>2. r \in Asked
  BY <1>1 DEF Asked, Request
<1>3. /\ given' = given + 1 /\ last' = [last EXCEPT ![c] = r] /\ SendRequest(c, r)
      /\ UNCHANGED <<server, service, backlog, down, eof, cut>>
  BY DEF Command
<1> HIDE DEF r
<1>4. Append(up[c], r) \in Seq(Asked)
  BY <1>2, AppendProperties DEF WireTypes
<1>5. up' \in [Client -> Seq(Asked)]
  BY <1>3, <1>4 DEF SendRequest, WireTypes
<1>6. /\ main' \in [Client -> {"start", "prompt", "waiting", "reading", "ended"}]
      /\ sock' \in [Client -> {"none", "open", "closed"}]
      /\ heard' \in [Client -> {"none", "answer", "other", "error"}]
  BY <1>3 DEF SendRequest, Return, CloseSocket, ClientTypes
<1>7. want' \in [Client -> 0 .. Limit - 1]
  <2>1. 0 \in 0 .. Limit - 1
    BY SessionAssumption
  <2>2. QED
    BY <1>3, <2>1 DEF SendRequest, Return, ClientTypes
<1>8. ServerTypes' /\ WireTypes'
  BY <1>3, <1>5 DEF ServerTypes, WireTypes, service
<1>9. ClientTypes'
  <2>1. given' \in 0 .. MaxCommands
    BY <1>1, <1>3
  <2>2. last' \in [Client -> Asked \cup {NoCommand}]
    BY <1>2, <1>3 DEF ClientTypes
  <2>3. QED
    BY <1>3, <1>6, <1>7, <2>1, <2>2 DEF ClientTypes
<1>10. QED
  BY <1>8, <1>9

LEMMA CommandsAre ==
    ASSUME TypeInv, NEW c \in Client,
           Put(c) \/ Get(c) \/ Del(c) \/ Size(c) \/ GetKeys(c) \/ GetTable(c) \/ Again(c)
    PROVE  \E op \in Repeatable \cup {"put"}, k \in Key \cup {None} :
               (op \in {"put", "get", "del"} => k \in Key) /\ Command(c, op, k)
<1>1. CASE Again(c)
  <2>1. last[c] \in Asked
    BY <1>1 DEF Again, TypeInv, ClientTypes, NoCommand, Repeatable
  <2>2. QED
    BY <1>1, <2>1 DEF Again, Asked, Request
<1>2. CASE Put(c) \/ Get(c) \/ Del(c)
  BY <1>2 DEF Put, Get, Del, RtablePut, RtableGet, RtableDel, Repeatable
<1>3. CASE Size(c) \/ GetKeys(c) \/ GetTable(c)
  BY <1>3 DEF Size, GetKeys, GetTable, RtableSize, RtableGetKeys, RtableGetTable, Repeatable
<1>4. QED
  BY <1>1, <1>2, <1>3

(* A stub that returns, and what it leaves in the stream.                  *)
LEMMA ReturnTypes ==
    ASSUME TypeInv, NEW c \in Client, NEW what \in {"answer", "other", "error"},
           Return(c, what), NEW rest \in Seq(Wired), down' = [down EXCEPT ![c] = rest],
           sock' \in [Client -> {"none", "open", "closed"}],
           UNCHANGED <<server, service, backlog, up, user, cut>>
    PROVE  TypeInv'
<1> USE DEF TypeInv
<1>1. want' \in [Client -> 0 .. Limit - 1]
  <2>1. 0 \in 0 .. Limit - 1
    BY SessionAssumption
  <2>2. QED
    BY <2>1 DEF Return, ClientTypes
<1>2. ServerTypes' /\ WireTypes'
  BY DEF ServerTypes, WireTypes, service
<1>3. ClientTypes'
  BY <1>1 DEF Return, ClientTypes, user
<1>4. QED
  BY <1>2, <1>3

LEMMA UserTypes == ASSUME TypeInv, NEW c \in Client, User(c) \/ Read(c) PROVE TypeInv'
<1> USE DEF TypeInv
<1>1. CASE Start(c)
  <2>1. Append(backlog, c) \in Seq(Client)
    BY AppendProperties DEF WireTypes
  <2>2. WireTypes' /\ ServerTypes'
    BY <1>1, <2>1 DEF Start, Connected, GivesUp, WireTypes, ServerTypes, service, wires
  <2>3. ClientTypes'
    BY <1>1 DEF Start, Connected, GivesUp, ClientTypes, user
  <2>4. QED
    BY <2>2, <2>3
<1>2. CASE EndOfInput(c)
  BY <1>2 DEF EndOfInput, ServerTypes, WireTypes, ClientTypes, service, wires
<1>3. CASE Quit(c) \/ Kill(c)
  <2>1. End(c)
    BY <1>3 DEF Quit, Kill
  <2>2. <<>> \in Seq(Asked) /\ <<>> \in Seq(Wired) /\ 0 \in 0 .. Limit - 1
    BY EmptySeq, SessionAssumption
  <2>3. ServerTypes' /\ WireTypes'
    BY <2>1, <2>2 DEF End, ServerTypes, WireTypes, service
  <2>4. ClientTypes'
    BY <2>1, <2>2 DEF End, CloseSocket, ClientTypes
  <2>5. QED
    BY <2>3, <2>4
<1>4. CASE ReadLength(c)
  <2>1. down[c] \in Seq(Wired) /\ down[c] # <<>>
    <3>1. down[c] \in Seq(Wired)
      BY DEF WireTypes
    <3>2. Len(down[c]) >= 1
      BY <1>4 DEF ReadLength, Available
    <3>3. QED
      BY <3>1, <3>2, EmptySeq
  <2>2. Head(down[c]) \in Wired /\ Tail(down[c]) \in Seq(Wired)
    BY <2>1, HeadTailProperties
  <2>3. PICK n \in Lengths(Head(down[c])) : want' = [want EXCEPT ![c] = n]
    BY <1>4 DEF ReadLength
  <2>4. n \in 0 .. Limit - 1
    BY <2>2, <2>3 DEF Lengths, Wired
  <2>5. want' \in [Client -> 0 .. Limit - 1]
    BY <2>3, <2>4 DEF ClientTypes
  <2>6. ServerTypes' /\ WireTypes'
    BY <1>4, <2>2 DEF ReadLength, ServerTypes, WireTypes, service
  <2>7. ClientTypes'
    BY <1>4, <2>5 DEF ReadLength, ClientTypes, user
  <2>8. QED
    BY <2>6, <2>7
<1>5. CASE ReadMessage(c)
  <2>1. SubSeq(down[c], want[c] + 1, Len(down[c])) \in Seq(Wired)
    <3>1. down[c] \in Seq(Wired) /\ want[c] + 1 \in Nat \ {0} /\ Len(down[c]) \in Nat
      BY SessionAssumption, LenProperties DEF WireTypes, ClientTypes
    <3>2. QED
      BY <3>1, SubSeqProperties
  <2>2. PICK what \in {"answer", "other", "error"} : Return(c, what)
    BY <1>5 DEF ReadMessage
  <2>3. sock' \in [Client -> {"none", "open", "closed"}]
    BY <1>5 DEF ReadMessage, ClientTypes
  <2>4. QED
    BY <1>5, <2>1, <2>2, <2>3, ReturnTypes DEF ReadMessage
<1>6. CASE ReadEnd(c)
  <2>1. PICK what \in {"other", "error"} : Return(c, what)
    BY <1>6 DEF ReadEnd
  <2>2. sock' \in [Client -> {"none", "open", "closed"}]
    BY <1>6 DEF ReadEnd, CloseSocket, ClientTypes
  <2>3. QED
    BY <1>6, <2>1, <2>2, EmptySeq, ReturnTypes DEF ReadEnd
<1>7. QED
  BY <1>1, <1>2, <1>3, <1>4, <1>5, <1>6, CommandsAre, CommandTypes DEF User, Read

LEMMA TypeStep == ASSUME TypeInv, [Next]_vars PROVE TypeInv'
<1>1. CASE Next
  BY <1>1, ServeTypes, UserTypes DEF Next
<1>2. CASE UNCHANGED vars
  BY <1>2 DEF vars, service, wires, user, TypeInv, ServerTypes, WireTypes, ClientTypes
<1>3. QED
  BY <1>1, <1>2

LEMMA TypeInit == Init => TypeInv
<1> SUFFICES ASSUME Init PROVE TypeInv
  OBVIOUS
<1>1. <<>> \in Seq(Asked) /\ <<>> \in Seq(Wired) /\ <<>> \in Seq(Client)
  BY EmptySeq
<1>2. 0 \in 0 .. Limit - 1 /\ 0 \in 0 .. Descriptors /\ 0 \in 0 .. MaxCommands
  BY SessionAssumption
<1>3. ServerTypes
  BY <1>2 DEF Init, ServerTypes
<1>4. WireTypes
  BY <1>1 DEF Init, WireTypes
<1>5. ClientTypes
  BY <1>2 DEF Init, ClientTypes
<1>6. QED
  BY <1>3, <1>4, <1>5 DEF TypeInv

(* Every variable keeps its type, the server has a client exactly while it *)
(* receives and answers, and a message in hand exactly while it answers.   *)
THEOREM TypeCorrect == Spec => []TypeOK
<1>1. Init => TypeInv
  BY TypeInit
<1>2. TypeInv /\ [Next]_vars => TypeInv'
  BY TypeStep
<1>3. TypeInv => TypeOK
  BY InvImpliesType
<1>4. QED
  BY <1>1, <1>2, <1>3, PTL DEF Spec
-----------------------------------------------------------------------------
(* As long as the server lives, a connection holds at most one exchange:   *)
(* the request, or the message in the server's hand, or the frame, or what *)
(* is left of it once the client has read its length.                      *)
Serves(c) == peer = c /\ server = "answering"

Quiet(c) == up[c] = <<>> /\ down[c] = <<>> /\ ~Serves(c)

Asking(c) == up[c] = <<last[c]>> /\ down[c] = <<>> /\ ~Serves(c)
Served(c) == up[c] = <<>> /\ down[c] = <<>> /\ Serves(c) /\ answer.no = last[c].no
Sent(c)   ==
    /\ up[c] = <<>> /\ ~Serves(c)
    /\ \E m \in Answers : m.no = last[c].no /\ ~TooLong(m) /\ down[c] = Frame(m)
Measured(c) ==
    /\ up[c] = <<>> /\ ~Serves(c)
    /\ \E m \in Answers : m.no = last[c].no /\ want[c] = 1 + m.items /\ down[c] = Body(m)

Orderly(c) ==
    /\ heard[c] \in {"none", "answer"}
    /\ main[c] \in {"start", "prompt"} => Quiet(c)
    /\ main[c] = "waiting" => Asking(c) \/ Served(c) \/ Sent(c)
    /\ main[c] = "reading" => Measured(c)

Calm(c)   == sock[c] = "closed" => main[c] = "ended"
InOrder(c) == Calm(c) /\ (~cut[c] => Orderly(c))
Exchanges == server # "dead" => \A c \in Client : InOrder(c)

SessionInv == TypeInv /\ Exchanges

(* A step that has nothing to do with a connection.                        *)
LEMMA Untouched ==
    ASSUME NEW c \in Client, InOrder(c),
           sock'[c] = sock[c], cut'[c] = cut[c], main'[c] = main[c], heard'[c] = heard[c],
           up'[c] = up[c], down'[c] = down[c], want'[c] = want[c], last'[c] = last[c],
           Serves(c)' <=> Serves(c), Serves(c) => answer' = answer
    PROVE  InOrder(c)'
BY DEF InOrder, Calm, Orderly, Quiet, Asking, Served, Sent, Measured

LEMMA ServeOrder ==
    ASSUME TypeInv, NEW c \in Client, InOrder(c), Serve \/ Stop, server' # "dead"
    PROVE  InOrder(c)'
<1>1. CASE Listen
  BY <1>1, Untouched DEF Listen, service, wires, user, Serves
<1>2. CASE Accept
  BY <1>2, Untouched DEF Accept, wires, user, Serves
<1>3. CASE Receive
  <2>1. CASE peer # c
    BY <1>3, <2>1, Untouched DEF Receive, user, Serves, TypeInv, WireTypes
  <2>2. CASE peer = c /\ main[c] # "ended" /\ ~cut[c]
    <3>1. up[c] \in Seq(Asked) /\ up[c] # <<>> /\ Head(up[c]) \in Asked
      BY <1>3, <2>2, HeadTailProperties DEF Receive, TypeInv, WireTypes
    <3>2. main[c] = "waiting" /\ Asking(c) /\ heard[c] \in {"none", "answer"}
      BY <2>2, <3>1 DEF InOrder, Orderly, Quiet, Served, Sent, Measured, TypeInv, ClientTypes
    <3>3. answer'.no = last[c].no
      BY <1>3, <2>2, <3>1, <3>2, InvokeType DEF Receive, Asking, TypeInv
    <3>4. up'[c] = <<>>
      BY <1>3, <2>2, <3>2 DEF Receive, Asking, TypeInv, WireTypes
    <3>5. Served(c)'
      BY <1>3, <2>2, <3>2, <3>3, <3>4 DEF Receive, Asking, Served, Serves, user
    <3>6. QED
      BY <1>3, <2>2, <3>2, <3>5 DEF Receive, InOrder, Calm, Orderly
  <2>3. CASE peer = c /\ (main[c] = "ended" \/ cut[c])
    BY <1>3, <2>3 DEF Receive, InOrder, Calm, Orderly
  <2>4. QED
    BY <2>1, <2>2, <2>3
<1>4. CASE ReceiveEnd
  <2>1. CASE peer # c
    BY <1>4, <2>1, Untouched DEF ReceiveEnd, LeaveLoop, wires, user, Serves
  <2>2. CASE peer = c
    BY <1>4, <2>2 DEF ReceiveEnd, LeaveLoop, wires, user, InOrder, Calm, Orderly
  <2>3. QED
    BY <2>1, <2>2
<1>5. CASE Send
  <2>1. CASE peer # c
    BY <1>5, <2>1, Untouched DEF Send, user, Serves, TypeInv, WireTypes, ClientTypes
  <2>2. CASE peer = c /\ main[c] # "ended" /\ ~cut'[c]
    <3>1. ~cut[c] /\ ~TooLong(answer)
      BY <1>5, <2>2 DEF Send, TypeInv, ClientTypes
    <3>2. main[c] = "waiting" /\ Served(c) /\ heard[c] \in {"none", "answer"}
      BY <1>5, <2>2, <3>1 DEF Send, Serves, InOrder, Orderly, Quiet, Asking, Sent, Measured,
                              TypeInv, ClientTypes
    <3>3. answer \in Answers
      BY <1>5 DEF Send, TypeInv, ServerTypes
    <3>4. down'[c] = <<>> \o Frame(answer)
      BY <1>5, <2>2, <3>2 DEF Send, Served, TypeInv, WireTypes
    <3>5. down'[c] = Frame(answer)
      BY <3>3, <3>4, FrameIs, ConcatEmptySeq
    <3>6. Sent(c)'
      BY <1>5, <3>1, <3>2, <3>3, <3>5 DEF Send, Sent, Served, Serves, user
    <3>7. QED
      BY <1>5, <2>2, <3>2, <3>6 DEF Send, InOrder, Calm, Orderly
  <2>3. CASE peer = c /\ (main[c] = "ended" \/ cut'[c])
    <3>1. ~cut'[c] => ~cut[c]
      BY <1>5, <2>3 DEF Send, TypeInv, ClientTypes
    <3>2. QED
      BY <1>5, <2>3, <3>1 DEF Send, InOrder, Calm, Orderly
  <2>4. QED
    BY <2>1, <2>2, <2>3
<1>6. CASE SendInVain
  <2>1. CASE peer # c
    BY <1>6, <2>1, Untouched DEF SendInVain, LeaveLoop, Die, wires, user, Serves
  <2>2. CASE peer = c
    BY <1>6, <2>2 DEF SendInVain, LeaveLoop, Die, wires, user, InOrder, Calm, Orderly
  <2>3. QED
    BY <2>1, <2>2
<1>7. CASE Stop
  BY <1>7 DEF Stop, Die
<1>8. QED
  BY <1>1, <1>2, <1>3, <1>4, <1>5, <1>6, <1>7 DEF Serve

(* A client only ever changes its own side of the connection.              *)
LEMMA OtherUsers ==
    ASSUME TypeInv, NEW c \in Client, NEW d \in Client, d # c, InOrder(c), User(d) \/ Read(d)
    PROVE  InOrder(c)'
<1> USE Untouched DEF TypeInv, WireTypes, ClientTypes, Serves
<1>1. CASE Start(d) \/ EndOfInput(d)
  BY <1>1 DEF Start, Connected, GivesUp, EndOfInput, service, wires, user
<1>2. CASE Put(d) \/ Get(d) \/ Del(d) \/ Size(d) \/ GetKeys(d) \/ GetTable(d) \/ Again(d)
  <2>1. PICK op \in Repeatable \cup {"put"}, k \in Key \cup {None} : Command(d, op, k)
    BY <1>2, CommandsAre
  <2>2. /\ last'[c] = last[c] /\ up'[c] = up[c] /\ main'[c] = main[c] /\ heard'[c] = heard[c]
        /\ want'[c] = want[c] /\ sock'[c] = sock[c]
    BY <2>1 DEF Command, SendRequest, Return, CloseSocket
  <2>3. QED
    BY <2>1, <2>2 DEF Command, service
<1>3. CASE Quit(d) \/ Kill(d)
  BY <1>3 DEF Quit, Kill, End, CloseSocket, service
<1>4. CASE ReadLength(d)
  BY <1>4 DEF ReadLength, service, user
<1>5. CASE ReadMessage(d)
  BY <1>5 DEF ReadMessage, Return, service, user
<1>6. CASE ReadEnd(d)
  BY <1>6 DEF ReadEnd, Return, CloseSocket, service, user
<1>7. QED
  BY <1>1, <1>2, <1>3, <1>4, <1>5, <1>6 DEF User, Read

(* A client at its prompt has nothing on its connection when it sends.     *)
LEMMA CommandOrder ==
    ASSUME TypeInv, NEW c \in Client, InOrder(c), server # "dead",
           NEW op \in Repeatable \cup {"put"}, NEW k \in Key \cup {None}, Command(c, op, k)
    PROVE  InOrder(c)'
<1> USE DEF TypeInv, WireTypes, ClientTypes
<1>1. main[c] = "prompt" /\ sock[c] # "closed"
  BY DEF Command, InOrder, Calm
<1>2. /\ up' = [up EXCEPT ![c] = Append(@, last'[c])] /\ main'[c] = "waiting" /\ heard'[c] = "none"
      /\ sock' = sock /\ UNCHANGED <<server, service, down, cut>>
  BY <1>1 DEF Command, SendRequest
<1>3. Calm(c)'
  BY <1>1, <1>2 DEF Calm
<1>4. ASSUME ~cut[c] PROVE Asking(c)'
  <2>1. Quiet(c)
    BY <1>1, <1>4 DEF InOrder, Orderly
  <2>2. up'[c] = <<last'[c]>>
    BY <1>2, <2>1 DEF Quiet
  <2>3. QED
    BY <1>2, <2>1, <2>2 DEF Asking, Quiet, Serves, service
<1>5. QED
  BY <1>2, <1>3, <1>4 DEF InOrder, Orderly

(* It reads what the server sent, and nothing else.                        *)
LEMMA ReadOrder ==
    ASSUME TypeInv, NEW c \in Client, InOrder(c), server # "dead", Read(c)
    PROVE  InOrder(c)'
<1> USE DEF TypeInv, WireTypes, ClientTypes
<1>1. CASE ReadLength(c)
  <2>1. Calm(c)'
    BY <1>1 DEF ReadLength, InOrder, Calm
  <2>2. ASSUME ~cut[c] PROVE Measured(c)' /\ heard[c] \in {"none", "answer"}
    <3>1. down[c] # <<>>
      BY <1>1 DEF ReadLength, Available
    <3>2. Sent(c) /\ heard[c] \in {"none", "answer"}
      BY <1>1, <2>2, <3>1 DEF ReadLength, InOrder, Orderly, Asking, Served
    <3>3. PICK m \in Answers : m.no = last[c].no /\ ~TooLong(m) /\ down[c] = Frame(m)
      BY <3>2 DEF Sent
    <3>4. Lengths(Head(down[c])) = {1 + m.items} /\ Tail(down[c]) = Body(m)
      BY <3>3, FrameIs DEF Lengths
    <3>5. want'[c] = 1 + m.items /\ down'[c] = Body(m)
      BY <1>1, <3>4 DEF ReadLength
    <3>6. Measured(c)'
      BY <1>1, <3>2, <3>3, <3>5 DEF ReadLength, Measured, Sent, Serves, service, user
    <3>7. QED
      BY <3>2, <3>6
  <2>3. QED
    BY <1>1, <2>1, <2>2 DEF ReadLength, InOrder, Orderly
<1>2. CASE ReadMessage(c)
  <2>1. Calm(c)'
    BY <1>2 DEF ReadMessage, InOrder, Calm
  <2>2. ASSUME ~cut[c] PROVE Quiet(c)' /\ heard'[c] = "answer"
    <3>1. Measured(c)
      BY <1>2, <2>2 DEF ReadMessage, InOrder, Orderly
    <3>2. PICK m \in Answers : m.no = last[c].no /\ want[c] = 1 + m.items /\ down[c] = Body(m)
      BY <3>1 DEF Measured
    <3>3. /\ down[c] \in Seq(Wired) /\ down[c] # <<>> /\ Len(down[c]) = want[c]
          /\ down[c][1].no = m.no /\ down[c][1].code = m.code /\ down[c][1].items = m.items
      BY <3>2, BodyIs
    <3>4. ReadAll(c, want[c]) = down[c]
      BY <3>3, SubSeqFull DEF ReadAll
    <3>5. m.code \in {"ok", "error"}
      BY DEF Answers
    <3>6. IsAnswer(c, ReadAll(c, want[c]))
      BY <3>2, <3>3, <3>4, <3>5 DEF IsAnswer
    <3>7. Return(c, "answer")
      BY <1>2, <3>6 DEF ReadMessage
    <3>8. SubSeq(down[c], want[c] + 1, Len(down[c])) = <<>>
      <4>1. want[c] \in Int /\ want[c] + 1 \in Int /\ want[c] < want[c] + 1
        BY SessionAssumption
      <4>2. QED
        BY <3>3, <4>1, SubSeqEmpty
    <3>9. down'[c] = <<>>
      BY <1>2, <3>8 DEF ReadMessage
    <3>10. QED
      BY <1>2, <3>1, <3>7, <3>9 DEF ReadMessage, Return, Quiet, Measured, Serves, service
  <2>3. main'[c] = "prompt" /\ cut' = cut
    BY <1>2 DEF ReadMessage, Return
  <2>4. QED
    BY <2>1, <2>2, <2>3 DEF InOrder, Orderly
<1>3. CASE ReadEnd(c)
  BY <1>3 DEF ReadEnd
<1>4. QED
  BY <1>1, <1>2, <1>3 DEF Read

LEMMA UserOrder ==
    ASSUME TypeInv, NEW c \in Client, InOrder(c), server # "dead", User(c)
    PROVE  InOrder(c)'
<1> USE DEF TypeInv, WireTypes, ClientTypes
<1>1. CASE Start(c)
  BY <1>1 DEF Start, Connected, GivesUp, InOrder, Calm, Orderly, Quiet, Serves, service, wires, user
<1>2. CASE EndOfInput(c)
  BY <1>2, Untouched DEF EndOfInput, Serves, service, wires
<1>3. CASE Quit(c) \/ Kill(c)
  BY <1>3 DEF Quit, Kill, End, CloseSocket, InOrder, Calm, Orderly
<1>4. CASE Put(c) \/ Get(c) \/ Del(c) \/ Size(c) \/ GetKeys(c) \/ GetTable(c) \/ Again(c)
  BY <1>4, CommandsAre, CommandOrder
<1>5. QED
  BY <1>1, <1>2, <1>3, <1>4 DEF User

LEMMA OrderStep == ASSUME SessionInv, [Next]_vars PROVE Exchanges'
<1> SUFFICES ASSUME server' # "dead", NEW c \in Client PROVE InOrder(c)'
  BY DEF Exchanges
<1>1. TypeInv
  BY DEF SessionInv
<1>2. server # "dead"
  BY DEF Next, Serve, Stop, User, Read, vars, Listen, Accept, Receive, ReceiveEnd, Send, SendInVain,
         LeaveLoop, Die, Start, Put, Get, Del, Size, GetKeys, GetTable, RtablePut, RtableGet, RtableDel,
         RtableSize, RtableGetKeys, RtableGetTable, EndOfInput, Again, Quit, Kill, End, Command,
         ReadLength, ReadMessage, ReadEnd
<1>3. InOrder(c)
  BY <1>2 DEF SessionInv, Exchanges
<1>4. CASE Serve \/ Stop
  BY <1>1, <1>3, <1>4, ServeOrder
<1>5. ASSUME NEW d \in Client, User(d) \/ Read(d) PROVE InOrder(c)'
  <2>1. CASE d = c
    BY <1>1, <1>2, <1>3, <1>5, <2>1, UserOrder, ReadOrder
  <2>2. CASE d # c
    BY <1>1, <1>3, <1>5, <2>2, OtherUsers
  <2>3. QED
    BY <2>1, <2>2
<1>6. CASE UNCHANGED vars
  BY <1>3, <1>6, Untouched DEF vars, service, wires, user, Serves
<1>7. QED
  BY <1>4, <1>5, <1>6 DEF Next

(* What a command returns is the answer to its own request, whole, unless  *)
(* the server is gone or an answer has been too long for its length.       *)
THEOREM OwnAnswersOnly == Spec => []OwnAnswers
<1>1. Init => SessionInv
  <2>1. Init => Exchanges
    BY DEF Init, Exchanges, InOrder, Calm, Orderly, Quiet, Serves
  <2>2. QED
    BY <2>1, TypeInit DEF SessionInv
<1>2. SessionInv /\ [Next]_vars => SessionInv'
  BY TypeStep, OrderStep DEF SessionInv
<1>3. SessionInv => OwnAnswers
  BY DEF SessionInv, Exchanges, InOrder, Orderly, OwnAnswers
<1>4. QED
  BY <1>1, <1>2, <1>3, PTL DEF Spec
=============================================================================
