-------------------------- MODULE ChatScriptsProofs --------------------------
(***************************************************************************)
(* What the conversation of the two test clients with the chat server      *)
(* guarantees for any bounds: what they do is what clients may do, records *)
(* and connections never come apart, and headers are read where headers    *)
(* are written.                                                            *)
(***************************************************************************)
EXTENDS ChatScripts, ChatServerProofs

-----------------------------------------------------------------------------
(* The scripts *)

\* What the scripts send: HELLO and EXIT without a text, CHAT with one.
Proper(m) == m.type \in {"HELLO", "CHAT", "EXIT"} /\ (m.body <=> m.type = "CHAT")

Headers ==
  [type : Types, source : IDs \cup {EmptyID}, dest : IDs \cup {EmptyID}, body : BOOLEAN]
Deeds == {"send", "ack", "list", "chat", "text", "close"}
Statements == [do : Deeds, message : Headers \cup {Nothing}]

\* A part of a script after the greeting: it sends under the client's name,
\* and reads a text after each header of a chat, and nowhere else.
Exchange(s, c) ==
  \A i \in 1..Len(s) :
    /\ s[i].do \in {"send", "chat", "text", "close"}
    /\ s[i].do = "send"
         => Proper(s[i].message) /\ s[i].message.source = c /\ s[i].message.type # "HELLO"
    /\ s[i].do = "chat" => i + 1 \in 1..Len(s) /\ s[i + 1].do = "text"
    /\ s[i].do = "text" => i - 1 \in 1..Len(s) /\ s[i - 1].do = "chat"

\* A script: the greeting and then an exchange.
Script(s, c) ==
  /\ Len(s) >= 4
  /\ s[1].do = "send" /\ Proper(s[1].message) /\ s[1].message.source = c
  /\ s[1].message.type = "HELLO"
  /\ s[2].do = "ack" /\ s[3].do = "ack" /\ s[4].do = "list"
  /\ \A i \in 5..Len(s) :
       /\ s[i].do \in {"send", "chat", "text", "close"}
       /\ s[i].do = "send"
            => Proper(s[i].message) /\ s[i].message.source = c /\ s[i].message.type # "HELLO"
       /\ s[i].do = "chat" => i + 1 \in 5..Len(s) /\ s[i + 1].do = "text"
       /\ s[i].do = "text" => i - 1 \in 5..Len(s) /\ s[i - 1].do = "chat"

\* A script with one more exchange is a script.
LEMMA ScriptGoesOn ==
  ASSUME NEW c, NEW s \in Seq(Statements), Script(s, c),
         NEW t \in Seq(Statements), Exchange(t, c)
  PROVE  s \o t \in Seq(Statements) /\ Script(s \o t, c)
  <1> DEFINE w == s \o t
  <1>1. Len(s) \in Nat /\ Len(t) \in Nat /\ Len(s) >= 4 BY LenProperties DEF Script
  <1>2. /\ w \in Seq(Statements) /\ Len(w) = Len(s) + Len(t)
        /\ \A i \in 1..(Len(s) + Len(t)) : w[i] = IF i <= Len(s) THEN s[i] ELSE t[i - Len(s)]
    BY ConcatProperties
  <1> HIDE DEF w
  <1>3. \A i \in 1..Len(s) : w[i] = s[i] BY <1>1, <1>2
  <1>4. \A i \in 1..Len(t) : w[i + Len(s)] = t[i] BY <1>1, <1>2
  <1>5. w[1] = s[1] /\ w[2] = s[2] /\ w[3] = s[3] /\ w[4] = s[4] BY <1>1, <1>3
  <1>6. ASSUME NEW i \in 5..Len(w)
        PROVE  /\ w[i].do \in {"send", "chat", "text", "close"}
               /\ w[i].do = "send"
                    => Proper(w[i].message) /\ w[i].message.source = c
                       /\ w[i].message.type # "HELLO"
               /\ w[i].do = "chat" => i + 1 \in 5..Len(w) /\ w[i + 1].do = "text"
               /\ w[i].do = "text" => i - 1 \in 5..Len(w) /\ w[i - 1].do = "chat"
    <2>1. CASE i <= Len(s)
      <3>1. i \in 5..Len(s) /\ w[i] = s[i] BY <1>1, <1>3, <2>1
      <3>2. i + 1 \in 5..Len(s) => i + 1 \in 5..Len(w) /\ w[i + 1] = s[i + 1]
        BY <1>1, <1>2, <1>3
      <3>3. i - 1 \in 5..Len(s) => i - 1 \in 5..Len(w) /\ w[i - 1] = s[i - 1]
        BY <1>1, <1>2, <1>3
      <3>4. QED BY <3>1, <3>2, <3>3 DEF Script
    <2>2. CASE i > Len(s)
      <3>1. PICK k \in 1..Len(t) : i = k + Len(s)
        <4>1. i - Len(s) \in 1..Len(t) /\ i = (i - Len(s)) + Len(s) BY <1>1, <1>2, <2>2
        <4>2. QED BY <4>1
      <3>2. w[i] = t[k] BY <1>4, <3>1
      <3>3. k + 1 \in 1..Len(t) => i + 1 \in 5..Len(w) /\ w[i + 1] = t[k + 1]
        <4>1. i + 1 = (k + 1) + Len(s) BY <1>1, <3>1
        <4>2. QED BY <1>1, <1>2, <1>4, <4>1
      <3>4. k - 1 \in 1..Len(t) => i - 1 \in 5..Len(w) /\ w[i - 1] = t[k - 1]
        <4>1. i - 1 = (k - 1) + Len(s) BY <1>1, <3>1
        <4>2. k - 1 \in 1..Len(t) => w[i - 1] = t[k - 1] BY <1>4, <4>1
        <4>3. k - 1 \in 1..Len(t) => i - 1 \in 5..Len(w) BY <1>1, <1>2, <3>1
        <4>4. QED BY <4>2, <4>3
      <3>5. QED BY <3>1, <3>2, <3>3, <3>4 DEF Exchange
    <2>3. QED BY <1>1, <1>2, <2>1, <2>2
  <1>7. Script(w, c)
    BY <1>1, <1>2, <1>5, <1>6 DEF Script
  <1>8. QED BY <1>2, <1>7 DEF w

\* The greeting of a client is a script.
LEMMA GreetingIsScript ==
  ASSUME NEW c \in Clients
  PROVE  /\ sendHello(c) \o recHelloAck \in Seq(Statements)
         /\ Script(sendHello(c) \o recHelloAck, c)
  <1> DEFINE s == sendHello(c)
             t == recHelloAck
             w == s \o t
             m == Message("HELLO", c, EmptyID, FALSE)
  <1>1. c \in IDs BY ScriptAssumption
  <1>2. m \in Headers BY <1>1 DEF Message, Types, Headers
  <1>3. Proper(m) /\ m.source = c /\ m.type = "HELLO" BY DEF Message, Proper
  <1> HIDE DEF m
  <1>4. Statement("send", m) \in Statements BY <1>2 DEF Statement, Statements, Deeds
  <1>5. Statement("ack", Nothing) \in Statements /\ Statement("list", Nothing) \in Statements
    BY DEF Statement, Statements, Deeds
  <1>6. s \in Seq(Statements) /\ Len(s) = 1 /\ s[1].do = "send" /\ s[1].message = m
    <2>1. s = <<Statement("send", m)>> BY DEF sendHello, m
    <2> HIDE DEF s
    <2>2. s \in Seq(Statements) BY <1>4, <2>1
    <2>3. QED BY <2>1, <2>2 DEF Statement
  <1>7. /\ t \in Seq(Statements) /\ Len(t) = 3
        /\ t[1].do = "ack" /\ t[2].do = "ack" /\ t[3].do = "list"
    <2>1. t = <<Statement("ack", Nothing), Statement("ack", Nothing), Statement("list", Nothing)>>
      BY DEF recHelloAck
    <2>2. t \in Seq(Statements) BY <1>5, <2>1
    <2>3. QED BY <2>1, <2>2 DEF Statement
  <1> HIDE DEF s, t
  <1>8. /\ w \in Seq(Statements) /\ Len(w) = 1 + 3
        /\ \A i \in 1..(1 + 3) : w[i] = IF i <= 1 THEN s[i] ELSE t[i - 1]
    <2>1. /\ w \in Seq(Statements) /\ Len(w) = Len(s) + Len(t)
          /\ \A i \in 1..(Len(s) + Len(t)) : w[i] = IF i <= Len(s) THEN s[i] ELSE t[i - Len(s)]
      BY <1>6, <1>7, ConcatProperties
    <2> HIDE DEF w
    <2>2. QED BY <1>6, <1>7, <2>1
  <1> HIDE DEF w
  <1>9. w[1] = s[1] /\ w[2] = t[1] /\ w[3] = t[2] /\ w[4] = t[3] BY <1>8
  <1>10. Script(w, c) BY <1>3, <1>6, <1>7, <1>8, <1>9 DEF Script
  <1>11. QED BY <1>8, <1>10 DEF s, t, w

\* What follows the greeting are exchanges.
LEMMA Exchanges ==
  ASSUME NEW c \in Clients
  PROVE  /\ recChat \in Seq(Statements) /\ Exchange(recChat, c)
         /\ closing \in Seq(Statements) /\ Exchange(closing, c)
         /\ sendExit(c) \in Seq(Statements) /\ Exchange(sendExit(c), c)
         /\ \A d \in IDs : sendChat(c, d) \in Seq(Statements) /\ Exchange(sendChat(c, d), c)
  <1>1. c \in IDs BY ScriptAssumption
  <1>2. recChat \in Seq(Statements) /\ Exchange(recChat, c)
    <2>1. recChat = <<Statement("chat", Nothing), Statement("text", Nothing)>> BY DEF recChat
    <2>2. Statement("chat", Nothing) \in Statements /\ Statement("text", Nothing) \in Statements
      BY DEF Statement, Statements, Deeds
    <2>3. recChat \in Seq(Statements) /\ Len(recChat) = 2 BY <2>1, <2>2
    <2>4. recChat[1].do = "chat" /\ recChat[2].do = "text" BY <2>1 DEF Statement
    <2>5. \A i \in 1..2 : i = 1 \/ i = 2 OBVIOUS
    <2>6. QED BY <2>3, <2>4, <2>5 DEF Exchange
  <1>3. closing \in Seq(Statements) /\ Exchange(closing, c)
    <2>1. Statement("close", Nothing) \in Statements BY DEF Statement, Statements, Deeds
    <2>2. closing \in Seq(Statements) /\ Len(closing) = 1 /\ closing[1].do = "close"
      BY <2>1 DEF closing, Statement
    <2>3. QED BY <2>2 DEF Exchange
  <1>4. ASSUME NEW m, Proper(m), m.source = c, m.type # "HELLO",
               m \in Headers
        PROVE  /\ <<Statement("send", m)>> \in Seq(Statements)
               /\ Exchange(<<Statement("send", m)>>, c)
    <2> DEFINE s == <<Statement("send", m)>>
    <2>1. Statement("send", m) \in Statements BY <1>4 DEF Statement, Statements, Deeds
    <2>2. s \in Seq(Statements) /\ Len(s) = 1 /\ s[1].do = "send" /\ s[1].message = m
      BY <2>1 DEF Statement
    <2> HIDE DEF s
    <2>3. Exchange(s, c) BY <1>4, <2>2 DEF Exchange
    <2>4. QED BY <2>2, <2>3 DEF s
  <1>5. sendExit(c) \in Seq(Statements) /\ Exchange(sendExit(c), c)
    <2> DEFINE m == Message("EXIT", c, EmptyID, FALSE)
    <2>1. /\ Proper(m) /\ m.source = c /\ m.type # "HELLO"
          /\ m \in Headers
      BY <1>1 DEF Message, Proper, Types, Headers
    <2> HIDE DEF m
    <2>2. <<Statement("send", m)>> \in Seq(Statements) /\ Exchange(<<Statement("send", m)>>, c)
      BY <1>4, <2>1
    <2>3. QED BY <2>2 DEF sendExit, m
  <1>6. ASSUME NEW d \in IDs
        PROVE  sendChat(c, d) \in Seq(Statements) /\ Exchange(sendChat(c, d), c)
    <2> DEFINE m == Message("CHAT", c, d, TRUE)
    <2>1. /\ Proper(m) /\ m.source = c /\ m.type # "HELLO"
          /\ m \in Headers
      BY <1>1 DEF Message, Proper, Types, Headers
    <2> HIDE DEF m
    <2>2. <<Statement("send", m)>> \in Seq(Statements) /\ Exchange(<<Statement("send", m)>>, c)
      BY <1>4, <2>1
    <2>3. QED BY <2>2 DEF sendChat, m
  <1>7. QED BY <1>2, <1>3, <1>5, <1>6

\* Both clients follow a script.
LEMMA ScriptsAreScripts ==
  ASSUME NEW c \in Clients
  PROVE  start_client[c] \in Seq(Statements) /\ Script(start_client[c], c)
  <1> DEFINE IsScript(s) == s \in Seq(Statements) /\ Script(s, c)
  <1> DEFINE IsExchange(s) == s \in Seq(Statements) /\ Exchange(s, c)
  <1>1. \A s, t : IsScript(s) /\ IsExchange(t) => IsScript(s \o t) BY ScriptGoesOn
  <1>2. client2 \in Clients /\ client4 \in Clients /\ client2 # client4
        /\ client2 \in IDs /\ client4 \in IDs /\ phila \in IDs
    BY ScriptAssumption
  <1>3. IsExchange(recChat) /\ IsExchange(closing) /\ IsExchange(sendExit(c))
        /\ \A d \in IDs : IsExchange(sendChat(c, d))
    BY Exchanges
  <1>4. IsScript(sendHello(c) \o recHelloAck) BY GreetingIsScript
  <1> HIDE DEF IsScript, IsExchange
  <1>5. CASE c = client2
    <2> DEFINE s0 == sendHello(client2) \o recHelloAck
               s1 == s0 \o recChat
               s2 == s1 \o recChat
               s3 == s2 \o sendChat(client2, client4)
               s4 == s3 \o sendChat(client2, client4)
               s5 == s4 \o sendChat(client2, client4)
               s6 == s5 \o sendExit(client2)
               s7 == s6 \o closing
    <2>1. start_client[c] = s7 BY <1>5, <1>2 DEF start_client, script2
    <2>2. IsScript(s0) BY <1>4, <1>5
    <2> HIDE DEF s0
    <2>3. IsScript(s1) BY <1>1, <1>3, <2>2
    <2> HIDE DEF s1
    <2>4. IsScript(s2) BY <1>1, <1>3, <2>3
    <2> HIDE DEF s2
    <2>5. IsExchange(sendChat(client2, client4)) BY <1>2, <1>3, <1>5
    <2>6. IsScript(s3) BY <1>1, <2>4, <2>5
    <2> HIDE DEF s3
    <2>7. IsScript(s4) BY <1>1, <2>5, <2>6
    <2> HIDE DEF s4
    <2>8. IsScript(s5) BY <1>1, <2>5, <2>7
    <2> HIDE DEF s5
    <2>9. IsScript(s6) BY <1>1, <1>3, <1>5, <2>8
    <2> HIDE DEF s6
    <2>10. IsScript(s7) BY <1>1, <1>3, <2>9
    <2>11. QED BY <2>1, <2>10 DEF IsScript
  <1>6. CASE c = client4
    <2> DEFINE s0 == sendHello(client4) \o recHelloAck
               s1 == s0 \o sendChat(client4, client2)
               s2 == s1 \o sendChat(client4, client2)
               s3 == s2 \o sendChat(client4, phila)
               s4 == s3 \o recChat
               s5 == s4 \o recChat
               s6 == s5 \o recChat
               s7 == s6 \o sendExit(client4)
               s8 == s7 \o closing
    <2>1. start_client[c] = s8 BY <1>6, <1>2 DEF start_client, script4
    <2>2. IsScript(s0) BY <1>4, <1>6
    <2> HIDE DEF s0
    <2>3. IsExchange(sendChat(client4, client2)) /\ IsExchange(sendChat(client4, phila))
      BY <1>2, <1>3, <1>6
    <2>4. IsScript(s1) BY <1>1, <2>2, <2>3
    <2> HIDE DEF s1
    <2>5. IsScript(s2) BY <1>1, <2>3, <2>4
    <2> HIDE DEF s2
    <2>6. IsScript(s3) BY <1>1, <2>3, <2>5
    <2> HIDE DEF s3
    <2>7. IsScript(s4) BY <1>1, <1>3, <2>6
    <2> HIDE DEF s4
    <2>8. IsScript(s5) BY <1>1, <1>3, <2>7
    <2> HIDE DEF s5
    <2>9. IsScript(s6) BY <1>1, <1>3, <2>8
    <2> HIDE DEF s6
    <2>10. IsScript(s7) BY <1>1, <1>3, <1>6, <2>9
    <2> HIDE DEF s7
    <2>11. IsScript(s8) BY <1>1, <1>3, <2>10
    <2>12. QED BY <2>1, <2>11 DEF IsScript
  <1>7. QED BY <1>5, <1>6, ScriptAssumption

-----------------------------------------------------------------------------
(* What the handlers do, case by case *)

Effect(o, list, closed, to, cells) ==
  o.list = list /\ o.closed = closed /\ o.to = to /\ o.cells = cells

Refused(list, m, fd, o) == Effect(o, List_remove(list, m.source), {fd}, NoFd, <<>>)
Present(list, m, fd, o) ==
  /\ m.type = "HELLO" /\ m.source # EmptyID
  /\ List_contains_id(list, m.source) /\ List_getFD(list, m.source) # fd
  /\ Effect(o, list, {fd}, fd, <<"CLIENT_PRESENT">>)
Welcomed(list, m, fd, o) ==
  /\ m.type = "HELLO" /\ m.source # EmptyID /\ ~List_contains_id(list, m.source)
  /\ \/ Effect(o, List_add(list, m.source, fd), {}, fd, <<"HELLO_ACK", "CLIENT_LIST", "IDS">>)
     \/ Effect(o, List_remove(List_add(list, m.source, fd), m.source), {fd}, NoFd,
               <<"HELLO_ACK">>)
Listed(list, m, fd, o) ==
  /\ m.type = "LIST_REQUEST" /\ authenticate(list, m.source, fd)
  /\ Effect(o, list, {}, fd, <<"CLIENT_LIST", "IDS">>)
Passed(list, m, fd, o) ==
  /\ m.type = "CHAT" /\ authenticate(list, m.source, fd) /\ List_contains_id(list, m.dest)
  /\ \/ /\ m.body
        /\ Effect(o, list, {}, List_getFD(list, m.dest), <<"CHAT", "TEXT">>)
     \/ /\ ~m.body
        /\ Effect(o, list, {}, List_getFD(list, m.dest), <<"EMPTY_CHAT">>)
     \/ Effect(o, List_remove(list, m.dest), {List_getFD(list, m.dest)}, NoFd, <<>>)
Undeliverable(list, m, fd, o) ==
  /\ m.type = "CHAT" /\ authenticate(list, m.source, fd)
  /\ Effect(o, List_remove(list, m.source), {fd}, fd, <<"CANNOT_DELIVER">>)
Left(list, m, fd, o) ==
  /\ m.type = "EXIT" /\ authenticate(list, m.source, fd)
  /\ Effect(o, List_remove(list, m.source), {}, NoFd, <<>>)

\* removeClient takes a record out, closes a descriptor and writes nothing.
LEMMA RemoveClientEffect ==
  ASSUME NEW list, NEW clientID, NEW fd
  PROVE  LET o == removeClient(list, clientID, fd)
         IN DOMAIN o = Fields /\ Effect(o, List_remove(list, clientID), {fd}, NoFd, <<>>)
  BY DEF removeClient, Outcome, Effect, Fields

\* A write arrives, or costs its client the record and the connection.
LEMMA WrittenEffect ==
  ASSUME NEW list, NEW clientID, NEW fd, NEW cells, NEW o \in Written(list, clientID, fd, cells)
  PROVE  /\ DOMAIN o = Fields
         /\ \/ Effect(o, list, {}, fd, cells)
            \/ Effect(o, List_remove(list, clientID), {fd}, NoFd, <<>>)
  <1>1. \/ o = removeClient(list, clientID, fd)
        \/ o = Writing(Outcome(list, {}), fd, cells)
    BY DEF Written
  <1>2. CASE o = removeClient(list, clientID, fd) BY <1>2, RemoveClientEffect
  <1>3. CASE o = Writing(Outcome(list, {}), fd, cells)
    BY <1>3 DEF Writing, Outcome, Effect, Fields
  <1>4. QED BY <1>1, <1>2, <1>3

\* Two short sequences in a row.
LEMMA OneAndTwo ==
  ASSUME NEW a, NEW b, NEW c
  PROVE  <<a>> \o <<b, c>> = <<a, b, c>>
  <1> DEFINE s == <<a>>
             t == <<b, c>>
             w == s \o t
             E == {a, b, c}
  <1>1. /\ s \in Seq(E) /\ Len(s) = 1 /\ s[1] = a
        /\ t \in Seq(E) /\ Len(t) = 2 /\ t[1] = b /\ t[2] = c
    OBVIOUS
  <1> HIDE DEF s, t, E
  <1>2. /\ w \in Seq(E) /\ Len(w) = Len(s) + Len(t)
        /\ \A i \in 1..(Len(s) + Len(t)) : w[i] = IF i <= Len(s) THEN s[i] ELSE t[i - Len(s)]
    BY <1>1, ConcatProperties
  <1> HIDE DEF w
  <1>3. Len(w) = 3 /\ w[1] = a /\ w[2] = b /\ w[3] = c
    BY <1>1, <1>2
  <1>4. <<a, b, c>> \in Seq(E) BY DEF E
  <1>5. \A i \in 1..3 : w[i] = <<a, b, c>>[i]
    <2>1. \A i \in 1..3 : i = 1 \/ i = 2 \/ i = 3 OBVIOUS
    <2>2. QED BY <1>3, <2>1
  <1>6. w = <<a, b, c>> BY <1>2, <1>3, <1>4, <1>5, SeqEqual
  <1>7. QED BY <1>6 DEF s, t, w

\* A HELLO registers a new name, or the connection goes (hello).
LEMMA HelloEffect ==
  ASSUME NEW list, NEW m, m.type = "HELLO", NEW fd, NEW o \in hello(list, m, fd)
  PROVE  Refused(list, m, fd, o) \/ Present(list, m, fd, o) \/ Welcomed(list, m, fd, o)
  <1>1. CASE o = removeClient(list, m.source, fd) BY <1>1, RemoveClientEffect DEF Refused
  <1>2. CASE m.source # EmptyID /\ List_contains_id(list, m.source)
    <2>1. o \in client_present(list, m.source, fd) BY <1>2 DEF hello
    <2>2. CASE List_getFD(list, m.source) = fd BY <1>1, <2>1, <2>2 DEF client_present
    <2>3. CASE List_getFD(list, m.source) # fd
      <3>1. o = Writing(Outcome(list, {fd}), fd, <<"CLIENT_PRESENT">>)
        BY <2>1, <2>3 DEF client_present
      <3>2. Effect(o, list, {fd}, fd, <<"CLIENT_PRESENT">>)
        BY <3>1 DEF Writing, Outcome, Effect
      <3>3. QED BY <1>2, <2>3, <3>2 DEF Present
    <2>4. QED BY <2>2, <2>3
  <1>3. CASE m.source # EmptyID /\ ~List_contains_id(list, m.source)
    <2> DEFINE longer == List_add(list, m.source, fd)
    <2>1. PICK w \in Written(longer, m.source, fd, <<"CLIENT_LIST", "IDS">>) :
            o = [w EXCEPT !.cells = <<"HELLO_ACK">> \o @]
      BY <1>3 DEF hello, Register, client_list
    <2>2. /\ DOMAIN w = Fields
          /\ \/ Effect(w, longer, {}, fd, <<"CLIENT_LIST", "IDS">>)
             \/ Effect(w, List_remove(longer, m.source), {fd}, NoFd, <<>>)
      BY WrittenEffect
    <2>3. o.list = w.list /\ o.closed = w.closed /\ o.to = w.to
          /\ o.cells = <<"HELLO_ACK">> \o w.cells
      BY <2>1, <2>2 DEF Fields
    <2>4. <<"HELLO_ACK">> \o <<"CLIENT_LIST", "IDS">> = <<"HELLO_ACK", "CLIENT_LIST", "IDS">>
          /\ <<"HELLO_ACK">> \o <<>> = <<"HELLO_ACK">>
      BY OneAndTwo, ConcatEmptySeq
    <2> HIDE DEF longer
    <2>5. \/ Effect(o, longer, {}, fd, <<"HELLO_ACK", "CLIENT_LIST", "IDS">>)
          \/ Effect(o, List_remove(longer, m.source), {fd}, NoFd, <<"HELLO_ACK">>)
      BY <2>2, <2>3, <2>4 DEF Effect
    <2>6. QED BY <1>3, <2>5 DEF Welcomed, longer
  <1>4. CASE m.source = EmptyID BY <1>1, <1>4 DEF hello
  <1>5. QED BY <1>2, <1>3, <1>4

\* A CHAT is passed on, or its sender is told off or refused (chat).
LEMMA ChatEffect ==
  ASSUME NEW list, NEW m, m.type = "CHAT", m.body \in BOOLEAN, NEW fd,
         authenticate(list, m.source, fd), NEW o \in chat(list, m, fd)
  PROVE  Refused(list, m, fd, o) \/ Passed(list, m, fd, o) \/ Undeliverable(list, m, fd, o)
  <1>1. CASE m.source = m.dest
    BY <1>1, RemoveClientEffect DEF chat, Refused
  <1>2. CASE m.source # m.dest /\ List_contains_id(list, m.dest)
    <2> DEFINE cells == IF m.body THEN <<"CHAT", "TEXT">> ELSE <<"EMPTY_CHAT">>
    <2>1. PICK w \in Written(list, m.dest, List_getFD(list, m.dest), cells) :
            o = [w EXCEPT !.passed = <<m.source, m.dest>>]
      BY <1>2 DEF chat
    <2>2. \/ cells = <<"CHAT", "TEXT">> /\ m.body
          \/ cells = <<"EMPTY_CHAT">> /\ ~m.body
      OBVIOUS
    <2> HIDE DEF cells
    <2>3. /\ DOMAIN w = Fields
          /\ \/ Effect(w, list, {}, List_getFD(list, m.dest), cells)
             \/ Effect(w, List_remove(list, m.dest), {List_getFD(list, m.dest)}, NoFd, <<>>)
      BY <2>1, WrittenEffect
    <2>4. o.list = w.list /\ o.closed = w.closed /\ o.to = w.to /\ o.cells = w.cells
      BY <2>1, <2>3 DEF Fields
    <2>5. \/ Effect(o, list, {}, List_getFD(list, m.dest), cells)
          \/ Effect(o, List_remove(list, m.dest), {List_getFD(list, m.dest)}, NoFd, <<>>)
      BY <2>3, <2>4 DEF Effect
    <2>6. QED BY <1>2, <2>2, <2>5 DEF Passed
  <1>3. CASE m.source # m.dest /\ ~List_contains_id(list, m.dest)
    <2>1. o = Writing(removeClient(list, m.source, fd), fd, <<"CANNOT_DELIVER">>)
      BY <1>3 DEF chat
    <2>2. Effect(o, List_remove(list, m.source), {fd}, fd, <<"CANNOT_DELIVER">>)
      BY <2>1 DEF Writing, removeClient, Outcome, Effect
    <2>3. QED BY <2>2 DEF Undeliverable
  <1>4. QED BY <1>1, <1>2, <1>3

\* What process may do with a message.
LEMMA ProcessEffect ==
  ASSUME NEW list, NEW m \in Messages, NEW fd, NEW o \in process(list, m, fd)
  PROVE  \/ Refused(list, m, fd, o) \/ Present(list, m, fd, o) \/ Welcomed(list, m, fd, o)
         \/ Listed(list, m, fd, o) \/ Passed(list, m, fd, o)
         \/ Undeliverable(list, m, fd, o) \/ Left(list, m, fd, o)
  <1>1. CASE o = removeClient(list, m.source, fd) BY <1>1, RemoveClientEffect DEF Refused
  <1>2. CASE m.type = "HELLO" /\ o \in hello(list, m, fd) BY <1>2, HelloEffect
  <1>3. CASE authenticate(list, m.source, fd) /\ o \in authenticated(list, m, fd)
            /\ m.type \in {"LIST_REQUEST", "CHAT", "EXIT"}
    <2>1. CASE m.type = "LIST_REQUEST"
      <3>1. o \in Written(list, m.source, fd, <<"CLIENT_LIST", "IDS">>)
        BY <1>3, <2>1 DEF authenticated, client_list
      <3>2. QED BY <1>3, <2>1, <3>1, WrittenEffect DEF Listed, Refused
    <2>2. CASE m.type = "CHAT"
      <3>1. o \in chat(list, m, fd) BY <1>3, <2>2 DEF authenticated
      <3>2. m.body \in BOOLEAN BY MessageAssumption
      <3>3. QED BY <1>3, <2>2, <3>1, <3>2, ChatEffect
    <2>3. CASE m.type = "EXIT"
      <3>1. o = Outcome(List_remove(list, m.source), {}) BY <1>3, <2>3 DEF authenticated
      <3>2. Effect(o, List_remove(list, m.source), {}, NoFd, <<>>)
        BY <3>1 DEF Outcome, Effect
      <3>3. QED BY <1>3, <2>3, <3>2 DEF Left
    <2>4. QED BY <1>3, <2>1, <2>2, <2>3
  <1>4. CASE ~validateHeader(m)
    <2>1. m.type # "HELLO" BY <1>4 DEF validateHeader
    <2>2. o \in {removeClient(list, m.source, fd)} BY <1>4, <2>1 DEF process
    <2>3. QED BY <1>1, <2>2
  <1>5. CASE validateHeader(m) /\ m.type = "HELLO"
    <2>1. o \in hello(list, m, fd) BY <1>5 DEF process
    <2>2. QED BY <1>2, <1>5, <2>1
  <1>6. CASE validateHeader(m) /\ m.type # "HELLO"
    <2>1. \/ o = removeClient(list, m.source, fd)
          \/ /\ authenticate(list, m.source, fd) /\ o \in authenticated(list, m, fd)
             /\ m.type \in {"LIST_REQUEST", "CHAT", "EXIT"}
      BY <1>6 DEF process, validateHeader
    <2>2. QED BY <1>1, <1>3, <2>1
  <1>7. QED BY <1>4, <1>5, <1>6

-----------------------------------------------------------------------------
(* The scripts run against the chat server *)

\* What the server writes, in units of one write.
Replies == {"HELLO_ACK", "CLIENT_LIST", "IDS", "CLIENT_PRESENT", "CHAT", "TEXT",
            "EMPTY_CHAT", "CANNOT_DELIVER"}

ScriptTypes ==
  /\ at \in [Clients -> Nat] /\ stream \in [Clients -> Seq(Replies)]
  /\ greedy \subseteq Clients /\ killed \subseteq Clients

\* A client that runs is at a statement of its script.
LEMMA RunningAt ==
  ASSUME ScriptTypes, NEW c \in Clients, Running(c)
  PROVE  at[c] + 1 \in 1..Len(start_client[c]) /\ at[c] \in Nat
  <1>1. at[c] \in Nat BY DEF ScriptTypes
  <1>2. Len(start_client[c]) \in Nat BY ScriptsAreScripts, LenProperties
  <1>3. at[c] < Len(start_client[c]) BY DEF Running
  <1>4. QED BY <1>1, <1>2, <1>3

\* A client writes nothing but the messages of its script.
LEMMA WritesAMessage ==
  ASSUME ScriptTypes, NEW c \in Clients, Doing(c, "send")
  PROVE  start_client[c][at[c] + 1].message \in Messages
  <1>1. at[c] + 1 \in 1..Len(start_client[c]) BY RunningAt DEF Doing
  <1>2. QED BY <1>1, ScriptMessageAssumption DEF Doing

\* Whatever a client and the server do, the server could do with any clients.
LEMMA StepOfServer ==
  ASSUME ScriptTypes, ScriptNext
  PROVE  [Next]_vars
  <1>1. CASE Answer
    <2>1. Process BY <1>1 DEF Answer, Process
    <2>2. QED BY <2>1 DEF Next, Server
  <1>2. CASE OtherServerStep BY <1>2 DEF OtherServerStep, Next, Server
  <1>3. ASSUME NEW c \in Clients, Launch(c) PROVE Next
    BY <1>3 DEF Launch, Next, Environment
  <1>4. ASSUME NEW c \in Clients, Write(c) PROVE Next
    <2>1. start_client[c][at[c] + 1].message \in Messages
      BY <1>4, WritesAMessage DEF Write
    <2>2. PICK fd \in Connection(c) : Send(fd, start_client[c][at[c] + 1].message)
      BY <1>4 DEF Write
    <2>3. fd \in Fds BY DEF Connection, Open
    <2>4. Environment BY <2>1, <2>2, <2>3 DEF Environment
    <2>5. QED BY <2>4 DEF Next
  <1>5. ASSUME NEW c \in Clients, Hangup(c) PROVE [Next]_vars
    <2>1. CASE UNCHANGED vars BY <2>1
    <2>2. ASSUME NEW fd \in Connection(c), Disconnect(fd) PROVE Next
      <3>1. fd \in Fds BY DEF Connection, Open
      <3>2. Environment BY <2>2, <3>1 DEF Environment
      <3>3. QED BY <3>2 DEF Next
    <2>3. QED BY <1>5, <2>1, <2>2 DEF Hangup
  <1>6. ASSUME NEW c \in Clients,
               WriteToNobody(c) \/ ReadAck(c) \/ ReadList(c) \/ ReadChat(c) \/ ReadText(c)
               \/ ReadEOF(c)
        PROVE  UNCHANGED vars
    BY <1>6 DEF WriteToNobody, ReadAck, ReadList, ReadChat, ReadText, ReadEOF
  <1>7. ASSUME NEW fd \in Fds, Age(fd) PROVE Next BY <1>7 DEF Next, Environment
  <1>8. QED
    BY <1>1, <1>2, <1>3, <1>4, <1>5, <1>6, <1>7 DEF ScriptNext, ServerStep, ClientStep

\* What process writes are replies.
LEMMA EffectReplies ==
  ASSUME NEW list, NEW m \in Messages, NEW fd, NEW o \in process(list, m, fd)
  PROVE  o.cells \in Seq(Replies)
  <1>1. o.cells \in {<<>>, <<"HELLO_ACK">>, <<"HELLO_ACK", "CLIENT_LIST", "IDS">>,
                     <<"CLIENT_PRESENT">>, <<"CLIENT_LIST", "IDS">>, <<"CHAT", "TEXT">>,
                     <<"EMPTY_CHAT">>, <<"CANNOT_DELIVER">>}
    BY ProcessEffect
       DEF Refused, Present, Welcomed, Listed, Passed, Undeliverable, Left, Effect
  <1>2. /\ "HELLO_ACK" \in Replies /\ "CLIENT_LIST" \in Replies /\ "IDS" \in Replies
        /\ "CLIENT_PRESENT" \in Replies /\ "CHAT" \in Replies /\ "TEXT" \in Replies
        /\ "EMPTY_CHAT" \in Replies /\ "CANNOT_DELIVER" \in Replies
    BY DEF Replies
  <1>3. /\ <<>> \in Seq(Replies) /\ <<"HELLO_ACK">> \in Seq(Replies)
        /\ <<"HELLO_ACK", "CLIENT_LIST", "IDS">> \in Seq(Replies)
        /\ <<"CLIENT_PRESENT">> \in Seq(Replies)
        /\ <<"CLIENT_LIST", "IDS">> \in Seq(Replies) /\ <<"CHAT", "TEXT">> \in Seq(Replies)
        /\ <<"EMPTY_CHAT">> \in Seq(Replies) /\ <<"CANNOT_DELIVER">> \in Seq(Replies)
    BY <1>2
  <1>4. QED BY <1>1, <1>3

\* A read takes a part of the stream.
LEMMA TakeType ==
  ASSUME ScriptTypes, NEW c \in Clients, NEW n \in Nat, Take(c, n)
  PROVE  stream' \in [Clients -> Seq(Replies)]
  <1>1. stream[c] \in Seq(Replies) BY DEF ScriptTypes
  <1>2. Len(stream[c]) \in Nat BY <1>1, LenProperties
  <1>3. SubSeq(stream[c], n + 1, Len(stream[c])) \in Seq(Replies) BY <1>1, <1>2, PartType
  <1>4. QED BY <1>3 DEF Take, ScriptTypes

\* Every step keeps the types of the clients' variables.
LEMMA ScriptTypesKept ==
  ASSUME IInv, ScriptTypes, ScriptNext
  PROVE  ScriptTypes'
  <1>1. CASE Answer
    <2>1. MessageComplete BY <1>1 DEF Answer
    <2>2. Completed.message \in Messages BY <2>1, CompletedType
    <2>3. PICK o \in process(clientIDs, Completed.message, current) : stream' = Delivered(o)
      BY <1>1 DEF Answer
    <2>4. o.cells \in Seq(Replies) BY <2>2, EffectReplies
    <2>5. \A c \in Clients : stream[c] \o o.cells \in Seq(Replies)
      BY <2>4, ConcatProperties DEF ScriptTypes
    <2>6. stream' \in [Clients -> Seq(Replies)] BY <2>3, <2>5 DEF Delivered, ScriptTypes
    <2>7. QED BY <1>1, <2>6 DEF Answer, ScriptTypes
  <1>2. CASE OtherServerStep BY <1>2 DEF OtherServerStep, clientVars, ScriptTypes
  <1>3. ASSUME NEW c \in Clients, Launch(c) PROVE ScriptTypes'
    <2>1. stream' \in [Clients -> Seq(Replies)] BY <1>3 DEF Launch, Forget, ScriptTypes
    <2>2. QED BY <1>3, <2>1 DEF Launch, ScriptTypes
  <1>4. ASSUME NEW c \in Clients, NEW n \in Nat, Continue(c, n)
        PROVE  at' \in [Clients -> Nat]
    BY <1>4 DEF Continue, ScriptTypes
  <1>5. ASSUME NEW c \in Clients, Forget(c) PROVE stream' \in [Clients -> Seq(Replies)]
    BY <1>5 DEF Forget, ScriptTypes
  <1>6. ASSUME NEW c \in Clients, ClientStep(c) PROVE ScriptTypes'
    <2>1. CASE Write(c) BY <1>4, <2>1 DEF Write, ScriptTypes
    <2>2. CASE WriteToNobody(c) BY <1>4, <1>5, <2>2 DEF WriteToNobody, Die, ScriptTypes
    <2>3. CASE ReadAck(c) BY <1>4, <2>3, TakeType DEF ReadAck, ScriptTypes
    <2>4. CASE ReadList(c)
      <3>1. PICK n \in 1..Len(stream[c]) :
              Take(c, n) /\ greedy' = IF n > 1 THEN greedy \cup {c} ELSE greedy
        BY <2>4 DEF ReadList
      <3>2. Len(stream[c]) \in Nat BY LenProperties DEF ScriptTypes
      <3>3. n \in Nat BY <3>2
      <3>4. stream' \in [Clients -> Seq(Replies)] BY <3>1, <3>3, TakeType
      <3>5. QED BY <1>4, <2>4, <3>1, <3>4 DEF ReadList, ScriptTypes
    <2>5. CASE ReadChat(c) BY <1>4, <1>5, <2>5, TakeType DEF ReadChat, Die, ScriptTypes
    <2>6. CASE ReadText(c) BY <1>4, <2>6, TakeType DEF ReadText, ScriptTypes
    <2>7. CASE ReadEOF(c)
      <3>1. at' \in [Clients -> Nat]
        <4>1. Continue(c, 1) \/ Continue(c, 2) BY <2>7 DEF ReadEOF
        <4>2. QED BY <1>4, <4>1
      <3>2. QED BY <2>7, <3>1 DEF ReadEOF, ScriptTypes
    <2>8. CASE Hangup(c)
      <3>1. at' \in [Clients -> Nat] BY <1>4, <2>8 DEF Hangup, ScriptTypes
      <3>2. QED BY <1>5, <2>8, <3>1 DEF Hangup, ScriptTypes
    <2>9. QED BY <1>6, <2>1, <2>2, <2>3, <2>4, <2>5, <2>6, <2>7, <2>8 DEF ClientStep
  <1>7. ASSUME UNCHANGED clientVars PROVE ScriptTypes' BY <1>7 DEF clientVars, ScriptTypes
  <1>8. QED BY <1>1, <1>2, <1>3, <1>6, <1>7 DEF ScriptNext, ServerStep

\* The clients have not started.
LEMMA ScriptTypesInit == ScriptInit => ScriptTypes
  <1>1. \A c \in Clients : Len(start_client[c]) \in Nat BY ScriptsAreScripts, LenProperties
  <1>2. QED BY <1>1 DEF ScriptInit, ScriptTypes

\* The types hold throughout.
LEMMA ScriptTypesInvariance == ScriptSpec => [](IInv /\ ScriptTypes)
  <1>1. ScriptInit => IInv /\ ScriptTypes BY InvInit, ScriptTypesInit DEF ScriptInit
  <1>2. IInv /\ ScriptTypes /\ [ScriptNext]_allVars => (IInv /\ ScriptTypes)'
    <2>1. ASSUME IInv, ScriptTypes, ScriptNext PROVE (IInv /\ ScriptTypes)'
      BY <2>1, StepOfServer, StepInv, ScriptTypesKept
    <2>2. ASSUME IInv, ScriptTypes, UNCHANGED allVars PROVE (IInv /\ ScriptTypes)'
      <3>1. UNCHANGED vars /\ UNCHANGED clientVars BY <2>2 DEF allVars
      <3>2. QED BY <2>2, <3>1, StepInv DEF clientVars, ScriptTypes
    <2>3. QED BY <2>1, <2>2
  <1>3. QED BY <1>1, <1>2, PTL DEF ScriptSpec

\* The two test clients are clients of the chat server: what they and the
\* server do together is a behaviour of the server among any clients, so that
\* all that is proved of it holds here.
THEOREM ScriptsAreClients == ScriptSpec => Spec
  <1>1. ScriptInit => Init BY DEF ScriptInit
  <1>2. IInv /\ ScriptTypes /\ [ScriptNext]_allVars => [Next]_vars
    BY StepOfServer DEF allVars
  <1>3. QED BY <1>1, <1>2, ScriptTypesInvariance, PTL DEF ScriptSpec, Spec

-----------------------------------------------------------------------------
(* Records and what is at the other end of their descriptors *)

Entries(list) == {list[i] : i \in 1..Len(list)}

\* The descriptor of every record is open, with the client of that name at its
\* other end (p is the other end of each descriptor).
Linked(list, p) == \A e \in Entries(list) : p[e.fd] = e.id /\ e.id # NoClient

\* What is removed is gone, and nothing else is new.
LEMMA RemoveEntries ==
  ASSUME NEW list, IsRegistry(list), NEW clientID, NEW e \in Entries(List_remove(list, clientID))
  PROVE  e \in Entries(list) /\ e.id # clientID
  <1> DEFINE found == FirstOfID(list, clientID)
             shorter == List_remove(list, clientID)
  <1>1. e.id # clientID
    <2>1. Ids(shorter) = Ids(list) \ {clientID} BY RemoveIds DEF IsRegistry
    <2>2. e.id \in Ids(shorter) BY DEF Entries, Ids
    <2>3. QED BY <2>1, <2>2
  <1>2. CASE found = {} BY <1>1, <1>2 DEF List_remove
  <1>3. CASE found # {}
    <2>1. PICK k \in found : shorter = RemoveAt(list, k) BY <1>3 DEF List_remove
    <2>2. k \in 1..Len(list) /\ Len(list) \in Nat
      BY <2>1, LenProperties DEF FirstOfID, IsRegistry
    <2>3. /\ Len(shorter) = Len(list) - 1
          /\ \A j \in 1..(Len(list) - 1) : shorter[j] = IF j < k THEN list[j] ELSE list[j + 1]
      BY <2>1, <2>2, RemoveAtProperties DEF IsRegistry
    <2>4. PICK j \in 1..Len(shorter) : e = shorter[j] BY DEF Entries
    <2> HIDE DEF shorter, found
    <2>5. j \in 1..Len(list) /\ j + 1 \in 1..Len(list) BY <2>2, <2>3, <2>4
    <2>6. shorter[j] = list[j] \/ shorter[j] = list[j + 1] BY <2>2, <2>3, <2>4
    <2>7. e \in Entries(list) BY <2>4, <2>5, <2>6 DEF Entries
    <2>8. QED BY <1>1, <2>7
  <1>4. QED BY <1>2, <1>3

\* What is added is the one new entry.
LEMMA AddEntries ==
  ASSUME NEW list, IsRegistry(list), NEW clientID, NEW fd,
         NEW e \in Entries(List_add(list, clientID, fd))
  PROVE  e \in Entries(list) \/ e = Entry_new(clientID, fd)
  <1> DEFINE longer == List_add(list, clientID, fd)
             entry == Entry_new(clientID, fd)
  <1>1. list \in Seq(Record \cup {entry})
    <2>1. Len(list) \in Nat /\ \A i \in 1..Len(list) : list[i] \in Record
      BY LenProperties, ElementOfSeq DEF IsRegistry
    <2>2. list = [i \in 1..Len(list) |-> list[i]] BY LenProperties DEF IsRegistry
    <2> HIDE DEF entry
    <2>3. QED BY <2>1, <2>2
  <1> HIDE DEF entry
  <1>2. /\ Len(longer) = Len(list) + 1 /\ Len(list) \in Nat
        /\ \A i \in 1..Len(list) : longer[i] = list[i]
        /\ longer[Len(list) + 1] = entry
    BY <1>1, AppendProperties, LenProperties DEF List_add, entry
  <1> HIDE DEF longer
  <1>3. PICK i \in 1..Len(longer) : e = longer[i] BY DEF Entries, longer
  <1>4. i \in 1..Len(list) \/ i = Len(list) + 1 BY <1>2, <1>3
  <1>5. QED BY <1>2, <1>3, <1>4 DEF Entries, entry

\* List_getFD finds the descriptor of an identifier on record.
LEMMA FDOnRecord ==
  ASSUME NEW list, IsRegistry(list), NEW e \in Entries(list)
  PROVE  List_getFD(list, e.id) = e.fd
  <1> DEFINE found == FirstOfID(list, e.id)
  <1>1. PICK k \in 1..Len(list) : e = list[k] BY DEF Entries
  <1>2. Len(list) \in Nat BY LenProperties DEF IsRegistry
  <1>3. \A i \in 1..Len(list) : list[i].id = e.id => i = k
    BY <1>1 DEF IsRegistry, NoTwice
  <1>4. \A j \in 1..(k - 1) : j \in 1..Len(list) /\ j # k BY <1>2
  <1>5. found = {k} BY <1>1, <1>3, <1>4 DEF FirstOfID
  <1>6. (CHOOSE i \in {k} : TRUE) = k OBVIOUS
  <1>7. List_getFD(list, e.id) = list[k].fd BY <1>5, <1>6 DEF List_getFD
  <1>8. QED BY <1>1, <1>7

\* An identifier on record has an entry, with the descriptor that is found.
LEMMA OnRecord ==
  ASSUME NEW list, IsRegistry(list), NEW clientID, List_contains_id(list, clientID)
  PROVE  \E e \in Entries(list) : e.id = clientID /\ e.fd = List_getFD(list, clientID)
  <1>1. PICK e \in Entries(list) : e.id = clientID BY DEF List_contains_id, Entries
  <1>2. e.fd = List_getFD(list, e.id) BY FDOnRecord
  <1>3. QED BY <1>1, <1>2

\* A descriptor on record is linked to the client that List_getClientID finds.
LEMMA ClientOnRecord ==
  ASSUME NEW list, IsRegistry(list), NEW p, Linked(list, p), NEW fd,
         NEW e \in Entries(list), e.fd = fd
  PROVE  List_getClientID(list, fd) = e.id
  <1> DEFINE found == FirstOfFD(list, fd)
  <1>1. PICK k \in 1..Len(list) : e = list[k] BY DEF Entries
  <1>2. Len(list) \in Nat BY LenProperties DEF IsRegistry
  <1>3. \A i \in 1..Len(list) : list[i].fd = fd => i = k
    <2>1. ASSUME NEW i \in 1..Len(list), list[i].fd = fd PROVE i = k
      <3>1. list[i] \in Entries(list) BY DEF Entries
      <3>2. list[i].id = e.id BY <2>1, <3>1 DEF Linked
      <3>3. QED BY <1>1, <3>2 DEF IsRegistry, NoTwice
    <2>2. QED BY <2>1
  <1>4. \A j \in 1..(k - 1) : j \in 1..Len(list) /\ j # k BY <1>2
  <1>5. found = {k} BY <1>1, <1>3, <1>4 DEF FirstOfFD
  <1>6. (CHOOSE i \in {k} : TRUE) = k OBVIOUS
  <1>7. List_getClientID(list, fd) = list[k].id BY <1>5, <1>6 DEF List_getClientID
  <1>8. QED BY <1>1, <1>7

\* An authenticated sender has a record with the descriptor it sends on.
LEMMA AuthenticatedRecord ==
  ASSUME NEW list, IsRegistry(list), NEW clientID, NEW fd, authenticate(list, clientID, fd)
  PROVE  \E e \in Entries(list) : e.id = clientID /\ e.fd = fd
  BY OnRecord DEF authenticate

\* A message is spoken by the one at the other end: a HELLO always, others as
\* long as somebody is on record there.
Spoken(list, p, m, fd) ==
  /\ m.type = "HELLO" => m.source = p[fd] /\ m.source # NoClient
  /\ List_contains_fd(list, fd) => m.source = p[fd]

\* No handler closes the descriptor of a record that it leaves, and the one
\* record that it may add is that of the speaker.
LEMMA RecordsLeft ==
  ASSUME NEW list, IsRegistry(list), NEW p, Linked(list, p), NEW m \in Messages, NEW fd \in Fds,
         Spoken(list, p, m, fd), NEW o \in process(list, m, fd), NEW e \in Entries(o.list)
  PROVE  /\ e.fd \notin o.closed
         /\ e \in Entries(list) \/ (m.type = "HELLO" /\ e = Entry_new(m.source, fd) /\ o.to = fd)
  <1>1. ASSUME NEW f \in Entries(list), f.fd = fd PROVE f.id = m.source
    <2>1. List_contains_fd(list, fd) BY <1>1 DEF Entries, List_contains_fd
    <2>2. QED BY <1>1, <2>1 DEF Linked, Spoken
  <1>2. ASSUME e \in Entries(List_remove(list, m.source)), o.closed \in {{}, {fd}}
        PROVE  e \in Entries(list) /\ e.fd \notin o.closed
    BY <1>1, <1>2, RemoveEntries
  <1>3. CASE Refused(list, m, fd, o) BY <1>2, <1>3 DEF Refused, Effect
  <1>4. CASE Undeliverable(list, m, fd, o) BY <1>2, <1>4 DEF Undeliverable, Effect
  <1>5. CASE Left(list, m, fd, o) BY <1>2, <1>5 DEF Left, Effect
  <1>6. CASE Listed(list, m, fd, o) BY <1>6 DEF Listed, Effect
  <1>7. CASE Present(list, m, fd, o)
    <2>1. e \in Entries(list) /\ o.closed = {fd} BY <1>7 DEF Present, Effect
    <2>2. e.fd # fd BY <1>1, <1>7, <2>1, FDOnRecord DEF Present
    <2>3. QED BY <2>1, <2>2
  <1>8. CASE Passed(list, m, fd, o)
    <2>1. PICK d \in Entries(list) : d.id = m.dest /\ d.fd = List_getFD(list, m.dest)
      BY <1>8, OnRecord DEF Passed
    <2>2. CASE o.list = list /\ o.closed = {} BY <2>2
    <2>3. CASE o.list = List_remove(list, m.dest) /\ o.closed = {List_getFD(list, m.dest)}
      <3>1. e \in Entries(list) /\ e.id # m.dest BY <2>3, RemoveEntries
      <3>2. e.fd # d.fd BY <2>1, <3>1 DEF Linked
      <3>3. QED BY <2>1, <2>3, <3>1, <3>2
    <2>4. QED BY <1>8, <2>2, <2>3 DEF Passed, Effect
  <1>9. CASE Welcomed(list, m, fd, o)
    <2> DEFINE longer == List_add(list, m.source, fd)
    <2>1. m.source \in IDs /\ m.source \notin Ids(list)
      BY <1>9, MessageAssumption DEF Welcomed, List_contains_id, Ids
    <2>2. Entry_new(m.source, fd) \in Record BY <2>1 DEF Entry_new, Record
    <2>3. IsRegistry(longer) BY <2>1, <2>2, AddIds DEF IsRegistry
    <2>4. \A f \in Entries(longer) : f \in Entries(list) \/ f = Entry_new(m.source, fd)
      BY AddEntries
    <2> HIDE DEF longer
    <2>5. CASE o.list = longer /\ o.closed = {} /\ o.to = fd
      BY <1>9, <2>4, <2>5 DEF Welcomed
    <2>6. CASE o.list = List_remove(longer, m.source) /\ o.closed = {fd}
      <3>1. e \in Entries(longer) /\ e.id # m.source BY <2>3, <2>6, RemoveEntries
      <3>2. e \in Entries(list) BY <2>4, <3>1 DEF Entry_new
      <3>3. QED BY <1>1, <2>6, <3>1, <3>2
    <2>7. QED BY <1>9, <2>5, <2>6 DEF Welcomed, Effect, longer
  <1>10. QED BY <1>3, <1>4, <1>5, <1>6, <1>7, <1>8, <1>9, ProcessEffect

-----------------------------------------------------------------------------
(* Who speaks on which connection *)

\* What waits on a socket is a text or comes from the client at its other end,
\* and a HELLO is the first thing that the client has said.
InboxHeard ==
  \A fd \in Fds : \A i \in 1..Len(inbox[fd]) :
    /\ peer[fd] # NoClient
    /\ inbox[fd][i] = Text \/ (Proper(inbox[fd][i]) /\ inbox[fd][i].source = peer[fd])
    /\ inbox[fd][i].type = "HELLO" => i = 1

\* So does what is handled, unless its descriptor has been closed meanwhile.
DataHeard ==
  step = "handle" =>
    \A i \in 1..Len(data) :
      /\ data[i] = Text
         \/ (Proper(data[i]) /\ (peer[current] # NoClient => data[i].source = peer[current]))
      /\ data[i].type = "HELLO" => i = 1 /\ peer[current] # NoClient

\* A partial message may be left of an earlier connection, but not where
\* somebody is on record.
ContainerHeard ==
  \A fd \in Fds :
    \/ container[fd] = Nothing \/ container[fd] = Text
    \/ /\ Proper(container[fd]) /\ container[fd].type # "HELLO"
       /\ List_contains_fd(clientIDs, fd) => container[fd].source = peer[fd]

\* A client that has not said HELLO has said nothing.
Fresh ==
  \A c \in Clients : at[c] = 0 =>
    \A fd \in Fds : peer[fd] = c /\ fd \notin gone =>
      inbox[fd] = <<>> /\ ~(step = "handle" /\ current = fd)

TalkInv == Linked(clientIDs, peer) /\ InboxHeard /\ DataHeard /\ ContainerHeard /\ Fresh

\* The elements of a part of a sequence.
LEMMA PartElements ==
  ASSUME NEW E, NEW s \in Seq(E), NEW k \in Nat, NEW n \in Int, k >= 1, n <= Len(s),
         NEW i \in 1..Len(SubSeq(s, k, n))
  PROVE  /\ k + i - 1 \in 1..Len(s) /\ k + i - 1 <= n /\ i \in Nat /\ i >= 1
         /\ SubSeq(s, k, n)[i] = s[k + i - 1]
  <1>1. Len(s) \in Nat BY LenProperties
  <1>2. \A j \in k..n : s[j] \in E BY <1>1, ElementOfSeq
  <1>3. /\ Len(SubSeq(s, k, n)) = IF k <= n THEN n - k + 1 ELSE 0
        /\ \A j \in 1..(n - k + 1) : SubSeq(s, k, n)[j] = s[k + j - 1]
    BY <1>2, SubSeqProperties
  <1>4. CASE k <= n
    <2>1. i \in 1..(n - k + 1) BY <1>3, <1>4
    <2>2. QED BY <1>1, <1>3, <1>4, <2>1
  <1>5. CASE ~(k <= n) BY <1>3, <1>5
  <1>6. QED BY <1>4, <1>5

\* Somebody on record at a descriptor is the client at its other end.
LEMMA RecordIsLinked ==
  ASSUME NEW list, NEW p, Linked(list, p), NEW fd
  PROVE  /\ List_contains_fd(list, fd) => p[fd] # NoClient
         /\ \A e \in Entries(list) : e.fd = fd => List_contains_fd(list, fd)
  BY DEF Entries, Linked, List_contains_fd

\* What handle completes is spoken by the one it is taken for, and a HELLO
\* comes first and only on an open connection.
LEMMA CompletedHeard ==
  ASSUME IInv, TalkInv, MessageComplete
  PROVE  /\ Proper(Completed.message)
         /\ Spoken(clientIDs, peer, Completed.message, current)
         /\ Completed.message.type = "HELLO" => peer[current] # NoClient /\ data[1].type = "HELLO"
         /\ \A i \in 1..Len(Completed.rest) :
              /\ \/ Completed.rest[i] = Text
                 \/ /\ Proper(Completed.rest[i])
                    /\ peer[current] # NoClient => Completed.rest[i].source = peer[current]
              /\ Completed.rest[i].type # "HELLO"
  <1> DEFINE m == Completed.message
             rest == Completed.rest
  <1>1. current \in Fds /\ data \in Seq(Cells) /\ data # <<>> /\ step = "handle"
    BY DEF IInv, HandleControl, TypeOK, MessageComplete
  <1>2. Len(data) \in Nat /\ Len(data) # 0 BY <1>1, EmptySeq, LenProperties
  <1>3. Head(data) = data[1] /\ 1 \in 1..Len(data) BY <1>1, <1>2, HeadTailProperties
  <1>4. List_contains_fd(clientIDs, current) => peer[current] # NoClient
    BY RecordIsLinked DEF TalkInv
  <1>5. m # Text BY DEF MessageComplete
  <1>6. DataHeard /\ ContainerHeard BY DEF TalkInv
  <1>7. ASSUME NEW k \in Nat, k >= 2, NEW i \in 1..Len(SubSeq(data, k, Len(data)))
        PROVE  LET x == SubSeq(data, k, Len(data))[i]
               IN /\ \/ x = Text
                     \/ Proper(x) /\ (peer[current] # NoClient => x.source = peer[current])
                  /\ x.type # "HELLO"
    <2>1. /\ k + i - 1 \in 1..Len(data) /\ i >= 1 /\ i \in Nat
          /\ SubSeq(data, k, Len(data))[i] = data[k + i - 1]
      BY <1>1, <1>2, <1>7, PartElements
    <2>2. k + i - 1 # 1 BY <1>7, <2>1
    <2>3. QED BY <1>1, <1>6, <2>1, <2>2 DEF DataHeard
  <1>8. CASE container[current] # Nothing
    <2>1. m = container[current] /\ rest = Tail(data) BY <1>8 DEF Completed
    <2>2. rest = SubSeq(data, 2, Len(data)) BY <1>1, <2>1
    <2>3. Proper(m) /\ m.type # "HELLO"
          /\ (List_contains_fd(clientIDs, current) => m.source = peer[current])
      BY <1>1, <1>5, <1>6, <1>8, <2>1 DEF ContainerHeard
    <2> HIDE DEF m, rest
    <2>4. QED BY <1>7, <2>2, <2>3 DEF Spoken, m, rest
  <1>9. CASE container[current] = Nothing
    <2>1. m = data[1]
          /\ rest = SubSeq(data, IF data[1].body THEN 3 ELSE 2, Len(data))
      BY <1>3, <1>9 DEF Completed
    <2>2. \E k \in {2, 3} : rest = SubSeq(data, k, Len(data)) BY <2>1
    <2>3. /\ Proper(m) /\ (peer[current] # NoClient => m.source = peer[current])
          /\ m.type = "HELLO" => peer[current] # NoClient
      BY <1>1, <1>3, <1>5, <1>6, <2>1 DEF DataHeard
    <2>4. Spoken(clientIDs, peer, m, current) BY <1>4, <2>3 DEF Spoken
    <2> HIDE DEF m, rest
    <2>5. PICK k \in {2, 3} : rest = SubSeq(data, k, Len(data)) BY <2>2
    <2>6. QED BY <1>7, <2>1, <2>3, <2>4, <2>5 DEF m, rest
  <1>10. QED BY <1>8, <1>9

\* Closing a socket leaves the records of others linked, and nothing is heard
\* on it any more.
LEMMA CloseKeepsLinks ==
  ASSUME IInv, TalkInv, NEW fds, CloseSockets(fds), NEW list, IsRegistry(list),
         \A e \in Entries(list) : e.fd \notin fds /\ peer[e.fd] = e.id /\ e.id # NoClient
  PROVE  Linked(list, peer') /\ InboxHeard'
  <1>1. \A fd \in Fds : peer'[fd] = IF fd \in fds THEN NoClient ELSE peer[fd]
    BY DEF CloseSockets
  <1>2. \A fd \in Fds : inbox'[fd] = IF fd \in fds THEN <<>> ELSE inbox[fd]
    BY DEF CloseSockets
  <1>3. \A e \in Entries(list) : e.fd \in Fds
    <2>1. \A i \in 1..Len(list) : list[i] \in Record BY ElementOfSeq DEF IsRegistry
    <2>2. QED BY <2>1 DEF Entries, Record
  <1>4. Linked(list, peer') BY <1>1, <1>3 DEF Linked
  <1>5. InboxHeard' BY <1>1, <1>2 DEF TalkInv, InboxHeard
  <1>6. QED BY <1>4, <1>5

\* Answering a message.
LEMMA TalkAnswer ==
  ASSUME IInv, ScriptTypes, TalkInv, Answer
  PROVE  TalkInv'
  <1> DEFINE m == Completed.message
             rest == Completed.rest
  <1>1. MessageComplete BY DEF Answer
  <1>2. m \in Messages /\ rest \in Seq(Cells) /\ current \in Fds BY <1>1, CompletedType
  <1>3. /\ Proper(m) /\ Spoken(clientIDs, peer, m, current)
        /\ m.type = "HELLO" => peer[current] # NoClient
        /\ \A i \in 1..Len(rest) :
             /\ \/ rest[i] = Text
                \/ Proper(rest[i]) /\ (peer[current] # NoClient => rest[i].source = peer[current])
             /\ rest[i].type # "HELLO"
    BY <1>1, CompletedHeard
  <1>4. PICK o \in process(clientIDs, m, current) : ProcessWith(o) BY DEF Answer
  <1>5. /\ clientIDs' = o.list /\ CloseSockets(o.closed)
        /\ container' = [container EXCEPT ![current] = Nothing]
        /\ data' = rest
        /\ current' = IF rest = <<>> THEN NoFd ELSE current
        /\ step' = IF rest # <<>> THEN "handle" ELSE IF ready = {} THEN "top" ELSE "serve"
    BY <1>4 DEF ProcessWith, Advance
  <1>6. UNCHANGED at BY DEF Answer
  <1> HIDE DEF m, rest
  <1>7. IsRegistry(clientIDs) /\ IsRegistry(o.list)
    BY <1>2, InvRegistry, ProcessIsSound DEF Sound
  <1>8. /\ \A fd \in Fds : peer'[fd] = IF fd \in o.closed THEN NoClient ELSE peer[fd]
        /\ \A fd \in Fds : inbox'[fd] = IF fd \in o.closed THEN <<>> ELSE inbox[fd]
        /\ gone' = gone \ o.closed
    BY <1>5 DEF CloseSockets
  <1>9. \A e \in Entries(o.list) :
          /\ e.fd \notin o.closed
          /\ e \in Entries(clientIDs) \/ (m.type = "HELLO" /\ e = Entry_new(m.source, current))
    BY <1>2, <1>3, <1>7, RecordsLeft DEF TalkInv
  <1>10. \A e \in Entries(o.list) :
           e.fd \notin o.closed /\ peer[e.fd] = e.id /\ e.id # NoClient
    BY <1>3, <1>9 DEF TalkInv, Linked, Spoken, Entry_new
  <1>11. Linked(clientIDs', peer') /\ InboxHeard' BY <1>5, <1>7, <1>10, CloseKeepsLinks
  <1>12. DataHeard'
    <2>1. ASSUME step' = "handle" PROVE current' = current BY <1>5, <2>1
    <2>2. QED BY <1>2, <1>3, <1>5, <1>8, <2>1 DEF DataHeard
  <1>13. ContainerHeard'
    <2>1. ASSUME NEW fd \in Fds, fd # current, List_contains_fd(clientIDs', fd)
          PROVE  List_contains_fd(clientIDs, fd) /\ peer'[fd] = peer[fd]
      <3>1. PICK e \in Entries(o.list) : e.fd = fd BY <1>5, <2>1 DEF List_contains_fd, Entries
      <3>2. e \in Entries(clientIDs) BY <1>9, <2>1, <3>1 DEF Entry_new
      <3>3. List_contains_fd(clientIDs, fd) BY <3>1, <3>2 DEF List_contains_fd, Entries
      <3>4. QED BY <1>8, <1>9, <3>1, <3>3
    <2>2. container'[current] = Nothing /\ \A fd \in Fds \ {current} : container'[fd] = container[fd]
      BY <1>2, <1>5 DEF IInv, TypeOK
    <2>3. QED BY <2>1, <2>2 DEF TalkInv, ContainerHeard
  <1>14. Fresh'
    <2>1. NoClient \notin Clients BY ClientAssumption
    <2>2. ASSUME NEW c \in Clients, NEW fd \in Fds, peer'[fd] = c, fd \notin gone'
          PROVE  peer[fd] = c /\ fd \notin gone /\ inbox'[fd] = inbox[fd]
      BY <1>8, <2>1, <2>2
    <2>3. step' = "handle" => step = "handle" /\ current' = current
      BY <1>1, <1>5 DEF MessageComplete
    <2>4. QED BY <1>6, <2>2, <2>3 DEF TalkInv, Fresh
  <1>15. QED BY <1>11, <1>12, <1>13, <1>14 DEF TalkInv

\* Buffering a partial message.
LEMMA TalkStore ==
  ASSUME IInv, ScriptTypes, TalkInv, Store, UNCHANGED at
  PROVE  TalkInv'
  <1>1. /\ current \in Fds /\ data \in Seq(Cells) /\ data # <<>> /\ step = "handle"
        /\ container \in [Fds -> Cells \cup {Nothing}]
    BY DEF IInv, HandleControl, Store, TypeOK
  <1>2. Len(data) \in Nat /\ Len(data) # 0 BY <1>1, EmptySeq, LenProperties
  <1>3. Head(data) = data[1] /\ 1 \in 1..Len(data) BY <1>1, <1>2, HeadTailProperties
  <1>4. /\ UNCHANGED <<clientIDs, peer, gone, inbox>>
        /\ step' # "handle"
    BY DEF Store, Advance
  <1>5. PICK kept :
          /\ container' = [container EXCEPT ![current] = kept]
          /\ \/ container[current] # Nothing /\ kept = container[current]
             \/ container[current] = Nothing /\ kept = data[1]
          /\ kept = Text \/ (container[current] = Nothing /\ data[1].body)
    BY <1>3 DEF Store
  <1>6. Linked(clientIDs', peer') /\ InboxHeard' BY <1>4 DEF TalkInv, InboxHeard
  <1>7. DataHeard' BY <1>4 DEF DataHeard
  <1>8. Fresh' BY <1>4 DEF TalkInv, Fresh
  <1>9. ContainerHeard'
    <2>1. \/ kept = Text
          \/ /\ Proper(kept) /\ kept.type # "HELLO"
             /\ List_contains_fd(clientIDs, current) => kept.source = peer[current]
      <3>1. CASE kept # Text
        <4>1. container[current] = Nothing /\ kept = data[1] /\ kept.body BY <1>5, <3>1
        <4>2. /\ Proper(kept)
              /\ peer[current] # NoClient => kept.source = peer[current]
          BY <1>1, <1>3, <3>1, <4>1 DEF TalkInv, DataHeard
        <4>3. kept.type # "HELLO" BY <4>1, <4>2 DEF Proper
        <4>4. List_contains_fd(clientIDs, current) => peer[current] # NoClient
          BY RecordIsLinked DEF TalkInv
        <4>5. QED BY <4>2, <4>3, <4>4
      <3>2. QED BY <3>1
    <2>2. container'[current] = kept /\ \A fd \in Fds \ {current} : container'[fd] = container[fd]
      BY <1>1, <1>5
    <2>3. QED BY <1>4, <2>1, <2>2 DEF TalkInv, ContainerHeard
  <1>10. QED BY <1>6, <1>7, <1>8, <1>9 DEF TalkInv

\* Sweeping a stale partial message.
LEMMA TalkDiscard ==
  ASSUME IInv, ScriptTypes, TalkInv, DiscardStale, UNCHANGED at
  PROVE  TalkInv'
  <1>1. step = "top" /\ step' # "handle" BY DEF DiscardStale
  <1>2. IsRegistry(clientIDs) BY InvRegistry
  <1>3. PICK fd \in stale :
          \/ /\ clientIDs' = List_remove(clientIDs, List_getClientID(clientIDs, fd))
             /\ container' = [container EXCEPT ![fd] = Nothing]
             /\ CloseSockets({fd})
          \/ UNCHANGED <<clientIDs, container, peer, gone, inbox>>
    BY DEF DiscardStale
  <1>4. DataHeard' BY <1>1 DEF DataHeard
  <1>5. CASE UNCHANGED <<clientIDs, container, peer, gone, inbox>>
    <2>1. Linked(clientIDs', peer') /\ InboxHeard' /\ ContainerHeard'
      BY <1>5 DEF TalkInv, InboxHeard, ContainerHeard
    <2>2. Fresh' BY <1>1, <1>5 DEF TalkInv, Fresh
    <2>3. QED BY <1>4, <2>1, <2>2 DEF TalkInv
  <1>6. CASE /\ clientIDs' = List_remove(clientIDs, List_getClientID(clientIDs, fd))
             /\ container' = [container EXCEPT ![fd] = Nothing]
             /\ CloseSockets({fd})
    <2> DEFINE shorter == List_remove(clientIDs, List_getClientID(clientIDs, fd))
    <2>1. IsRegistry(shorter) BY <1>2, RemoveLeaves
    <2>2. \A e \in Entries(shorter) :
            e \in Entries(clientIDs) /\ e.fd # fd /\ peer[e.fd] = e.id /\ e.id # NoClient
      <3>1. TAKE e \in Entries(shorter)
      <3>2. e \in Entries(clientIDs) /\ e.id # List_getClientID(clientIDs, fd)
        BY <1>2, RemoveEntries
      <3>3. e.fd # fd BY <1>2, <3>2, ClientOnRecord DEF TalkInv
      <3>4. QED BY <3>2, <3>3 DEF TalkInv, Linked
    <2> HIDE DEF shorter
    <2>3. clientIDs' = shorter BY <1>6 DEF shorter
    <2>4. Linked(clientIDs', peer') /\ InboxHeard'
      BY <1>6, <2>1, <2>2, <2>3, CloseKeepsLinks
    <2>5. /\ \A g \in Fds : peer'[g] = IF g = fd THEN NoClient ELSE peer[g]
          /\ \A g \in Fds : inbox'[g] = IF g = fd THEN <<>> ELSE inbox[g]
          /\ gone' = gone \ {fd}
      BY <1>6 DEF CloseSockets
    <2>6. fd \in Fds /\ container \in [Fds -> Cells \cup {Nothing}] BY DEF IInv, TypeOK
    <2>7. ContainerHeard'
      <3>1. container'[fd] = Nothing /\ \A g \in Fds \ {fd} : container'[g] = container[g]
        BY <1>6, <2>6
      <3>2. \A g : List_contains_fd(clientIDs', g) => List_contains_fd(clientIDs, g)
        BY <2>2, <2>3 DEF List_contains_fd, Entries
      <3>3. QED BY <2>5, <3>1, <3>2 DEF TalkInv, ContainerHeard
    <2>8. Fresh'
      <3>1. NoClient \notin Clients BY ClientAssumption
      <3>2. ASSUME NEW c \in Clients, NEW g \in Fds, peer'[g] = c, g \notin gone'
            PROVE  peer[g] = c /\ g \notin gone /\ inbox'[g] = inbox[g]
        BY <2>5, <3>1, <3>2
      <3>3. QED BY <1>1, <3>2 DEF TalkInv, Fresh
    <2>9. QED BY <1>4, <2>4, <2>7, <2>8 DEF TalkInv
  <1>7. QED BY <1>3, <1>5, <1>6

\* Accepting a connection: the descriptor was closed, nobody was on record.
LEMMA TalkAccept ==
  ASSUME IInv, ScriptTypes, TalkInv, Accept, UNCHANGED at
  PROVE  TalkInv'
  <1>1. step' = "top" /\ UNCHANGED <<clientIDs, container, gone, inbox>> BY DEF Accept
  <1>2. DataHeard' BY <1>1 DEF DataHeard
  <1>3. CASE UNCHANGED peer
    <2>1. Linked(clientIDs', peer') /\ InboxHeard' /\ ContainerHeard'
      BY <1>1, <1>3 DEF TalkInv, InboxHeard, ContainerHeard
    <2>2. Fresh' BY <1>1, <1>3 DEF TalkInv, Fresh
    <2>3. QED BY <1>2, <2>1, <2>2 DEF TalkInv
  <1>4. ASSUME NEW fd \in Fds \ Open, peer' = [peer EXCEPT ![fd] = Head(backlog)]
        PROVE  TalkInv'
    <2>1. peer[fd] = NoClient /\ \A g \in Fds \ {fd} : peer'[g] = peer[g]
      BY <1>4 DEF Open, IInv, TypeOK
    <2>2. ~List_contains_fd(clientIDs, fd) BY <2>1, RecordIsLinked DEF TalkInv
    <2>3. \A e \in Entries(clientIDs) : e.fd \in Fds \ {fd}
      <3>1. \A e \in Entries(clientIDs) : e.fd # fd BY <2>2 DEF Entries, List_contains_fd
      <3>2. \A i \in 1..Len(clientIDs) : clientIDs[i] \in Record
        BY InvRegistry, ElementOfSeq DEF IsRegistry
      <3>3. QED BY <3>1, <3>2 DEF Entries, Record
    <2>4. Linked(clientIDs, peer') BY <2>1, <2>3 DEF TalkInv, Linked
    <2>5. \A i \in 1..Len(inbox[fd]) : FALSE BY <2>1 DEF TalkInv, InboxHeard
    <2>6. InboxHeard' BY <1>1, <2>1, <2>5 DEF TalkInv, InboxHeard
    <2>7. ContainerHeard' BY <1>1, <2>1, <2>2 DEF TalkInv, ContainerHeard
    <2>8. inbox[fd] = <<>>
      <3>1. inbox[fd] \in Seq(Cells) BY DEF IInv, TypeOK
      <3>2. Len(inbox[fd]) \in Nat BY <3>1, LenProperties
      <3>3. Len(inbox[fd]) = 0 BY <2>5, <3>2
      <3>4. QED BY <3>1, <3>3, EmptySeq
    <2>9. Fresh' BY <1>1, <2>1, <2>8 DEF TalkInv, Fresh
    <2>10. QED BY <1>1, <1>2, <2>4, <2>6, <2>7, <2>9 DEF TalkInv
  <1>5. QED BY <1>3, <1>4 DEF Accept

\* Reading a part of what has arrived: what is left has no HELLO any more.
LEMMA TalkRead ==
  ASSUME IInv, ScriptTypes, TalkInv, NEW fd \in Fds, Read(fd), UNCHANGED at
  PROVE  TalkInv'
  <1>1. UNCHANGED <<clientIDs, container, peer, gone>> /\ step = "serve" BY DEF Read
  <1>2. Linked(clientIDs', peer') /\ ContainerHeard' BY <1>1 DEF TalkInv, ContainerHeard
  <1>3. inbox[fd] \in Seq(Cells) /\ inbox \in [Fds -> Seq(Cells)] BY DEF IInv, TypeOK
  <1>4. Len(inbox[fd]) \in Nat BY <1>3, LenProperties
  <1>5. CASE step' # "handle" /\ UNCHANGED inbox
    <2>1. InboxHeard' BY <1>1, <1>5 DEF TalkInv, InboxHeard
    <2>2. DataHeard' BY <1>5 DEF DataHeard
    <2>3. Fresh' BY <1>1, <1>5 DEF TalkInv, Fresh
    <2>4. QED BY <1>2, <2>1, <2>2, <2>3 DEF TalkInv
  <1>6. ASSUME NEW n \in 1..Len(inbox[fd]),
               data' = SubSeq(inbox[fd], 1, n),
               inbox' = [inbox EXCEPT ![fd] = SubSeq(inbox[fd], n + 1, Len(inbox[fd]))],
               current' = fd, step' = "handle", inbox[fd] # <<>>
        PROVE  TalkInv'
    <2>1. ASSUME NEW i \in 1..Len(data')
          PROVE  /\ peer[fd] # NoClient
                 /\ \/ data'[i] = Text
                    \/ Proper(data'[i]) /\ data'[i].source = peer[fd]
                 /\ data'[i].type = "HELLO" => i = 1
      <3>1. 1 + i - 1 \in 1..Len(inbox[fd]) /\ i \in Nat /\ data'[i] = inbox[fd][1 + i - 1]
        BY <1>3, <1>4, <1>6, PartElements
      <3>2. 1 + i - 1 = i BY <3>1
      <3>3. i \in 1..Len(inbox[fd]) /\ data'[i] = inbox[fd][i] BY <3>1, <3>2
      <3>4. QED BY <3>3 DEF TalkInv, InboxHeard
    <2>2. DataHeard' BY <1>1, <1>6, <2>1 DEF DataHeard
    <2>3. ASSUME NEW i \in 1..Len(inbox'[fd])
          PROVE  /\ peer[fd] # NoClient
                 /\ \/ inbox'[fd][i] = Text
                    \/ Proper(inbox'[fd][i]) /\ inbox'[fd][i].source = peer[fd]
                 /\ inbox'[fd][i].type # "HELLO"
      <3>1. inbox'[fd] = SubSeq(inbox[fd], n + 1, Len(inbox[fd])) BY <1>3, <1>6
      <3>2. /\ (n + 1) + i - 1 \in 1..Len(inbox[fd]) /\ i \in Nat /\ i >= 1
            /\ inbox'[fd][i] = inbox[fd][(n + 1) + i - 1]
        BY <1>3, <1>4, <3>1, PartElements
      <3>3. (n + 1) + i - 1 # 1 BY <1>4, <3>2
      <3>4. QED BY <3>2, <3>3 DEF TalkInv, InboxHeard
    <2>4. \A g \in Fds \ {fd} : inbox'[g] = inbox[g] BY <1>3, <1>6
    <2>5. InboxHeard' BY <1>1, <2>3, <2>4 DEF TalkInv, InboxHeard
    <2>6. Fresh'
      <3>1. ASSUME NEW c \in Clients, at[c] = 0, NEW g \in Fds, peer[g] = c, g \notin gone
            PROVE  inbox[g] = <<>> /\ g # fd
        BY <1>6, <3>1 DEF TalkInv, Fresh
      <3>2. QED BY <1>1, <1>6, <2>4, <3>1 DEF Fresh
    <2>7. QED BY <1>2, <2>2, <2>5, <2>6 DEF TalkInv
  <1>7. QED
    <2>1. CASE /\ inbox[fd] # <<>>
               /\ \E n \in 1..Len(inbox[fd]) :
                    /\ data' = SubSeq(inbox[fd], 1, n)
                    /\ inbox' = [inbox EXCEPT ![fd] = SubSeq(@, n + 1, Len(@))]
               /\ current' = fd /\ step' = "handle"
      BY <1>6, <2>1
    <2>2. QED BY <1>5, <2>1 DEF Read

\* A client says what its script says next, and HELLO before all else.
LEMMA TalkWrite ==
  ASSUME IInv, ScriptTypes, TalkInv, NEW c \in Clients, Write(c)
  PROVE  TalkInv'
  <1> DEFINE i0 == at[c] + 1
             m == start_client[c][i0].message
             said == IF m.body THEN <<m, Text>> ELSE <<m>>
  <1>1. /\ i0 \in 1..Len(start_client[c]) /\ at[c] \in Nat /\ Len(start_client[c]) \in Nat
        /\ start_client[c][i0].do = "send"
    BY RunningAt, ScriptsAreScripts, LenProperties DEF Write, Doing
  <1>2. Proper(m) /\ m.source = c /\ (m.type = "HELLO" <=> i0 = 1)
    <2>1. Script(start_client[c], c) BY ScriptsAreScripts
    <2>2. CASE i0 = 1 BY <2>1, <2>2 DEF Script
    <2>3. i0 # 2 /\ i0 # 3 /\ i0 # 4 BY <1>1, <2>1 DEF Script
    <2>4. CASE i0 # 1
      <3>1. i0 \in 5..Len(start_client[c]) BY <1>1, <2>3, <2>4
      <3>2. QED BY <1>1, <2>1, <2>4, <3>1 DEF Script
    <2>5. QED BY <2>2, <2>4
  <1>3. m \in Messages BY WritesAMessage DEF Write
  <1>4. PICK fd \in Connection(c) : Send(fd, m) BY DEF Write
  <1>5. /\ fd \in Fds /\ peer[fd] = c /\ fd \notin gone /\ c # NoClient
        /\ inbox' = [inbox EXCEPT ![fd] = inbox[fd] \o said]
        /\ UNCHANGED <<step, current, data, clientIDs, container, peer, gone>>
    BY <1>4, ClientAssumption DEF Connection, Open, Send, serverVars
  <1>6. at' = [at EXCEPT ![c] = at[c] + 1] BY DEF Write, Continue
  <1>7. /\ said \in Seq(Cells) /\ Len(said) \in 1..2
        /\ said[1] = m /\ (Len(said) = 2 => said[2] = Text)
    <2>1. m \in Cells /\ Text \in Cells BY <1>3 DEF Cells
    <2> HIDE DEF m
    <2>2. CASE m.body
      <3>1. said = <<m, Text>> BY <2>2
      <3>2. QED BY <2>1, <3>1
    <2>3. CASE ~m.body
      <3>1. said = <<m>> BY <2>3
      <3>2. QED BY <2>1, <3>1
    <2>4. QED BY <2>2, <2>3 DEF m
  <1> HIDE DEF i0, m, said
  <1>8. inbox[fd] \in Seq(Cells) /\ inbox \in [Fds -> Seq(Cells)] BY <1>5 DEF IInv, TypeOK
  <1>9. Len(inbox[fd]) \in Nat BY <1>8, LenProperties
  <1>10. /\ inbox'[fd] = inbox[fd] \o said
         /\ \A g \in Fds \ {fd} : inbox'[g] = inbox[g]
    BY <1>5, <1>8
  <1>11. /\ Len(inbox'[fd]) = Len(inbox[fd]) + Len(said)
         /\ \A i \in 1..(Len(inbox[fd]) + Len(said)) :
              inbox'[fd][i] = IF i <= Len(inbox[fd]) THEN inbox[fd][i]
                              ELSE said[i - Len(inbox[fd])]
    BY <1>7, <1>8, <1>10, ConcatProperties
  <1>12. m.type = "HELLO" => Len(inbox[fd]) = 0
    <2>1. ASSUME m.type = "HELLO" PROVE inbox[fd] = <<>>
      <3>1. at[c] = 0 BY <1>1, <1>2, <2>1 DEF i0
      <3>2. QED BY <1>5, <3>1 DEF TalkInv, Fresh
    <2>2. QED BY <2>1, EmptySeq
  <1>13. ASSUME NEW i \in 1..Len(inbox'[fd])
         PROVE  /\ inbox'[fd][i] = Text
                   \/ (Proper(inbox'[fd][i]) /\ inbox'[fd][i].source = peer[fd])
                /\ inbox'[fd][i].type = "HELLO" => i = 1
    <2>1. CASE i <= Len(inbox[fd])
      <3>1. i \in 1..Len(inbox[fd]) /\ inbox'[fd][i] = inbox[fd][i]
        BY <1>9, <1>11, <2>1
      <3>2. QED BY <1>5, <3>1 DEF TalkInv, InboxHeard
    <2>2. CASE i > Len(inbox[fd])
      <3>1. i - Len(inbox[fd]) \in 1..Len(said)
            /\ inbox'[fd][i] = said[i - Len(inbox[fd])]
        BY <1>7, <1>9, <1>11, <2>2
      <3>2. i - Len(inbox[fd]) = 1 \/ (i - Len(inbox[fd]) = 2 /\ Len(said) = 2)
        <4>1. Len(said) \in 1..2 BY <1>7
        <4> QED BY ONLY <3>1, <4>1
      <3>3. CASE i - Len(inbox[fd]) = 1
        <4>1. inbox'[fd][i] = m BY <1>7, <3>1, <3>3
        <4>2. m.type = "HELLO" => i = 1 BY <1>9, <1>12, <3>3
        <4>3. QED BY <1>2, <1>5, <4>1, <4>2
      <3>4. CASE i - Len(inbox[fd]) = 2 /\ Len(said) = 2
        <4>1. inbox'[fd][i] = Text BY <1>7, <3>1, <3>4
        <4>2. QED BY <4>1 DEF Text
      <3>5. QED BY <3>2, <3>3, <3>4
    <2>3. QED BY <1>9, <1>11, <2>1, <2>2
  <1>14. InboxHeard' BY <1>5, <1>10, <1>13 DEF TalkInv, InboxHeard
  <1>15. Linked(clientIDs', peer') /\ DataHeard' /\ ContainerHeard'
    BY <1>5 DEF TalkInv, DataHeard, ContainerHeard
  <1>16. Fresh'
    <2>1. at'[c] # 0 /\ \A d \in Clients \ {c} : at'[d] = at[d]
      BY <1>1, <1>6 DEF ScriptTypes
    <2>2. QED BY <1>5, <1>10, <2>1 DEF TalkInv, Fresh
  <1>17. QED BY <1>14, <1>15, <1>16 DEF TalkInv

\* A client starts: it has no connection yet.
LEMMA TalkLaunch ==
  ASSUME IInv, ScriptTypes, TalkInv, NEW c \in Clients, Launch(c)
  PROVE  TalkInv'
  <1>1. /\ ~Connected(c) /\ at' = [at EXCEPT ![c] = 0]
        /\ UNCHANGED <<step, current, data, clientIDs, container, peer, gone, inbox>>
    BY DEF Launch, Connect, serverVars
  <1>2. Linked(clientIDs', peer') /\ InboxHeard' /\ DataHeard' /\ ContainerHeard'
    BY <1>1 DEF TalkInv, InboxHeard, DataHeard, ContainerHeard
  <1>3. \A d \in Clients \ {c} : at'[d] = at[d] BY <1>1 DEF ScriptTypes
  <1>4. \A fd \in Fds : ~(peer[fd] = c /\ fd \notin gone) BY <1>1 DEF Connected
  <1>5. Fresh' BY <1>1, <1>3, <1>4 DEF TalkInv, Fresh
  <1>6. QED BY <1>2, <1>5 DEF TalkInv

\* The other steps change neither records nor what is heard.
LEMMA TalkQuiet ==
  ASSUME ScriptTypes, TalkInv, gone \subseteq gone',
         step' # "handle" \/ UNCHANGED step,
         UNCHANGED <<current, data, clientIDs, container, peer, inbox>>,
         \A c \in Clients : at'[c] = 0 => at[c] = 0
  PROVE  TalkInv'
  <1>1. Linked(clientIDs', peer') /\ InboxHeard' /\ DataHeard' /\ ContainerHeard'
    BY DEF TalkInv, InboxHeard, DataHeard, ContainerHeard
  <1>2. Fresh' BY DEF TalkInv, Fresh
  <1>3. QED BY <1>1, <1>2 DEF TalkInv

\* Every step keeps records and connections together.
LEMMA TalkKept ==
  ASSUME IInv, ScriptTypes, TalkInv, ScriptNext
  PROVE  TalkInv'
  <1>1. CASE Answer BY <1>1, TalkAnswer
  <1>2. CASE OtherServerStep
    <2>1. UNCHANGED at BY <1>2 DEF OtherServerStep, clientVars
    <2>2. CASE DiscardStale BY <2>1, <2>2, TalkDiscard
    <2>3. CASE Accept BY <2>1, <2>3, TalkAccept
    <2>4. CASE Store BY <2>1, <2>4, TalkStore
    <2>5. ASSUME NEW fd \in Fds, Read(fd) PROVE TalkInv' BY <2>1, <2>5, TalkRead
    <2>6. CASE NothingStale \/ Select
      <3>1. /\ step' # "handle"
            /\ UNCHANGED <<current, data, clientIDs, container, peer, inbox, gone>>
        BY <2>6 DEF NothingStale, Select
      <3>2. QED BY <2>1, <3>1, TalkQuiet
    <2>7. QED BY <1>2, <2>2, <2>3, <2>4, <2>5, <2>6 DEF OtherServerStep
  <1>3. ASSUME NEW c \in Clients, Launch(c) PROVE TalkInv' BY <1>3, TalkLaunch
  <1>4. ASSUME NEW c \in Clients, NEW n \in {1, 2}, Continue(c, n)
        PROVE  \A d \in Clients : at'[d] = 0 => at[d] = 0
    <2>1. at[c] \in Nat BY DEF ScriptTypes
    <2>2. at[c] + n # 0 BY <2>1
    <2>3. at'[c] = at[c] + n /\ \A d \in Clients \ {c} : at'[d] = at[d]
      BY <1>4 DEF Continue, ScriptTypes
    <2>4. QED BY <2>2, <2>3
  <1>5. ASSUME NEW c \in Clients, ClientStep(c) PROVE TalkInv'
    <2>1. CASE Write(c) BY <2>1, TalkWrite
    <2>2. CASE Hangup(c)
      <3>1. \A d \in Clients : at'[d] = 0 => at[d] = 0
        BY <1>4, <2>2 DEF Hangup
      <3>2. /\ gone \subseteq gone'
            /\ UNCHANGED <<step, current, data, clientIDs, container, peer, inbox>>
        BY <2>2 DEF Hangup, Disconnect, serverVars, vars
      <3>3. QED BY <3>1, <3>2, TalkQuiet
    <2>3. CASE WriteToNobody(c) \/ ReadAck(c) \/ ReadList(c) \/ ReadChat(c) \/ ReadText(c)
               \/ ReadEOF(c)
      <3>1. \/ Continue(c, 1) \/ Continue(c, 2) \/ UNCHANGED at
        BY <2>3 DEF WriteToNobody, Die, ReadAck, ReadList, ReadChat, ReadText, ReadEOF
      <3>2. \A d \in Clients : at'[d] = 0 => at[d] = 0 BY <1>4, <3>1
      <3>3. UNCHANGED vars
        BY <2>3 DEF WriteToNobody, ReadAck, ReadList, ReadChat, ReadText, ReadEOF
      <3>4. QED BY <3>2, <3>3, TalkQuiet DEF vars
    <2>4. QED BY <1>5, <2>1, <2>2, <2>3 DEF ClientStep
  <1>6. ASSUME NEW fd \in Fds, Age(fd), UNCHANGED clientVars PROVE TalkInv'
    BY <1>6, TalkQuiet DEF Age, serverVars, clientVars
  <1>7. QED BY <1>1, <1>2, <1>3, <1>5, <1>6 DEF ScriptNext, ServerStep

\* Nobody has said anything at the start.
LEMMA TalkInit == ScriptInit => TalkInv
  <1> SUFFICES ASSUME ScriptInit PROVE TalkInv OBVIOUS
  <1>1. /\ clientIDs = <<>> /\ step = "top" /\ \A fd \in Fds : inbox[fd] = <<>>
        /\ \A fd \in Fds : container[fd] = Nothing
    BY DEF ScriptInit, Init, List_new
  <1>2. Linked(clientIDs, peer) BY <1>1 DEF Linked, Entries
  <1>3. InboxHeard /\ DataHeard /\ ContainerHeard
    BY <1>1 DEF InboxHeard, DataHeard, ContainerHeard
  <1>4. Fresh BY <1>1 DEF Fresh
  <1>5. QED BY <1>2, <1>3, <1>4 DEF TalkInv

\* Records and connections stay together throughout.
LEMMA TalkInvariance == ScriptSpec => [](IInv /\ ScriptTypes /\ TalkInv)
  <1>1. ScriptInit => TalkInv BY TalkInit
  <1>2. IInv /\ ScriptTypes /\ TalkInv /\ [ScriptNext]_allVars => TalkInv'
    <2>1. ASSUME IInv, ScriptTypes, TalkInv, UNCHANGED allVars PROVE TalkInv'
      BY <2>1, TalkQuiet DEF allVars, vars, clientVars
    <2>2. QED BY <2>1, TalkKept
  <1>3. QED BY <1>1, <1>2, ScriptTypesInvariance, PTL DEF ScriptSpec

\* Between the two test clients, a record and the connection of its client
\* never come apart, so that removeClient, which takes the record of the name
\* and the socket of the sender (a2/server.c:352), takes what belongs together.
THEOREM RecordsStayConnected == ScriptSpec => []RecordsAreConnected
  <1>1. TalkInv => RecordsAreConnected
    BY DEF TalkInv, Linked, Entries, RecordsAreConnected
  <1>2. QED BY <1>1, TalkInvariance, PTL

-----------------------------------------------------------------------------
(* What is on its way to a client *)

\* What a client that is on record is sent begins with one of these.
Units == {"CHAT", "CANNOT_DELIVER"}

\* Where a group of writes that belong together ends.
Ends == {"IDS", "TEXT", "CANNOT_DELIVER", "CLIENT_PRESENT"}

Follow(r, t) ==
  \/ r = "HELLO_ACK" /\ t = "CLIENT_LIST"
  \/ r = "CLIENT_LIST" /\ t = "IDS"
  \/ r = "CHAT" /\ t = "TEXT"
  \/ r \in Ends /\ t \in Units

\* A stream of whole groups, the first of which may have been read in part.
Framed(s) ==
  /\ \A i \in 1..(Len(s) - 1) : Follow(s[i], s[i + 1])
  /\ s # <<>> => s[Len(s)] \in Ends

\* What is left of a stream after a read of its first element.
LEMMA FramedRest ==
  ASSUME NEW s \in Seq(Replies), s # <<>>, Framed(s), NEW t, t = SubSeq(s, 2, Len(s))
  PROVE  /\ Framed(t) /\ t \in Seq(Replies) /\ Len(t) = Len(s) - 1
         /\ t = <<>> => s[1] \in Ends
         /\ t # <<>> => Follow(s[1], t[1])
  <1>1. Len(s) \in Nat /\ Len(s) >= 1
    <2>1. Len(s) \in Nat /\ Len(s) # 0 BY EmptySeq, LenProperties
    <2>2. QED BY <2>1
  <1>2. \A j \in 2..Len(s) : s[j] \in Replies BY <1>1, ElementOfSeq
  <1>3. /\ t \in Seq(Replies) /\ Len(t) = Len(s) - 1
        /\ \A j \in 1..(Len(s) - 1) : t[j] = s[j + 1]
    <2>1. /\ SubSeq(s, 2, Len(s)) \in Seq(Replies)
          /\ Len(SubSeq(s, 2, Len(s))) = IF 2 <= Len(s) THEN Len(s) - 2 + 1 ELSE 0
          /\ \A j \in 1..(Len(s) - 2 + 1) : SubSeq(s, 2, Len(s))[j] = s[2 + j - 1]
      BY <1>1, <1>2, SubSeqProperties
    <2>2. \A j \in 1..(Len(s) - 1) : 2 + j - 1 = j + 1 BY <1>1
    <2>3. t \in Seq(Replies) /\ Len(t) = Len(s) - 1
      <3>1. CASE Len(s) = 1 BY <2>1, <3>1
      <3>2. CASE Len(s) >= 2
        <4>1. Len(SubSeq(s, 2, Len(s))) = Len(s) - 2 + 1 BY <2>1, <3>2
        <4>2. Len(s) - 2 + 1 = Len(s) - 1 BY <1>1
        <4>3. QED BY <2>1, <4>1, <4>2
      <3>3. Len(s) = 1 \/ Len(s) >= 2
        <4>1. \A n \in Nat : n >= 1 => n = 1 \/ n >= 2 OBVIOUS
        <4>2. QED BY <1>1, <4>1
      <3>4. QED BY <3>1, <3>2, <3>3
    <2>4. \A j \in 1..(Len(s) - 1) : t[j] = s[2 + j - 1] BY <1>1, <2>1
    <2>5. QED BY <2>2, <2>3, <2>4
  <1>4. ASSUME NEW i \in 1..(Len(t) - 1) PROVE Follow(t[i], t[i + 1])
    <2>1. i \in 1..(Len(s) - 1) /\ i + 1 \in 1..(Len(s) - 1) BY <1>1, <1>3
    <2>2. t[i] = s[i + 1] /\ t[i + 1] = s[(i + 1) + 1] BY <1>3, <2>1
    <2>3. QED BY <2>1, <2>2 DEF Framed
  <1>5. t # <<>> => Len(t) # 0 BY <1>3, EmptySeq
  <1>6. CASE t = <<>>
    <2>1. Len(s) = 1 BY <1>1, <1>3, <1>6, EmptySeq
    <2>2. s[1] \in Ends BY <2>1 DEF Framed
    <2>3. QED BY <1>3, <1>4, <1>6, <2>2 DEF Framed
  <1>7. CASE t # <<>>
    <2>1. Len(s) >= 2 BY <1>1, <1>3, <1>5, <1>7
    <2>2. t[1] = s[2] /\ 1 \in 1..(Len(s) - 1) BY <1>1, <1>3, <2>1
    <2>3. Follow(s[1], t[1])
      <3>1. Follow(s[1], s[1 + 1]) BY <2>2 DEF Framed
      <3>2. QED BY <2>2, <3>1
    <2>4. t[Len(t)] = s[Len(s)]
      <3>1. Len(t) \in 1..(Len(s) - 1) /\ Len(t) + 1 = Len(s) BY <1>1, <1>3, <2>1
      <3>2. QED BY <1>3, <3>1
    <2>5. s[Len(s)] \in Ends BY DEF Framed
    <2>6. QED BY <1>3, <1>4, <1>7, <2>3, <2>4, <2>5 DEF Framed
  <1>8. QED BY <1>6, <1>7

\* A chat, or the news that one is not delivered, fits behind whole groups.
LEMMA FramedMore ==
  ASSUME NEW s \in Seq(Replies), Framed(s),
         NEW u \in {<<"CHAT", "TEXT">>, <<"CANNOT_DELIVER">>}
  PROVE  /\ Framed(s \o u) /\ s \o u # <<>>
         /\ s # <<>> => (s \o u)[1] = s[1]
         /\ s = <<>> => (s \o u)[1] \in Units
  <1> DEFINE w == s \o u
  <1>1. /\ u \in Seq(Replies) /\ Len(u) \in 1..2 /\ u[1] \in Units /\ u[Len(u)] \in Ends
        /\ Len(u) = 2 => Follow(u[1], u[2])
    <2>1. CASE u = <<"CHAT", "TEXT">>
      <3>1. "CHAT" \in Replies /\ "TEXT" \in Replies BY DEF Replies
      <3>2. u \in Seq(Replies) /\ Len(u) = 2 /\ u[1] = "CHAT" /\ u[2] = "TEXT" BY <2>1, <3>1
      <3>3. QED BY <3>2 DEF Units, Ends, Follow
    <2>2. CASE u = <<"CANNOT_DELIVER">>
      <3>1. "CANNOT_DELIVER" \in Replies BY DEF Replies
      <3>2. u \in Seq(Replies) /\ Len(u) = 1 /\ u[1] = "CANNOT_DELIVER" BY <2>2, <3>1
      <3>3. QED BY <3>2 DEF Units, Ends, Follow
    <2>3. QED BY <2>1, <2>2
  <1>2. Len(s) \in Nat BY LenProperties
  <1>3. /\ w \in Seq(Replies) /\ Len(w) = Len(s) + Len(u)
        /\ \A i \in 1..(Len(s) + Len(u)) : w[i] = IF i <= Len(s) THEN s[i] ELSE u[i - Len(s)]
    BY <1>1, ConcatProperties
  <1> HIDE DEF w
  <1>4. \A i \in 1..Len(s) : w[i] = s[i] BY <1>1, <1>2, <1>3
  <1>5. \A i \in 1..Len(u) : w[Len(s) + i] = u[i]
    <2>1. TAKE i \in 1..Len(u)
    <2>2. Len(s) + i \in 1..(Len(s) + Len(u)) /\ ~(Len(s) + i <= Len(s))
          /\ (Len(s) + i) - Len(s) = i
      BY <1>1, <1>2
    <2>3. QED BY <1>3, <2>2
  <1>6. w # <<>> /\ w[Len(w)] \in Ends
    <2>1. Len(w) # 0 BY <1>1, <1>2, <1>3
    <2>2. Len(u) \in 1..Len(u) BY <1>1
    <2>3. w[Len(s) + Len(u)] = u[Len(u)] BY <1>5, <2>2
    <2>4. QED BY <1>1, <1>3, <2>1, <2>3, EmptySeq
  <1>7. s # <<>> => Len(s) >= 1
    <2>1. s # <<>> => Len(s) # 0 BY EmptySeq
    <2>2. QED BY <1>2, <2>1
  <1>8. s # <<>> => w[1] = s[1] BY <1>2, <1>4, <1>7
  <1>9. s = <<>> => w[1] \in Units
    <2>1. ASSUME s = <<>> PROVE w[1] \in Units
      <3>1. Len(s) + 1 = 1 BY <2>1, EmptySeq
      <3>2. w[Len(s) + 1] = u[1] BY <1>1, <1>5
      <3>3. QED BY <1>1, <3>1, <3>2
    <2>2. QED BY <2>1
  <1>10. ASSUME NEW i \in 1..(Len(w) - 1) PROVE Follow(w[i], w[i + 1])
    <2>1. CASE i < Len(s)
      <3>1. i \in 1..(Len(s) - 1) /\ i \in 1..Len(s) /\ i + 1 \in 1..Len(s)
        BY <1>1, <1>2, <1>3, <2>1
      <3>2. Follow(s[i], s[i + 1]) BY <3>1 DEF Framed
      <3>3. QED BY <1>4, <3>1, <3>2
    <2>2. CASE i = Len(s)
      <3>1. i \in 1..Len(s) /\ s # <<>> /\ 1 \in 1..Len(u)
        <4>1. Len(<<>>) = 0 BY EmptySeq
        <4>2. QED BY <1>1, <1>2, <2>2, <4>1
      <3>2. w[i] = s[Len(s)] /\ w[i + 1] = u[1] BY <1>4, <1>5, <2>2, <3>1
      <3>3. s[Len(s)] \in Ends BY <3>1 DEF Framed
      <3>4. QED BY <1>1, <3>2, <3>3 DEF Follow
    <2>3. CASE i > Len(s)
      <3>1. Len(u) = 2 /\ i = Len(s) + 1 /\ i + 1 = Len(s) + 2 BY <1>1, <1>2, <1>3, <2>3
      <3>2. w[i] = u[1] /\ w[i + 1] = u[2] BY <1>5, <3>1
      <3>3. QED BY <1>1, <3>1, <3>2
    <2>4. QED BY <1>1, <1>2, <1>3, <2>1, <2>2, <2>3
  <1>11. QED BY <1>6, <1>8, <1>9, <1>10 DEF Framed, w

\* Neighbouring statements of a script.
LEMMA NextStatement ==
  ASSUME NEW c \in Clients, NEW n \in Nat, n < Len(start_client[c])
  PROVE  /\ start_client[c][n + 1].do = "ack" => n \in {1, 2}
         /\ start_client[c][n + 1].do = "list" => n = 3
         /\ start_client[c][n + 1].do \in {"chat", "text", "close"} => n >= 4
         /\ start_client[c][n + 1].do = "send" => n = 0 \/ n >= 4
         /\ start_client[c][n + 1].do = "send" /\ start_client[c][n + 1].message.type = "HELLO"
              => n = 0
         /\ start_client[c][n + 1].do = "chat" => start_client[c][n + 2].do = "text"
         /\ n + 1 < Len(start_client[c]) /\ start_client[c][n + 2].do = "text"
              => start_client[c][n + 1].do = "chat"
         /\ n + 2 < Len(start_client[c]) /\ start_client[c][n + 1].do = "chat"
              => start_client[c][n + 3].do # "text"
  <1> DEFINE s == start_client[c]
  <1>1. Script(s, c) /\ Len(s) \in Nat BY ScriptsAreScripts, LenProperties
  <1> HIDE DEF s
  <1>2. CASE n < 4
    <2>1. n = 0 \/ n = 1 \/ n = 2 \/ n = 3 BY <1>2
    <2>2. n + 1 < Len(s) /\ s[n + 2].do = "text" => FALSE
      <3>1. CASE n < 3
        <4>1. s[n + 2].do # "text" BY <1>1, <2>1, <3>1 DEF Script
        <4>2. QED BY <4>1
      <3>2. CASE n = 3
        <4>1. ASSUME 5 \in 5..Len(s), s[5].do = "text" PROVE FALSE
          <5>1. 5 - 1 \in 5..Len(s) BY <1>1, <4>1 DEF Script
          <5>2. QED BY <5>1
        <4>2. QED BY <1>1, <3>2, <4>1
      <3>3. QED BY <2>1, <3>1, <3>2
    <2>3. /\ n = 0 => s[n + 1].do = "send"
          /\ n \in {1, 2} => s[n + 1].do = "ack"
          /\ n = 3 => s[n + 1].do = "list"
      BY <1>1 DEF Script
    <2>4. QED BY <2>1, <2>2, <2>3 DEF s
  <1>3. CASE n >= 4
    <2>1. n + 1 \in 5..Len(s) BY <1>1, <1>3 DEF s
    <2>2. /\ s[n + 1].do \in {"send", "chat", "text", "close"}
          /\ s[n + 1].do = "send" => s[n + 1].message.type # "HELLO"
          /\ s[n + 1].do = "chat" => s[(n + 1) + 1].do = "text"
      BY <1>1, <2>1 DEF Script
    <2>3. \A k \in 5..(Len(s) - 1) : s[k + 1].do = "text" => s[k].do = "chat"
      <3>1. ASSUME NEW k \in 5..(Len(s) - 1), s[k + 1].do = "text" PROVE s[k].do = "chat"
        <4>1. k + 1 \in 5..Len(s) /\ (k + 1) - 1 = k BY <1>1
        <4>2. s[(k + 1) - 1].do = "chat" BY <1>1, <3>1, <4>1 DEF Script
        <4>3. QED BY <4>1, <4>2
      <3>2. QED BY <3>1
    <2>4. (n + 1) + 1 = n + 2 /\ (n + 2) + 1 = n + 3 OBVIOUS
    <2>5. n + 1 < Len(s) => n + 1 \in 5..(Len(s) - 1) BY <1>1, <1>3
    <2>6. n + 2 < Len(s) => n + 2 \in 5..(Len(s) - 1) BY <1>1, <1>3
    <2>7. n + 1 < Len(s) /\ s[n + 2].do = "text" => s[n + 1].do = "chat"
      BY <2>3, <2>4, <2>5
    <2>8. n + 2 < Len(s) /\ s[n + 3].do = "text" => s[n + 2].do = "chat"
      BY <2>3, <2>4, <2>6
    <2>9. QED BY <1>3, <2>2, <2>4, <2>7, <2>8 DEF s
  <1>4. QED BY <1>2, <1>3

-----------------------------------------------------------------------------
(* Reads and writes in step *)

Talking(c) == Running(c) /\ c \notin greedy

\* Nobody is on record at the client's connection.
NoRecord(c) == \A e \in Entries(clientIDs) : e.fd \notin Connection(c)

\* Reply r is what a client at statement n of its script reads next.
Due(c, n, r) ==
  \/ n = 1 /\ r \in {"HELLO_ACK", "CLIENT_PRESENT"}
  \/ n = 2 /\ r = "CLIENT_LIST"
  \/ n = 3 /\ r = "IDS"
  \/ n >= 4 /\ start_client[c][n + 1].do = "text" /\ r = "TEXT"
  \/ n >= 4 /\ start_client[c][n + 1].do # "text" /\ r \in Units

\* What is on its way to a client begins with what it reads next.  Where
\* nothing is on its way and something must come first, the client has not
\* been registered, or its connection is lost and nothing will come.
InStep(c) ==
  /\ Framed(stream[c])
  /\ stream[c] # <<>> => Due(c, at[c], stream[c][1])
  /\ stream[c] # <<>> /\ stream[c][1] = "CLIENT_PRESENT" => Len(stream[c]) = 1 /\ Lost(c)
  /\ stream[c] = <<>> /\ at[c] \in {0, 1} => NoRecord(c)
  /\ stream[c] = <<>> /\ (at[c] \in {2, 3} \/ start_client[c][at[c] + 1].do = "text") => Lost(c)

\* A HELLO is waiting, or handled, on the descriptor.
HelloAt(fd) ==
  \/ \E i \in 1..Len(inbox[fd]) : inbox[fd][i].type = "HELLO"
  \/ step = "handle" /\ current = fd /\ data[1].type = "HELLO"

\* A client whose HELLO is not handled yet has been sent nothing.
HelloWaits(c) ==
  \A fd \in Connection(c) : HelloAt(fd) => at[c] = 1 /\ stream[c] = <<>>

Sync == \A c \in Clients : Talking(c) => InStep(c) /\ HelloWaits(c)

\* A client has one connection, which is accepted or in the backlog.
OneLine ==
  \A c \in Clients :
    /\ \A f, g \in Connection(c) : f = g
    /\ \A i, j \in 1..Len(backlog) : backlog[i] = c /\ backlog[j] = c => i = j
    /\ \A f \in Connection(c) : \A i \in 1..Len(backlog) : backlog[i] # c

\* While something of a client is handled, no HELLO of it is waiting behind.
NoSecond ==
  step = "handle" /\ peer[current] # NoClient
    => \A i \in 1..Len(inbox[current]) : inbox[current][i].type # "HELLO"

SyncInv == OneLine /\ NoSecond /\ Sync

\* What is taken for granted of a state.
Basis == IInv /\ ScriptTypes /\ TalkInv

\* The connections of a client.
LEMMA ConnectionOf ==
  ASSUME NEW c \in Clients, NEW fd
  PROVE  fd \in Connection(c) <=> fd \in Fds /\ fd \notin gone /\ peer[fd] = c
  BY ClientAssumption DEF Connection, Open

\* A client at whose connection nothing happens stays in step.
LEMMA Bystander ==
  ASSUME NEW c \in Clients, at'[c] = at[c], stream'[c] = stream[c],
         c \in greedy => c \in greedy', c \in killed => c \in killed',
         Lost(c) => Lost(c)', NoRecord(c) => NoRecord(c)',
         \A fd \in Connection(c)' : HelloAt(fd)' => fd \in Connection(c) /\ HelloAt(fd),
         Talking(c) => InStep(c) /\ HelloWaits(c)
  PROVE  Talking(c)' => InStep(c)' /\ HelloWaits(c)'
  <1>1. Talking(c)' => Talking(c) BY DEF Talking, Running
  <1>2. InStep(c) => InStep(c)' BY DEF InStep
  <1>3. HelloWaits(c) => HelloWaits(c)' BY DEF HelloWaits
  <1>4. QED BY <1>1, <1>2, <1>3

\* Connections that only go leave each client with at most one.
LEMMA OneLineLess ==
  ASSUME OneLine, UNCHANGED backlog, \A c \in Clients : Connection(c)' \subseteq Connection(c)
  PROVE  OneLine' /\ \A c \in Clients : Lost(c) => Lost(c)'
  <1>1. OneLine' BY DEF OneLine
  <1>2. ASSUME NEW c \in Clients, Lost(c) PROVE Lost(c)'
    BY <1>2 DEF Lost
  <1>3. QED BY <1>1, <1>2

\* Closing sockets takes connections away.
LEMMA CloseConnections ==
  ASSUME NEW fds, CloseSockets(fds), NEW c \in Clients
  PROVE  /\ Connection(c)' \subseteq Connection(c)
         /\ \A fd \in Connection(c)' : fd \notin fds /\ inbox'[fd] = inbox[fd]
  BY ClientAssumption DEF CloseSockets, Connection, Open

-----------------------------------------------------------------------------
(* The clients' own steps *)

\* What a client that is in step reads is taken from the front.
LEMMA SyncTake ==
  ASSUME Basis, NEW c \in Clients, Talking(c), InStep(c), stream[c] # <<>>, Take(c, 1)
  PROVE  /\ Due(c, at[c], stream[c][1]) /\ at[c] \in Nat /\ at[c] + 1 <= Len(start_client[c])
         /\ Framed(stream'[c]) /\ stream'[c] \in Seq(Replies)
         /\ Len(stream'[c]) = Len(stream[c]) - 1
         /\ stream'[c] = <<>> => stream[c][1] \in Ends
         /\ stream'[c] # <<>> => Follow(stream[c][1], stream'[c][1])
         /\ stream[c][1] = Head(stream[c])
  <1>1. stream[c] \in Seq(Replies) BY DEF Basis, ScriptTypes
  <1>2. stream'[c] = SubSeq(stream[c], 2, Len(stream[c])) BY DEF Basis, ScriptTypes, Take
  <1>3. Framed(stream[c]) /\ Due(c, at[c], stream[c][1]) BY DEF InStep
  <1>4. at[c] + 1 \in 1..Len(start_client[c]) /\ at[c] \in Nat /\ Len(start_client[c]) \in Nat
    BY RunningAt, ScriptsAreScripts, LenProperties DEF Basis, Talking
  <1>5. Head(stream[c]) = stream[c][1] BY <1>1, HeadTailProperties
  <1>6. at[c] + 1 <= Len(start_client[c]) BY <1>4
  <1>7. /\ Framed(stream'[c]) /\ stream'[c] \in Seq(Replies)
        /\ Len(stream'[c]) = Len(stream[c]) - 1
        /\ stream'[c] = <<>> => stream[c][1] \in Ends
        /\ stream'[c] # <<>> => Follow(stream[c][1], stream'[c][1])
    BY <1>1, <1>2, <1>3, FramedRest
  <1>8. QED BY <1>3, <1>4, <1>5, <1>6, <1>7

\* After a read that leaves the server alone, the sockets are as they were.
LEMMA SameSockets ==
  ASSUME UNCHANGED vars, NEW c \in Clients
  PROVE  /\ Lost(c)' = Lost(c) /\ NoRecord(c)' = NoRecord(c) /\ Connection(c)' = Connection(c)
         /\ \A fd : HelloAt(fd)' = HelloAt(fd)
  BY DEF vars, Lost, NoRecord, Connection, Open, HelloAt

\* A read of a header of the greeting.
LEMMA SyncAck ==
  ASSUME Basis, NEW c \in Clients, Talking(c), InStep(c), HelloWaits(c), ReadAck(c)
  PROVE  InStep(c)' /\ HelloWaits(c)'
  <1> DEFINE s == stream[c]
             t == stream'[c]
             n == at[c]
  <1>1. s # <<>> /\ Take(c, 1) /\ UNCHANGED vars /\ Continue(c, 1) /\ Doing(c, "ack")
    BY DEF ReadAck
  <1>2. /\ Due(c, n, s[1]) /\ n \in Nat /\ n < Len(start_client[c])
        /\ Framed(t) /\ t \in Seq(Replies) /\ Len(t) = Len(s) - 1
        /\ t = <<>> => s[1] \in Ends
        /\ t # <<>> => Follow(s[1], t[1])
    <2>1. Len(start_client[c]) \in Nat BY ScriptsAreScripts, LenProperties
    <2>2. QED BY <1>1, <2>1, SyncTake
  <1>3. at'[c] = n + 1 BY <1>1 DEF Continue, Basis, ScriptTypes
  <1>4. n \in {1, 2}
    <2>1. start_client[c][n + 1].do = "ack" BY <1>1 DEF Doing
    <2>2. QED BY <1>2, <2>1, NextStatement
  <1>5. s[1] = "CLIENT_PRESENT" => Len(s) = 1 /\ Lost(c) BY <1>1 DEF InStep
  <1>6. Lost(c)' = Lost(c) /\ Connection(c)' = Connection(c) /\ \A fd : HelloAt(fd)' = HelloAt(fd)
    BY <1>1, SameSockets
  <1>7. \A fd \in Connection(c) : ~HelloAt(fd) BY <1>1 DEF HelloWaits
  <1>8. HelloWaits(c)' BY <1>6, <1>7 DEF HelloWaits
  <1>9. /\ t # <<>> => (n = 1 /\ t[1] = "CLIENT_LIST") \/ (n = 2 /\ t[1] = "IDS")
        /\ t = <<>> => Lost(c)
    <2>1. CASE n = 1 /\ s[1] = "CLIENT_PRESENT"
      <3>1. Len(t) = 0 /\ Lost(c) BY <1>2, <1>5, <2>1
      <3>2. t = <<>> BY <1>2, <3>1, EmptySeq
      <3>3. QED BY <3>1, <3>2
    <2>2. CASE n = 1 /\ s[1] = "HELLO_ACK" BY <1>2, <2>2 DEF Follow, Ends
    <2>3. CASE n = 2 /\ s[1] = "CLIENT_LIST" BY <1>2, <2>3 DEF Follow, Ends
    <2>4. QED BY <1>2, <1>4, <2>1, <2>2, <2>3 DEF Due
  <1>10. t # <<>> => Due(c, n + 1, t[1]) /\ t[1] # "CLIENT_PRESENT"
    BY <1>9 DEF Due
  <1>11. n + 1 \notin {0, 1} BY <1>4
  <1> HIDE DEF n, s, t
  <1>12. InStep(c)'
    BY <1>2, <1>3, <1>6, <1>9, <1>10, <1>11 DEF InStep, t
  <1>13. QED BY <1>8, <1>12

\* Past the greeting a client waits for no HELLO of its own, and what is due
\* next follows from the statements.
LEMMA SyncLater ==
  ASSUME Basis, NEW c \in Clients, Talking(c), HelloWaits(c), at[c] >= 2,
         UNCHANGED vars, Running(c)' => InStep(c)'
  PROVE  Talking(c)' => InStep(c)' /\ HelloWaits(c)'
  <1>1. at[c] # 1 BY DEF Basis, ScriptTypes
  <1>2. \A fd \in Connection(c) : ~HelloAt(fd) BY <1>1 DEF HelloWaits
  <1>3. HelloWaits(c)' BY <1>2, SameSockets DEF HelloWaits
  <1>4. QED BY <1>3 DEF Talking

\* A client that has taken a part of what is sent after the greeting, and is
\* at a statement that fits the rest, is in step.
LEMMA InStepLater ==
  ASSUME NEW c \in Clients, Lost(c)' = Lost(c),
         at'[c] \in Nat, at'[c] >= 4, Framed(stream'[c]),
         stream'[c] # <<>> => \/ start_client[c][at'[c] + 1].do = "text" /\ stream'[c][1] = "TEXT"
                              \/ start_client[c][at'[c] + 1].do # "text" /\ stream'[c][1] \in Units,
         stream'[c] = <<>> => Lost(c) \/ start_client[c][at'[c] + 1].do # "text"
  PROVE  InStep(c)'
  <1>1. at'[c] \notin {0, 1} /\ at'[c] \notin {2, 3} OBVIOUS
  <1>2. stream'[c] # <<>> => Due(c, at'[c], stream'[c][1]) BY DEF Due
  <1>3. stream'[c] # <<>> => stream'[c][1] # "CLIENT_PRESENT" BY DEF Units
  <1>4. QED BY <1>1, <1>2, <1>3 DEF InStep

\* The read of the list takes the list, or more and the client is greedy.
LEMMA SyncList ==
  ASSUME Basis, NEW c \in Clients, Talking(c), InStep(c), HelloWaits(c), ReadList(c)
  PROVE  Talking(c)' => InStep(c)' /\ HelloWaits(c)'
  <1>1. Doing(c, "list") /\ Continue(c, 1) /\ UNCHANGED vars BY DEF ReadList
  <1>2. PICK k \in 1..Len(stream[c]) :
          Take(c, k) /\ greedy' = IF k > 1 THEN greedy \cup {c} ELSE greedy
    BY DEF ReadList
  <1>3. Len(stream[c]) \in Nat BY LenProperties DEF Basis, ScriptTypes
  <1>4. CASE k > 1
    <2>1. c \in greedy' BY <1>2, <1>4
    <2>2. QED BY <2>1 DEF Talking
  <1>5. CASE k = 1
    <2>1. stream[c] # <<>>
      <3>1. Len(<<>>) = 0 BY EmptySeq
      <3>2. QED BY <1>2, <1>3, <3>1
    <2>2. Take(c, 1) BY <1>2, <1>5
    <2>3. /\ Due(c, at[c], stream[c][1]) /\ at[c] \in Nat
          /\ at[c] + 1 <= Len(start_client[c]) /\ Framed(stream'[c])
          /\ stream'[c] # <<>> => Follow(stream[c][1], stream'[c][1])
      BY <2>1, <2>2, SyncTake
    <2>4. Len(start_client[c]) \in Nat BY ScriptsAreScripts, LenProperties
    <2>5. at[c] = 3
      <3>1. start_client[c][at[c] + 1].do = "list" BY <1>1 DEF Doing
      <3>2. QED BY <2>3, <2>4, <3>1, NextStatement
    <2>6. stream[c][1] = "IDS" BY <2>3, <2>5 DEF Due
    <2>7. stream'[c] # <<>> => stream'[c][1] \in Units BY <2>3, <2>6 DEF Follow
    <2>8. at'[c] = 4 BY <1>1, <2>5 DEF Continue, Basis, ScriptTypes
    <2>9. ASSUME Running(c)' PROVE start_client[c][at'[c] + 1].do # "text"
      <3>1. 4 < Len(start_client[c]) BY <2>8, <2>9 DEF Running
      <3>2. start_client[c][3 + 1].do = "list" BY <1>1, <2>5 DEF Doing
      <3>3. 3 < Len(start_client[c]) /\ 3 + 1 < Len(start_client[c]) BY <2>4, <3>1
      <3>4. start_client[c][3 + 2].do # "text" BY <3>2, <3>3, NextStatement
      <3>5. QED BY <2>8, <3>4
    <2>10. Running(c)' => InStep(c)' BY <1>1, <2>3, <2>7, <2>8, <2>9, InStepLater, SameSockets
    <2>11. QED BY <1>1, <2>5, <2>10, SyncLater
  <1>6. QED BY <1>2, <1>3, <1>4, <1>5

\* The read of a header finds one, and the statement after it what follows.
LEMMA SyncChat ==
  ASSUME Basis, NEW c \in Clients, Talking(c), InStep(c), HelloWaits(c), ReadChat(c)
  PROVE  Talking(c)' => InStep(c)' /\ HelloWaits(c)'
  <1> DEFINE n == at[c]
  <1>1. Doing(c, "chat") /\ stream[c] # <<>> /\ UNCHANGED vars BY DEF ReadChat
  <1>2. CASE c \in killed' BY <1>2 DEF Talking, Running
  <1>3. CASE Take(c, 1)
    <2>1. /\ Due(c, n, stream[c][1]) /\ n \in Nat
          /\ n + 1 <= Len(start_client[c]) /\ Framed(stream'[c])
          /\ stream'[c] = <<>> => stream[c][1] \in Ends
          /\ stream'[c] # <<>> => Follow(stream[c][1], stream'[c][1])
          /\ stream[c][1] = Head(stream[c])
      BY <1>1, <1>3, SyncTake
    <2>2. Len(start_client[c]) \in Nat BY ScriptsAreScripts, LenProperties
    <2>3. start_client[c][n + 1].do = "chat" BY <1>1 DEF Doing
    <2>4. n < Len(start_client[c]) BY <2>1, <2>2
    <2>5. n >= 4 /\ start_client[c][n + 2].do = "text" BY <2>1, <2>3, <2>4, NextStatement
    <2>6. stream[c][1] \in Units BY <2>1, <2>3, <2>5 DEF Due
    <2>7. CASE stream[c][1] = "CHAT"
      <3>1. Continue(c, 1) BY <2>1, <2>7, <1>3 DEF ReadChat, Die
      <3>2. at'[c] = n + 1 BY <3>1 DEF Continue, Basis, ScriptTypes
      <3>3. stream'[c] # <<>> /\ stream'[c][1] = "TEXT" BY <2>1, <2>7 DEF Ends, Follow
      <3>4. at'[c] \in Nat /\ at'[c] >= 4 /\ at'[c] + 1 = n + 2 BY <2>1, <2>5, <3>2
      <3>5. start_client[c][at'[c] + 1].do = "text" BY <2>5, <3>4
      <3>6. InStep(c)' BY <1>1, <2>1, <3>3, <3>4, <3>5, InStepLater, SameSockets
      <3>7. n >= 2 BY <2>1, <2>5
      <3>8. QED BY <1>1, <3>6, <3>7, SyncLater
    <2>8. CASE stream[c][1] = "CANNOT_DELIVER"
      <3>1. Continue(c, 2) \/ c \in killed' BY <2>1, <2>8 DEF ReadChat, Die
      <3>2. ASSUME Continue(c, 2) PROVE at'[c] = n + 2
        BY <3>2 DEF Continue, Basis, ScriptTypes
      <3>3. stream'[c] # <<>> => stream'[c][1] \in Units BY <2>1, <2>8 DEF Follow
      <3>4. ASSUME Continue(c, 2), Running(c)' PROVE InStep(c)'
        <4>1. at'[c] = n + 2 /\ n + 2 < Len(start_client[c]) BY <3>2, <3>4 DEF Running
        <4>2. start_client[c][n + 3].do # "text" BY <2>1, <2>3, <2>4, <4>1, NextStatement
        <4>3. at'[c] \in Nat /\ at'[c] >= 4 /\ at'[c] + 1 = n + 3 BY <2>1, <2>5, <4>1
        <4>4. start_client[c][at'[c] + 1].do # "text" BY <4>2, <4>3
        <4>5. QED BY <1>1, <2>1, <3>3, <4>3, <4>4, InStepLater, SameSockets
      <3>5. n >= 2 BY <2>1, <2>5
      <3>6. QED BY <1>1, <1>2, <3>1, <3>4, <3>5, SyncLater
    <2>9. QED BY <2>6, <2>7, <2>8 DEF Units
  <1>4. QED BY <1>2, <1>3 DEF ReadChat, Die

\* The read of a text finds one.
LEMMA SyncText ==
  ASSUME Basis, NEW c \in Clients, Talking(c), InStep(c), HelloWaits(c), ReadText(c)
  PROVE  Talking(c)' => InStep(c)' /\ HelloWaits(c)'
  <1> DEFINE n == at[c]
  <1>1. Doing(c, "text") /\ stream[c] # <<>> /\ UNCHANGED vars /\ Take(c, 1) /\ Continue(c, 1)
    BY DEF ReadText
  <1>2. /\ Due(c, n, stream[c][1]) /\ n \in Nat
        /\ n + 1 <= Len(start_client[c]) /\ Framed(stream'[c])
        /\ stream'[c] # <<>> => Follow(stream[c][1], stream'[c][1])
    BY <1>1, SyncTake
  <1>3. Len(start_client[c]) \in Nat BY ScriptsAreScripts, LenProperties
  <1>4. start_client[c][n + 1].do = "text" BY <1>1 DEF Doing
  <1>5. n < Len(start_client[c]) BY <1>2, <1>3
  <1>6. n >= 4 BY <1>2, <1>4, <1>5, NextStatement
  <1>7. stream[c][1] = "TEXT" BY <1>2, <1>4, <1>6 DEF Due
  <1>8. stream'[c] # <<>> => stream'[c][1] \in Units BY <1>2, <1>7 DEF Follow
  <1>9. at'[c] = n + 1 BY <1>1 DEF Continue, Basis, ScriptTypes
  <1>10. ASSUME Running(c)' PROVE InStep(c)'
    <2>1. n + 1 < Len(start_client[c]) BY <1>9, <1>10 DEF Running
    <2>2. start_client[c][n + 2].do # "text"
      BY <1>2, <1>4, <1>5, <2>1, NextStatement
    <2>3. at'[c] \in Nat /\ at'[c] >= 4 /\ at'[c] + 1 = n + 2 BY <1>2, <1>6, <1>9
    <2>4. start_client[c][at'[c] + 1].do # "text" BY <2>2, <2>3
    <2>5. QED BY <1>1, <1>2, <1>8, <2>3, <2>4, InStepLater, SameSockets
  <1>11. n >= 2 BY <1>2, <1>6
  <1>12. QED BY <1>1, <1>10, <1>11, SyncLater

\* On a lost connection nothing comes, whatever the client goes on with.
LEMMA SyncLost ==
  ASSUME NEW c \in Clients, Lost(c)', stream'[c] = <<>>
  PROVE  InStep(c)' /\ HelloWaits(c)'
  <1>1. Connection(c)' = {} BY DEF Lost
  <1>2. HelloWaits(c)' BY <1>1 DEF HelloWaits
  <1>3. NoRecord(c)' BY <1>1 DEF NoRecord
  <1>4. Framed(stream'[c])
    <2>1. Len(<<>>) = 0 BY EmptySeq
    <2>2. Framed(<<>>) BY <2>1 DEF Framed
    <2>3. QED BY <2>2
  <1>5. InStep(c)' BY <1>3, <1>4 DEF InStep
  <1>6. QED BY <1>2, <1>5

\* A write to a lost connection.
LEMMA SyncToNobody ==
  ASSUME Basis, NEW c \in Clients, Talking(c), InStep(c), HelloWaits(c), WriteToNobody(c)
  PROVE  Talking(c)' => InStep(c)' /\ HelloWaits(c)'
  <1> DEFINE n == at[c]
  <1>1. Doing(c, "send") /\ Lost(c) /\ UNCHANGED vars BY DEF WriteToNobody
  <1>2. CASE Die(c) BY <1>2 DEF Die, Talking, Running
  <1>3. CASE Continue(c, 1) /\ UNCHANGED <<stream, killed>>
    <2>1. stream'[c] = stream[c] /\ n \in Nat /\ at'[c] = n + 1
      BY <1>3 DEF Continue, Basis, ScriptTypes
    <2>2. CASE stream[c] = <<>>
      <3>1. Lost(c)' BY <1>1, SameSockets
      <3>2. QED BY <2>1, <2>2, <3>1, SyncLost
    <2>3. CASE stream[c] # <<>>
      <3>1. Len(start_client[c]) \in Nat /\ n < Len(start_client[c])
        BY ScriptsAreScripts, LenProperties DEF Talking, Running
      <3>2. start_client[c][n + 1].do = "send" BY <1>1 DEF Doing
      <3>3. Due(c, n, stream[c][1]) BY <2>3 DEF InStep
      <3>4. n = 0 \/ n >= 4 BY <2>1, <3>1, <3>2, NextStatement
      <3>5. n >= 4 /\ stream[c][1] \in Units BY <2>1, <3>2, <3>3, <3>4 DEF Due
      <3>6. Framed(stream'[c]) BY <2>1 DEF InStep
      <3>7. ASSUME Running(c)' PROVE InStep(c)'
        <4>1. n + 1 < Len(start_client[c]) BY <2>1, <3>7 DEF Running
        <4>2. start_client[c][n + 2].do # "text" BY <2>1, <3>1, <3>2, <4>1, NextStatement
        <4>3. at'[c] \in Nat /\ at'[c] >= 4 /\ at'[c] + 1 = n + 2 BY <2>1, <3>5
        <4>4. start_client[c][at'[c] + 1].do # "text" BY <4>2, <4>3
        <4>5. QED BY <1>1, <2>1, <2>3, <3>5, <3>6, <4>3, <4>4, InStepLater, SameSockets
      <3>8. n >= 2 BY <2>1, <3>5
      <3>9. QED BY <1>1, <3>7, <3>8, SyncLater
    <2>4. QED BY <2>2, <2>3
  <1>4. QED BY <1>2, <1>3 DEF WriteToNobody

\* What a write of a client changes: a HELLO may arrive, if it is the first.
LEMMA WriteHello ==
  ASSUME Basis, NEW c \in Clients, Write(c)
  PROVE  /\ UNCHANGED <<step, current, data, clientIDs, container, peer, gone, backlog>>
         /\ \E fd \in Connection(c) : \A g \in Fds :
              HelloAt(g)' => HelloAt(g) \/ (g = fd /\ at[c] = 0)
         /\ NoSecond => NoSecond'
  <1> DEFINE m == start_client[c][at[c] + 1].message
             said == IF m.body THEN <<m, Text>> ELSE <<m>>
  <1>1. PICK fd \in Connection(c) : Send(fd, m) BY DEF Write
  <1>2. /\ fd \in Fds /\ peer[fd] = c /\ fd \notin gone
        /\ inbox' = [inbox EXCEPT ![fd] = inbox[fd] \o said]
        /\ UNCHANGED <<step, current, data, clientIDs, container, peer, gone, backlog>>
    BY <1>1 DEF Connection, Open, Send, serverVars
  <1>3. m \in Cells /\ Text \in Cells BY WritesAMessage DEF Basis, Write, Cells
  <1>4. m.type = "HELLO" => at[c] = 0
    <2>1. /\ at[c] \in Nat /\ at[c] < Len(start_client[c])
          /\ start_client[c][at[c] + 1].do = "send"
      BY DEF Basis, ScriptTypes, Write, Doing, Running
    <2>2. QED BY <2>1, NextStatement
  <1> HIDE DEF m
  <1>5. /\ said \in Seq(Cells) /\ Len(said) \in 1..2
        /\ \A i \in 1..Len(said) : said[i] = m \/ said[i] = Text
    <2>1. CASE m.body
      <3>1. said = <<m, Text>> BY <2>1
      <3>2. QED BY <1>3, <3>1
    <2>2. CASE ~m.body
      <3>1. said = <<m>> BY <2>2
      <3>2. QED BY <1>3, <3>1
    <2>3. QED BY <2>1, <2>2
  <1> HIDE DEF said
  <1>6. inbox[fd] \in Seq(Cells) /\ inbox \in [Fds -> Seq(Cells)]
    BY <1>2 DEF Basis, IInv, TypeOK
  <1>7. Len(inbox[fd]) \in Nat BY <1>6, LenProperties
  <1>8. inbox'[fd] = inbox[fd] \o said /\ \A g \in Fds \ {fd} : inbox'[g] = inbox[g]
    BY <1>2, <1>6
  <1>9. /\ Len(inbox'[fd]) = Len(inbox[fd]) + Len(said)
        /\ \A i \in 1..(Len(inbox[fd]) + Len(said)) :
             inbox'[fd][i] = IF i <= Len(inbox[fd]) THEN inbox[fd][i]
                             ELSE said[i - Len(inbox[fd])]
    BY <1>5, <1>6, <1>8, ConcatProperties
  <1>10. ASSUME NEW i \in 1..Len(inbox'[fd]), inbox'[fd][i].type = "HELLO", at[c] # 0
         PROVE  i \in 1..Len(inbox[fd]) /\ inbox[fd][i].type = "HELLO"
    <2>1. CASE i <= Len(inbox[fd]) BY <1>7, <1>9, <1>10, <2>1
    <2>2. CASE i > Len(inbox[fd])
      <3>1. i \in 1..(Len(inbox[fd]) + Len(said)) BY <1>9
      <3>2. ~(i <= Len(inbox[fd])) /\ i - Len(inbox[fd]) \in 1..Len(said)
        BY <1>5, <1>7, <2>2, <3>1
      <3>3. i - Len(inbox[fd]) \in 1..Len(said)
            /\ inbox'[fd][i] = said[i - Len(inbox[fd])]
        BY <1>9, <3>1, <3>2
      <3>4. inbox'[fd][i] = m \/ inbox'[fd][i] = Text BY <1>5, <3>3
      <3>5. QED BY <1>4, <1>10, <3>4 DEF Text
    <2>3. QED BY <1>5, <1>7, <1>9, <2>1, <2>2
  <1>11. ASSUME NEW g \in Fds, HelloAt(g)' PROVE HelloAt(g) \/ (g = fd /\ at[c] = 0)
    <2>1. CASE g # fd
      <3>1. inbox'[g] = inbox[g] BY <1>8, <2>1
      <3>2. QED BY <1>2, <1>11, <3>1 DEF HelloAt
    <2>2. CASE g = fd /\ at[c] # 0
      <3>1. \A i \in 1..Len(inbox'[fd]) : inbox'[fd][i].type = "HELLO"
              => i \in 1..Len(inbox[fd]) /\ inbox[fd][i].type = "HELLO"
        BY <1>10, <2>2
      <3>2. QED BY <1>2, <1>11, <2>2, <3>1 DEF HelloAt
    <2>3. QED BY <2>1, <2>2
  <1>12. ASSUME NoSecond PROVE NoSecond'
    <2>1. SUFFICES ASSUME step' = "handle", peer'[current'] # NoClient,
                          NEW i \in 1..Len(inbox'[current']),
                          inbox'[current'][i].type = "HELLO"
                   PROVE  FALSE
      BY DEF NoSecond
    <2>2. current' = current /\ step = "handle" /\ peer[current] # NoClient
      BY <1>2, <2>1
    <2>3. current \in Fds BY <2>2 DEF Basis, IInv, HandleControl
    <2>4. \A j \in 1..Len(inbox[current]) : inbox[current][j].type # "HELLO"
      BY <1>12, <2>2 DEF NoSecond
    <2>5. CASE current # fd
      <3>1. inbox'[current] = inbox[current] BY <1>8, <2>3, <2>5
      <3>2. QED BY <2>1, <2>2, <2>4, <3>1
    <2>6. CASE current = fd
      <3>1. at[c] # 0 BY <1>2, <2>2, <2>6 DEF Basis, TalkInv, Fresh
      <3>2. QED BY <1>10, <2>1, <2>2, <2>4, <2>6, <3>1
    <2>7. QED BY <2>5, <2>6
  <1>13. QED BY <1>2, <1>11, <1>12

\* A client that is in step writes: HELLO, before which nothing has come, or
\* something later, which its reads do not depend on.
LEMMA SyncWrite ==
  ASSUME Basis, NEW c \in Clients, Talking(c), InStep(c), HelloWaits(c), Write(c)
  PROVE  Talking(c)' => InStep(c)' /\ HelloWaits(c)'
  <1> DEFINE n == at[c]
  <1>1. Doing(c, "send") /\ UNCHANGED <<clientIDs, peer, gone, backlog>>
    BY WriteHello DEF Write
  <1>2. stream'[c] = stream[c] /\ n \in Nat /\ at'[c] = n + 1
    BY DEF Write, Continue, Basis, ScriptTypes
  <1>3. Lost(c)' = Lost(c) /\ NoRecord(c)' = NoRecord(c) /\ Connection(c)' = Connection(c)
    BY <1>1 DEF Lost, NoRecord, Connection, Open
  <1>4. n < Len(start_client[c]) /\ Len(start_client[c]) \in Nat
        /\ start_client[c][n + 1].do = "send"
    BY <1>1, ScriptsAreScripts, LenProperties DEF Doing, Running
  <1>5. n = 0 \/ n >= 4 BY <1>2, <1>4, NextStatement
  <1>6. Framed(stream'[c]) BY <1>2 DEF InStep
  <1>7. CASE n = 0
    <2>1. stream[c] = <<>> /\ NoRecord(c) BY <1>7 DEF InStep, Due
    <2>2. at'[c] = 1 BY <1>2, <1>7
    <2>3. start_client[c][1 + 1].do # "text"
      <3>1. start_client[c][2].do = "ack" BY ScriptsAreScripts DEF Script
      <3>2. QED BY <3>1
    <2>4. InStep(c)' BY <1>2, <1>3, <1>6, <2>1, <2>2, <2>3 DEF InStep
    <2>5. HelloWaits(c)' BY <1>2, <2>1, <2>2 DEF HelloWaits
    <2>6. QED BY <2>4, <2>5
  <1>8. CASE n >= 4
    <2>1. ASSUME Running(c)' PROVE InStep(c)'
      <3>1. n + 1 < Len(start_client[c]) BY <1>2, <2>1 DEF Running
      <3>2. start_client[c][n + 2].do # "text" BY <1>2, <1>4, <3>1, NextStatement
      <3>3. at'[c] \in Nat /\ at'[c] >= 4 /\ at'[c] + 1 = n + 2 BY <1>2, <1>8
      <3>4. start_client[c][at'[c] + 1].do # "text" BY <3>2, <3>3
      <3>5. stream[c] # <<>> => stream[c][1] \in Units
        BY <1>2, <1>4, <1>8 DEF InStep, Due
      <3>6. QED BY <1>2, <1>3, <1>6, <3>3, <3>4, <3>5, InStepLater
    <2>2. n # 0 /\ n # 1 BY <1>2, <1>8
    <2>3. \A fd \in Connection(c) : ~HelloAt(fd) BY <2>2 DEF HelloWaits
    <2>4. \A fd \in Connection(c) : fd \in Fds BY ConnectionOf
    <2>5. HelloWaits(c)' BY <1>3, <2>2, <2>3, <2>4, WriteHello DEF HelloWaits
    <2>6. QED BY <2>1, <2>5 DEF Talking
  <1>9. QED BY <1>5, <1>7, <1>8

\* A read at end of file.
LEMMA SyncEOF ==
  ASSUME Basis, NEW c \in Clients, ReadEOF(c)
  PROVE  InStep(c)' /\ HelloWaits(c)'
  <1>1. Lost(c) /\ stream'[c] = <<>> /\ UNCHANGED vars BY DEF ReadEOF
  <1>2. Lost(c)' BY <1>1, SameSockets
  <1>3. QED BY <1>1, <1>2, SyncLost

\* A client that hangs up has one connection, and that goes.
LEMMA SyncHangup ==
  ASSUME Basis, OneLine, NEW c \in Clients, Hangup(c)
  PROVE  /\ InStep(c)' /\ HelloWaits(c)'
         /\ UNCHANGED <<step, current, data, clientIDs, peer, inbox, backlog>>
         /\ \A d \in Clients : Connection(d)' \subseteq Connection(d)
  <1>1. stream'[c] = <<>> BY DEF Hangup, Forget, Basis, ScriptTypes
  <1>2. CASE Lost(c) /\ UNCHANGED vars
    <2>1. Lost(c)' /\ \A d \in Clients : Connection(d)' = Connection(d)
      BY <1>2, SameSockets
    <2>2. QED BY <1>1, <1>2, <2>1, SyncLost DEF vars
  <1>3. ASSUME NEW fd \in Connection(c), Disconnect(fd)
        PROVE  /\ InStep(c)' /\ HelloWaits(c)'
               /\ UNCHANGED <<step, current, data, clientIDs, peer, inbox, backlog>>
               /\ \A d \in Clients : Connection(d)' \subseteq Connection(d)
    <2>1. /\ UNCHANGED <<step, current, data, clientIDs, peer, inbox, backlog>>
          /\ gone' = gone \cup {fd}
      BY <1>3 DEF Disconnect, serverVars
    <2>2. \A d \in Clients : Connection(d)' = Connection(d) \ {fd}
      BY <2>1 DEF Connection, Open
    <2>3. Connection(c)' = {} BY <2>2 DEF OneLine
    <2>4. \A i \in 1..Len(backlog') : backlog'[i] # c BY <2>1 DEF OneLine
    <2>5. Lost(c)' BY <2>3, <2>4 DEF Lost
    <2>6. InStep(c)' /\ HelloWaits(c)' BY <1>1, <2>5, SyncLost
    <2>7. QED BY <2>1, <2>2, <2>6
  <1>4. QED BY <1>2, <1>3 DEF Hangup

\* A client that starts has no connection and nothing to read.
LEMMA SyncLaunch ==
  ASSUME Basis, OneLine, NEW c \in Clients, Launch(c)
  PROVE  /\ InStep(c)' /\ HelloWaits(c)' /\ OneLine'
         /\ UNCHANGED <<step, current, data, clientIDs, peer, gone, inbox>>
         /\ \A d \in Clients : Connection(d)' = Connection(d)
         /\ \A d \in Clients \ {c} : Lost(d) => Lost(d)'
  <1>1. /\ ~Connected(c) /\ backlog' = Append(backlog, c)
        /\ UNCHANGED <<step, current, data, clientIDs, peer, gone, inbox>>
    BY DEF Launch, Connect, serverVars
  <1>2. at'[c] = 0 /\ stream'[c] = <<>> BY DEF Launch, Forget, Basis, ScriptTypes
  <1>3. \A d \in Clients : Connection(d)' = Connection(d) BY <1>1 DEF Connection, Open
  <1>4. Connection(c) = {} /\ \A i \in 1..Len(backlog) : backlog[i] # c
    BY <1>1 DEF Connected, Connection, Open
  <1>5. NoRecord(c)' /\ HelloWaits(c)' BY <1>3, <1>4 DEF NoRecord, HelloWaits
  <1>6. InStep(c)'
    <2>1. Len(<<>>) = 0 BY EmptySeq
    <2>2. Framed(<<>>) BY <2>1 DEF Framed
    <2>3. start_client[c][0 + 1].do = "send" BY ScriptsAreScripts DEF Script
    <2>4. QED BY <1>2, <1>5, <2>2, <2>3 DEF InStep
  <1>7. backlog \in Seq(Clients) BY DEF Basis, IInv, TypeOK
  <1>8. /\ Len(backlog') = Len(backlog) + 1 /\ Len(backlog) \in Nat
        /\ \A i \in 1..Len(backlog) : backlog'[i] = backlog[i]
        /\ backlog'[Len(backlog) + 1] = c
    BY <1>1, <1>7, AppendProperties, LenProperties
  <1>9. \A i \in 1..Len(backlog') : i \in 1..Len(backlog) \/ i = Len(backlog) + 1
    BY <1>8
  <1>10. ASSUME NEW i \in 1..Len(backlog')
         PROVE  \/ i \in 1..Len(backlog) /\ backlog'[i] = backlog[i]
                \/ i = Len(backlog) + 1 /\ backlog'[i] = c
    <2>1. CASE i \in 1..Len(backlog) BY <1>8, <2>1
    <2>2. CASE i = Len(backlog) + 1 BY <1>8, <2>2
    <2>3. QED BY <1>9, <2>1, <2>2
  <1>11. OneLine'
    <2>1. ASSUME NEW d \in Clients, NEW i \in 1..Len(backlog'), NEW j \in 1..Len(backlog'),
                 backlog'[i] = d, backlog'[j] = d
          PROVE  i = j
      BY <1>4, <1>10, <2>1 DEF OneLine
    <2>2. ASSUME NEW d \in Clients, NEW f \in Connection(d)', NEW i \in 1..Len(backlog')
          PROVE  backlog'[i] # d
      BY <1>3, <1>4, <1>10, <2>2 DEF OneLine
    <2>3. \A d \in Clients : \A f, g \in Connection(d)' : f = g BY <1>3 DEF OneLine
    <2>4. QED BY <2>1, <2>2, <2>3 DEF OneLine
  <1>12. \A d \in Clients \ {c} : Lost(d) => Lost(d)' BY <1>3, <1>10 DEF Lost
  <1>13. QED BY <1>1, <1>3, <1>5, <1>6, <1>11, <1>12

\* What one client does changes nothing of the other's.
LEMMA OthersStay ==
  ASSUME Basis, NEW c \in Clients, ClientStep(c) \/ Launch(c), NEW d \in Clients, d # c
  PROVE  /\ at'[d] = at[d] /\ stream'[d] = stream[d]
         /\ d \in greedy => d \in greedy'
         /\ d \in killed => d \in killed'
  <1>1. ASSUME NEW n, Continue(c, n) PROVE at'[d] = at[d]
    BY <1>1 DEF Continue, Basis, ScriptTypes
  <1>2. ASSUME NEW n, Take(c, n) PROVE stream'[d] = stream[d]
    BY <1>2 DEF Take, Basis, ScriptTypes
  <1>3. ASSUME Forget(c) PROVE stream'[d] = stream[d]
    BY <1>3 DEF Forget, Basis, ScriptTypes
  <1>4. CASE Write(c) BY <1>1, <1>4 DEF Write
  <1>5. CASE WriteToNobody(c) BY <1>1, <1>3, <1>5 DEF WriteToNobody, Die
  <1>6. CASE ReadAck(c) BY <1>1, <1>2, <1>6 DEF ReadAck
  <1>7. CASE ReadList(c)
    <2>1. at'[d] = at[d] BY <1>1, <1>7 DEF ReadList
    <2>2. QED BY <1>2, <1>7, <2>1 DEF ReadList
  <1>8. CASE ReadChat(c) BY <1>1, <1>2, <1>3, <1>8 DEF ReadChat, Die
  <1>9. CASE ReadText(c) BY <1>1, <1>2, <1>9 DEF ReadText
  <1>10. CASE ReadEOF(c)
    <2>1. Continue(c, 1) \/ Continue(c, 2) BY <1>10 DEF ReadEOF
    <2>2. QED BY <1>1, <1>10, <2>1 DEF ReadEOF
  <1>11. CASE Hangup(c) BY <1>1, <1>3, <1>11 DEF Hangup
  <1>12. CASE Launch(c)
    <2>1. at'[d] = at[d] BY <1>12 DEF Launch, Basis, ScriptTypes
    <2>2. QED BY <1>3, <1>12, <2>1 DEF Launch
  <1>13. QED
    BY <1>4, <1>5, <1>6, <1>7, <1>8, <1>9, <1>10, <1>11, <1>12 DEF ClientStep

\* A step of a client keeps everybody in step.
LEMMA SyncClient ==
  ASSUME Basis, SyncInv, NEW c \in Clients, ClientStep(c)
  PROVE  SyncInv'
  <1>1. OneLine /\ NoSecond /\ (Talking(c) => InStep(c) /\ HelloWaits(c)) BY DEF SyncInv, Sync
  <1>2. c \notin killed /\ ~Hangup(c) => Running(c)
    BY DEF ClientStep, Write, WriteToNobody, ReadAck, ReadList, ReadChat, ReadText, ReadEOF, Doing
  <1>3. CASE Hangup(c)
    <2>1. /\ InStep(c)' /\ HelloWaits(c)'
          /\ UNCHANGED <<step, current, data, clientIDs, peer, inbox, backlog>>
          /\ \A d \in Clients : Connection(d)' \subseteq Connection(d)
      BY <1>1, <1>3, SyncHangup
    <2>2. OneLine' /\ \A d \in Clients : Lost(d) => Lost(d)' BY <1>1, <2>1, OneLineLess
    <2>3. NoSecond' BY <1>1, <2>1 DEF NoSecond
    <2>4. \A d : HelloAt(d)' = HelloAt(d) BY <2>1 DEF HelloAt
    <2>5. ASSUME NEW d \in Clients, d # c PROVE Talking(d)' => InStep(d)' /\ HelloWaits(d)'
      <3>1. NoRecord(d) => NoRecord(d)' BY <2>1 DEF NoRecord
      <3>2. \A fd \in Connection(d)' : HelloAt(fd)' => fd \in Connection(d) /\ HelloAt(fd)
        BY <2>1, <2>4
      <3>3. /\ at'[d] = at[d] /\ stream'[d] = stream[d]
            /\ (d \in greedy => d \in greedy') /\ (d \in killed => d \in killed')
        BY <2>5, OthersStay
      <3>4. Talking(d) => InStep(d) /\ HelloWaits(d) BY DEF SyncInv, Sync
      <3>5. QED BY <2>2, <3>1, <3>2, <3>3, <3>4, Bystander
    <2>6. QED BY <2>1, <2>2, <2>3, <2>5 DEF SyncInv, Sync
  <1>4. CASE Write(c)
    <2>1. /\ UNCHANGED <<step, current, data, clientIDs, container, peer, gone, backlog>>
          /\ NoSecond'
      BY <1>1, <1>4, WriteHello
    <2>2. PICK fd \in Connection(c) : \A g \in Fds :
            HelloAt(g)' => HelloAt(g) \/ (g = fd /\ at[c] = 0)
      BY <1>4, WriteHello
    <2>3. \A d \in Clients : Connection(d)' = Connection(d) BY <2>1 DEF Connection, Open
    <2>4. OneLine' /\ \A d \in Clients : Lost(d) => Lost(d)' BY <1>1, <2>1, <2>3, OneLineLess
    <2>5. ASSUME NEW d \in Clients, d # c PROVE Talking(d)' => InStep(d)' /\ HelloWaits(d)'
      <3>1. NoRecord(d) => NoRecord(d)' BY <2>1, <2>3 DEF NoRecord
      <3>2. \A g \in Connection(d)' : g \in Connection(d) /\ g \in Fds /\ g # fd
        BY <2>3, <2>5, ConnectionOf
      <3>3. \A g \in Connection(d)' : HelloAt(g)' => g \in Connection(d) /\ HelloAt(g)
        BY <2>2, <3>2
      <3>4. /\ at'[d] = at[d] /\ stream'[d] = stream[d]
            /\ (d \in greedy => d \in greedy') /\ (d \in killed => d \in killed')
        BY <2>5, OthersStay
      <3>5. Talking(d) => InStep(d) /\ HelloWaits(d) BY DEF SyncInv, Sync
      <3>6. QED BY <2>4, <3>1, <3>3, <3>4, <3>5, Bystander
    <2>6. Talking(c)' => Talking(c)
      BY <1>2, <1>4 DEF Write, Doing, Talking
    <2>7. Talking(c)' => InStep(c)' /\ HelloWaits(c)' BY <1>1, <1>4, <2>6, SyncWrite
    <2>8. QED BY <2>1, <2>4, <2>5, <2>7 DEF SyncInv, Sync
  <1>5. CASE WriteToNobody(c) \/ ReadAck(c) \/ ReadList(c) \/ ReadChat(c) \/ ReadText(c)
             \/ ReadEOF(c)
    <2>1. UNCHANGED vars
      BY <1>5 DEF WriteToNobody, ReadAck, ReadList, ReadChat, ReadText, ReadEOF
    <2>2. \A d \in Clients : /\ Lost(d)' = Lost(d) /\ NoRecord(d)' = NoRecord(d)
                             /\ Connection(d)' = Connection(d)
                             /\ \A fd : HelloAt(fd)' = HelloAt(fd)
      BY <2>1, SameSockets
    <2>3. UNCHANGED backlog /\ NoSecond' BY <1>1, <2>1 DEF vars, NoSecond
    <2>4. OneLine' BY <1>1, <2>2, <2>3, OneLineLess
    <2>5. ASSUME NEW d \in Clients, d # c PROVE Talking(d)' => InStep(d)' /\ HelloWaits(d)'
      <3>1. /\ at'[d] = at[d] /\ stream'[d] = stream[d]
            /\ (d \in greedy => d \in greedy') /\ (d \in killed => d \in killed')
        BY <2>5, OthersStay
      <3>2. Talking(d) => InStep(d) /\ HelloWaits(d) BY DEF SyncInv, Sync
      <3>3. \A fd \in Connection(d)' : HelloAt(fd)' => fd \in Connection(d) /\ HelloAt(fd)
        BY <2>2
      <3>4. (Lost(d) => Lost(d)') /\ (NoRecord(d) => NoRecord(d)') BY <2>2
      <3>5. QED BY <3>1, <3>2, <3>3, <3>4, Bystander
    <2>6. Talking(c)' => Talking(c)
      BY <1>5 DEF Talking, WriteToNobody, ReadAck, ReadList, ReadChat, ReadText, ReadEOF, Doing
    <2>7. Talking(c)' => InStep(c)' /\ HelloWaits(c)'
      BY <1>1, <1>5, <2>6, SyncToNobody, SyncAck, SyncList, SyncChat, SyncText, SyncEOF
    <2>8. QED BY <2>3, <2>4, <2>5, <2>7 DEF SyncInv, Sync
  <1>6. QED BY <1>3, <1>4, <1>5 DEF ClientStep

\* So does the start of one.
LEMMA SyncStart ==
  ASSUME Basis, SyncInv, NEW c \in Clients, Launch(c)
  PROVE  SyncInv'
  <1>1. OneLine /\ NoSecond BY DEF SyncInv
  <1>2. /\ InStep(c)' /\ HelloWaits(c)' /\ OneLine'
        /\ UNCHANGED <<step, current, data, clientIDs, peer, gone, inbox>>
        /\ \A d \in Clients : Connection(d)' = Connection(d)
        /\ \A d \in Clients \ {c} : Lost(d) => Lost(d)'
    BY <1>1, SyncLaunch
  <1>3. NoSecond' BY <1>1, <1>2 DEF NoSecond
  <1>4. ASSUME NEW d \in Clients, d # c PROVE Talking(d)' => InStep(d)' /\ HelloWaits(d)'
    <2>1. /\ at'[d] = at[d] /\ stream'[d] = stream[d]
          /\ (d \in greedy => d \in greedy') /\ (d \in killed => d \in killed')
      BY <1>4, OthersStay
    <2>2. Talking(d) => InStep(d) /\ HelloWaits(d) BY DEF SyncInv, Sync
    <2>3. \A fd \in Connection(d)' : HelloAt(fd)' => fd \in Connection(d) /\ HelloAt(fd)
      BY <1>2 DEF HelloAt
    <2>4. NoRecord(d) => NoRecord(d)' BY <1>2 DEF NoRecord
    <2>5. QED BY <1>2, <1>4, <2>1, <2>2, <2>3, <2>4, Bystander
  <1>5. QED BY <1>2, <1>3, <1>4 DEF SyncInv, Sync

-----------------------------------------------------------------------------
(* The server's steps *)

\* Steps of the server that write nothing, add no record and no connection.
LEMMA SyncLess ==
  ASSUME SyncInv, UNCHANGED clientVars, UNCHANGED backlog, NoSecond',
         Entries(clientIDs') \subseteq Entries(clientIDs),
         \A c \in Clients : /\ Connection(c)' \subseteq Connection(c)
                            /\ \A fd \in Connection(c)' : HelloAt(fd)' => HelloAt(fd)
  PROVE  SyncInv'
  <1>1. OneLine' /\ \A d \in Clients : Lost(d) => Lost(d)' BY OneLineLess DEF SyncInv
  <1>2. ASSUME NEW d \in Clients PROVE Talking(d)' => InStep(d)' /\ HelloWaits(d)'
    <2>1. /\ at'[d] = at[d] /\ stream'[d] = stream[d]
          /\ (d \in greedy => d \in greedy') /\ (d \in killed => d \in killed')
      BY DEF clientVars
    <2>2. Talking(d) => InStep(d) /\ HelloWaits(d) BY DEF SyncInv, Sync
    <2>3. \A fd \in Connection(d)' : HelloAt(fd)' => fd \in Connection(d) /\ HelloAt(fd)
      OBVIOUS
    <2>4. NoRecord(d) => NoRecord(d)' BY DEF NoRecord
    <2>5. QED BY <1>1, <2>1, <2>2, <2>3, <2>4, Bystander
  <1>3. QED BY <1>1, <1>2 DEF SyncInv, Sync

\* Sweeping a stale partial message.
LEMMA SyncDiscard ==
  ASSUME Basis, SyncInv, DiscardStale, UNCHANGED clientVars
  PROVE  SyncInv'
  <1>1. step' # "handle" /\ UNCHANGED backlog BY DEF DiscardStale
  <1>2. PICK fd \in stale :
          \/ /\ clientIDs' = List_remove(clientIDs, List_getClientID(clientIDs, fd))
             /\ CloseSockets({fd})
          \/ UNCHANGED <<clientIDs, peer, gone, inbox>>
    BY DEF DiscardStale
  <1>3. NoSecond' BY <1>1 DEF NoSecond
  <1>4. CASE UNCHANGED <<clientIDs, peer, gone, inbox>>
    <2>1. \A c \in Clients : Connection(c)' = Connection(c) BY <1>4 DEF Connection, Open
    <2>2. \A g : HelloAt(g)' => HelloAt(g) BY <1>1, <1>4 DEF HelloAt
    <2>3. Entries(clientIDs') \subseteq Entries(clientIDs) BY <1>4
    <2>4. QED BY <1>1, <1>3, <2>1, <2>2, <2>3, SyncLess
  <1>5. CASE /\ clientIDs' = List_remove(clientIDs, List_getClientID(clientIDs, fd))
             /\ CloseSockets({fd})
    <2>1. Entries(clientIDs') \subseteq Entries(clientIDs)
      BY <1>5, InvRegistry, RemoveEntries DEF Basis
    <2>2. \A c \in Clients : /\ Connection(c)' \subseteq Connection(c)
                             /\ \A g \in Connection(c)' : inbox'[g] = inbox[g]
      BY <1>5, CloseConnections
    <2>3. \A c \in Clients : \A g \in Connection(c)' : HelloAt(g)' => HelloAt(g)
      BY <1>1, <2>2 DEF HelloAt
    <2>4. QED BY <1>1, <1>3, <2>1, <2>2, <2>3, SyncLess
  <1>6. QED BY <1>2, <1>4, <1>5

\* Reading a part of what has arrived: a HELLO that was waiting is handled.
LEMMA SyncRead ==
  ASSUME Basis, SyncInv, NEW fd \in Fds, Read(fd), UNCHANGED clientVars
  PROVE  SyncInv'
  <1>1. UNCHANGED <<clientIDs, peer, gone, backlog>> /\ step = "serve" BY DEF Read
  <1>2. \A c \in Clients : Connection(c)' = Connection(c) BY <1>1 DEF Connection, Open
  <1>3. inbox[fd] \in Seq(Cells) /\ inbox \in [Fds -> Seq(Cells)]
    BY DEF Basis, IInv, TypeOK
  <1>4. Len(inbox[fd]) \in Nat BY <1>3, LenProperties
  <1>5. CASE step' # "handle" /\ UNCHANGED inbox
    <2>1. \A g : HelloAt(g)' => HelloAt(g) BY <1>5 DEF HelloAt
    <2>2. NoSecond' BY <1>5 DEF NoSecond
    <2>3. QED BY <1>1, <1>2, <2>1, <2>2, SyncLess
  <1>6. ASSUME NEW n \in 1..Len(inbox[fd]),
               data' = SubSeq(inbox[fd], 1, n),
               inbox' = [inbox EXCEPT ![fd] = SubSeq(inbox[fd], n + 1, Len(inbox[fd]))],
               current' = fd, step' = "handle"
        PROVE  SyncInv'
    <2>1. /\ inbox'[fd] = SubSeq(inbox[fd], n + 1, Len(inbox[fd]))
          /\ \A g \in Fds \ {fd} : inbox'[g] = inbox[g]
      BY <1>3, <1>6
    <2>2. ASSUME NEW i \in 1..Len(inbox'[fd])
          PROVE  \E j \in 1..Len(inbox[fd]) : j # 1 /\ inbox'[fd][i] = inbox[fd][j]
      <3>1. /\ (n + 1) + i - 1 \in 1..Len(inbox[fd]) /\ i \in Nat /\ i >= 1
            /\ inbox'[fd][i] = inbox[fd][(n + 1) + i - 1]
        BY <1>3, <1>4, <2>1, PartElements
      <3>2. (n + 1) + i - 1 # 1 BY <1>4, <3>1
      <3>3. QED BY <3>1, <3>2
    <2>3. data'[1] = inbox[fd][1] /\ 1 \in 1..Len(inbox[fd])
      <3>1. \A j \in 1..n : inbox[fd][j] \in Cells BY <1>3, <1>4, ElementOfSeq
      <3>2. \A j \in 1..(n - 1 + 1) : data'[j] = inbox[fd][1 + j - 1]
        BY <1>4, <1>6, <3>1, SubSeqProperties
      <3>3. 1 \in 1..(n - 1 + 1) /\ 1 + 1 - 1 = 1 /\ 1 \in 1..Len(inbox[fd]) BY <1>4
      <3>4. data'[1] = inbox[fd][1 + 1 - 1] BY <3>2, <3>3
      <3>5. QED BY <3>3, <3>4
    <2>4. ASSUME NEW g \in Fds, HelloAt(g)' PROVE HelloAt(g)
      <3>1. CASE g # fd BY <1>6, <2>1, <2>4, <3>1 DEF HelloAt
      <3>2. CASE g = fd
        <4>1. CASE data'[1].type = "HELLO" BY <2>3, <3>2, <4>1 DEF HelloAt
        <4>2. CASE \E i \in 1..Len(inbox'[fd]) : inbox'[fd][i].type = "HELLO"
          <5>1. PICK i \in 1..Len(inbox'[fd]) : inbox'[fd][i].type = "HELLO" BY <4>2
          <5>2. PICK j \in 1..Len(inbox[fd]) : inbox'[fd][i] = inbox[fd][j] BY <2>2
          <5>3. QED BY <3>2, <5>1, <5>2 DEF HelloAt
        <4>3. QED BY <2>4, <3>2, <4>1, <4>2 DEF HelloAt
      <3>3. QED BY <3>1, <3>2
    <2>5. \A c \in Clients : \A g \in Connection(c)' : HelloAt(g)' => HelloAt(g)
      BY <1>2, <2>4, ConnectionOf
    <2>6. \A i \in 1..Len(inbox'[fd]) : inbox'[fd][i].type # "HELLO"
      BY <2>2 DEF Basis, TalkInv, InboxHeard
    <2>7. NoSecond' BY <1>6, <2>6 DEF NoSecond
    <2>8. QED BY <1>1, <1>2, <2>5, <2>7, SyncLess
  <1>7. CASE /\ inbox[fd] # <<>>
             /\ \E n \in 1..Len(inbox[fd]) :
                  /\ data' = SubSeq(inbox[fd], 1, n)
                  /\ inbox' = [inbox EXCEPT ![fd] = SubSeq(@, n + 1, Len(@))]
             /\ current' = fd /\ step' = "handle"
    BY <1>6, <1>7
  <1>8. QED BY <1>5, <1>7 DEF Read

\* Accepting a connection, or losing it: nobody is on record at the new
\* descriptor, and nothing has been said there.
LEMMA SyncAccept ==
  ASSUME Basis, SyncInv, Accept, UNCHANGED clientVars
  PROVE  SyncInv'
  <1>1. /\ step' = "top" /\ UNCHANGED <<clientIDs, gone, inbox>>
        /\ backlog # <<>> /\ backlog' = Tail(backlog)
    BY DEF Accept
  <1>2. backlog \in Seq(Clients) BY DEF Basis, IInv, TypeOK
  <1>3. /\ Len(backlog) \in Nat /\ Len(backlog) # 0 /\ Head(backlog) = backlog[1]
        /\ 1 \in 1..Len(backlog)
    <2>1. Len(backlog) \in Nat /\ Len(backlog) # 0 BY <1>1, <1>2, EmptySeq, LenProperties
    <2>2. QED BY <1>1, <1>2, <2>1, HeadTailProperties
  <1>4. PICK c0 \in Clients : c0 = backlog[1] BY <1>2, <1>3, ElementOfSeq
  <1>5. backlog' = SubSeq(backlog, 2, Len(backlog)) BY <1>1, <1>2
  <1>6. ASSUME NEW i \in 1..Len(backlog')
        PROVE  i + 1 \in 1..Len(backlog) /\ i + 1 # 1 /\ backlog'[i] = backlog[i + 1]
    <2>1. /\ 2 + i - 1 \in 1..Len(backlog) /\ i \in Nat /\ i >= 1
          /\ backlog'[i] = backlog[2 + i - 1]
      BY <1>2, <1>3, <1>5, PartElements
    <2>2. 2 + i - 1 = i + 1 /\ i + 1 # 1 BY <2>1
    <2>3. QED BY <2>1, <2>2
  <1>7. OneLine BY DEF SyncInv
  <1>8. \A i \in 1..Len(backlog') : backlog'[i] # c0 BY <1>3, <1>4, <1>6, <1>7 DEF OneLine
  <1>9. ASSUME NEW c \in Clients, NEW i \in 1..Len(backlog'), NEW j \in 1..Len(backlog'),
               backlog'[i] = c, backlog'[j] = c
        PROVE  i = j
    <2>1. i + 1 = j + 1 BY <1>6, <1>7, <1>9 DEF OneLine
    <2>2. Len(backlog') \in Nat
      BY <1>2, <1>3, <1>5, HeadTailProperties, LenProperties
    <2>3. i \in Nat /\ j \in Nat BY <2>2
    <2>4. QED BY <2>1, <2>3
  <1>10. NoSecond' BY <1>1 DEF NoSecond
  <1>11. CASE UNCHANGED peer
    <2>1. \A c \in Clients : Connection(c)' = Connection(c) BY <1>1, <1>11 DEF Connection, Open
    <2>2. OneLine' BY <1>6, <1>7, <1>9, <2>1 DEF OneLine
    <2>3. ASSUME NEW d \in Clients PROVE Talking(d)' => InStep(d)' /\ HelloWaits(d)'
      <3>1. /\ at'[d] = at[d] /\ stream'[d] = stream[d]
            /\ (d \in greedy => d \in greedy') /\ (d \in killed => d \in killed')
        BY DEF clientVars
      <3>2. Talking(d) => InStep(d) /\ HelloWaits(d) BY DEF SyncInv, Sync
      <3>3. Lost(d) => Lost(d)' BY <1>6, <2>1 DEF Lost
      <3>4. NoRecord(d) => NoRecord(d)' BY <1>1, <2>1 DEF NoRecord
      <3>5. \A fd \in Connection(d)' : HelloAt(fd)' => fd \in Connection(d) /\ HelloAt(fd)
        BY <1>1, <2>1 DEF HelloAt
      <3>6. QED BY <3>1, <3>2, <3>3, <3>4, <3>5, Bystander
    <2>4. QED BY <1>10, <2>2, <2>3 DEF SyncInv, Sync
  <1>12. ASSUME NEW fd \in Fds \ Open, peer' = [peer EXCEPT ![fd] = Head(backlog)]
         PROVE  SyncInv'
    <2>1. /\ peer[fd] = NoClient /\ peer'[fd] = c0
          /\ \A g \in Fds \ {fd} : peer'[g] = peer[g]
      BY <1>3, <1>4, <1>12 DEF Open, Basis, IInv, TypeOK
    <2>2. Connection(c0) = {} BY <1>3, <1>4, <1>7 DEF OneLine
    <2>3. Connection(c0)' \subseteq {fd}
      BY <1>1, <1>4, <2>1, <2>2, ConnectionOf DEF Connection, Open
    <2>4. ASSUME NEW d \in Clients, d # c0 PROVE Connection(d)' = Connection(d)
      <3>1. d # NoClient BY ClientAssumption
      <3>2. QED BY <1>1, <2>1, <2>4, <3>1 DEF Connection, Open
    <2>5. OneLine'
      <3>1. \A c \in Clients : \A f, g \in Connection(c)' : f = g
        BY <1>7, <2>3, <2>4 DEF OneLine
      <3>2. ASSUME NEW c \in Clients, NEW f \in Connection(c)', NEW i \in 1..Len(backlog')
            PROVE  backlog'[i] # c
        <4>1. CASE c = c0 BY <1>8, <4>1
        <4>2. CASE c # c0 BY <1>6, <1>7, <2>4, <3>2, <4>2 DEF OneLine
        <4>3. QED BY <4>1, <4>2
      <3>3. QED BY <1>9, <3>1, <3>2 DEF OneLine
    <2>6. inbox[fd] = inbox'[fd] /\ \A i \in 1..Len(inbox[fd]) : FALSE
      BY <1>1, <2>1 DEF Basis, TalkInv, InboxHeard
    <2>7. ~HelloAt(fd)' BY <1>1, <2>6 DEF HelloAt
    <2>8. \A e \in Entries(clientIDs) : e.fd # fd
      BY <2>1 DEF Basis, TalkInv, Linked
    <2>9. ~Lost(c0) BY <1>3, <1>4 DEF Lost
    <2>10. ASSUME NEW d \in Clients PROVE Talking(d)' => InStep(d)' /\ HelloWaits(d)'
      <3>1. /\ at'[d] = at[d] /\ stream'[d] = stream[d]
            /\ (d \in greedy => d \in greedy') /\ (d \in killed => d \in killed')
        BY DEF clientVars
      <3>2. Talking(d) => InStep(d) /\ HelloWaits(d) BY DEF SyncInv, Sync
      <3>3. Lost(d) => Lost(d)'
        <4>1. ASSUME d # c0, Lost(d) PROVE Lost(d)' BY <1>6, <2>4, <4>1 DEF Lost
        <4>2. QED BY <2>9, <4>1
      <3>4. NoRecord(d) => NoRecord(d)'
        <4>1. Connection(d)' \subseteq Connection(d) \cup {fd} BY <2>3, <2>4
        <4>2. QED BY <1>1, <2>8, <4>1 DEF NoRecord
      <3>5. \A g \in Connection(d)' : HelloAt(g)' => g \in Connection(d) /\ HelloAt(g)
        <4>1. CASE d = c0 BY <2>3, <2>7, <4>1
        <4>2. CASE d # c0 BY <1>1, <2>4, <4>2 DEF HelloAt
        <4>3. QED BY <4>1, <4>2
      <3>6. QED BY <3>1, <3>2, <3>3, <3>4, <3>5, Bystander
    <2>11. QED BY <1>10, <2>5, <2>10 DEF SyncInv, Sync
  <1>13. QED BY <1>11, <1>12 DEF Accept

\* A client on record that is sent a chat, or told that one is not delivered,
\* stays in step: it has been greeted, and is not in the middle of a group.
LEMMA SyncChatCells ==
  ASSUME Basis, NEW c \in Clients, Talking(c), InStep(c), ~NoRecord(c), ~Lost(c),
         at'[c] = at[c],
         NEW u \in {<<"CHAT", "TEXT">>, <<"CANNOT_DELIVER">>}, stream'[c] = stream[c] \o u
  PROVE  InStep(c)'
  <1> DEFINE s == stream[c]
             t == stream'[c]
             n == at[c]
  <1>1. s \in Seq(Replies) /\ Framed(s) /\ n \in Nat
    BY DEF Basis, ScriptTypes, InStep
  <1>2. /\ Framed(t) /\ t # <<>>
        /\ s # <<>> => t[1] = s[1]
        /\ s = <<>> => t[1] \in Units
    BY <1>1, FramedMore
  <1>3. CASE s # <<>>
    <2>1. Due(c, n, s[1]) /\ s[1] # "CLIENT_PRESENT" BY <1>3 DEF InStep
    <2>2. Due(c, n, t[1]) /\ t[1] # "CLIENT_PRESENT" BY <1>2, <1>3, <2>1
    <2> HIDE DEF t, n
    <2>3. QED BY <1>2, <2>2 DEF InStep, t, n
  <1>4. CASE s = <<>>
    <2>1. n \notin {0, 1} /\ n \notin {2, 3} /\ start_client[c][n + 1].do # "text"
      BY <1>4 DEF InStep
    <2>2. n >= 4 BY <1>1, <2>1
    <2>3. t[1] \in Units BY <1>2, <1>4
    <2>4. t[1] # "CLIENT_PRESENT" BY <2>3 DEF Units
    <2>5. Due(c, n, t[1]) BY <2>1, <2>2, <2>3 DEF Due
    <2> HIDE DEF t, n
    <2>6. QED BY <1>2, <2>4, <2>5 DEF InStep, t, n
  <1>5. QED BY <1>3, <1>4

\* A client whose HELLO is answered is sent the list, or is told that its
\* name is taken and closed.
LEMMA SyncGreeting ==
  ASSUME OneLine, NEW c \in Clients, InStep(c), HelloWaits(c),
         NEW fd \in Connection(c), HelloAt(fd),
         at'[c] = at[c], Connection(c)' \subseteq Connection(c), NEW u,
         \/ u = <<"CLIENT_PRESENT">> /\ fd \notin Connection(c)' /\ UNCHANGED backlog
         \/ /\ u = <<"HELLO_ACK", "CLIENT_LIST", "IDS">>
            /\ fd \in Connection(c)' => ~HelloAt(fd)',
         stream'[c] = stream[c] \o u
  PROVE  InStep(c)' /\ HelloWaits(c)'
  <1>1. at[c] = 1 /\ stream[c] = <<>> BY DEF HelloWaits
  <1>2. \A g \in Connection(c)' : g = fd BY DEF OneLine
  <1>3. /\ "HELLO_ACK" \in Replies /\ "CLIENT_LIST" \in Replies /\ "IDS" \in Replies
        /\ "CLIENT_PRESENT" \in Replies
    BY DEF Replies
  <1>4. <<>> \o u = u
    <2>1. CASE u = <<"CLIENT_PRESENT">>
      <3>1. u \in Seq(Replies) BY <1>3, <2>1
      <3>2. QED BY <3>1, ConcatEmptySeq
    <2>2. CASE u = <<"HELLO_ACK", "CLIENT_LIST", "IDS">>
      <3>1. u \in Seq(Replies) BY <1>3, <2>2
      <3>2. QED BY <3>1, ConcatEmptySeq
    <2>3. QED BY <2>1, <2>2
  <1>5. stream'[c] = u BY <1>1, <1>4
  <1>6. CASE u = <<"CLIENT_PRESENT">> /\ fd \notin Connection(c)' /\ UNCHANGED backlog
    <2>1. Connection(c)' = {} BY <1>2, <1>6
    <2>2. \A i \in 1..Len(backlog') : backlog'[i] # c BY <1>6 DEF OneLine
    <2>3. Lost(c)' BY <2>1, <2>2 DEF Lost
    <2>4. HelloWaits(c)' BY <2>1 DEF HelloWaits
    <2>5. u # <<>> /\ Len(u) = 1 /\ u[1] = "CLIENT_PRESENT" BY <1>6
    <2>6. Framed(u) /\ Due(c, 1, u[1]) BY <2>5 DEF Framed, Due, Ends
    <2> HIDE DEF Framed, Due
    <2>7. InStep(c)' BY <1>1, <1>5, <2>3, <2>5, <2>6 DEF InStep
    <2>8. QED BY <2>4, <2>7
  <1>7. CASE /\ u = <<"HELLO_ACK", "CLIENT_LIST", "IDS">>
             /\ fd \in Connection(c)' => ~HelloAt(fd)'
    <2>1. /\ Len(u) = 3 /\ u[1] = "HELLO_ACK" /\ u[2] = "CLIENT_LIST" /\ u[3] = "IDS"
          /\ u # <<>>
      BY <1>7
    <2>2. Framed(u)
      <3>1. \A i \in 1..2 : i = 1 \/ i = 2 OBVIOUS
      <3>2. \A i \in 1..2 : Follow(u[i], u[i + 1]) BY <2>1, <3>1 DEF Follow
      <3>3. QED BY <2>1, <3>2 DEF Framed, Ends
    <2>3. Due(c, 1, u[1]) BY <2>1 DEF Due
    <2>4. HelloWaits(c)'
      <3>1. \A g \in Connection(c)' : ~HelloAt(g)' BY <1>2, <1>7
      <3>2. QED BY <3>1 DEF HelloWaits
    <2>5. InStep(c)' BY <1>1, <1>5, <2>1, <2>2, <2>3 DEF InStep
    <2>6. QED BY <2>4, <2>5
  <1>8. QED BY <1>6, <1>7

\* Answering a message.
LEMMA SyncAnswer ==
  ASSUME Basis, SyncInv, Answer
  PROVE  SyncInv'
  <1> DEFINE m == Completed.message
             rest == Completed.rest
  <1>1. MessageComplete BY DEF Answer
  <1>2. IInv /\ TalkInv /\ OneLine /\ NoSecond BY DEF Basis, SyncInv
  <1>3. m \in Messages /\ rest \in Seq(Cells) /\ current \in Fds
        /\ step = "handle"
    BY <1>1, <1>2, CompletedType DEF MessageComplete
  <1>4. /\ Proper(m) /\ Spoken(clientIDs, peer, m, current)
        /\ m.type = "HELLO" => data[1].type = "HELLO"
        /\ \A i \in 1..Len(rest) : rest[i].type # "HELLO"
    BY <1>1, <1>2, CompletedHeard
  <1>5. PICK o \in process(clientIDs, m, current) :
          ProcessWith(o) /\ stream' = Delivered(o)
    BY DEF Answer
  <1>6. /\ clientIDs' = o.list /\ CloseSockets(o.closed) /\ data' = rest
        /\ current' = IF rest = <<>> THEN NoFd ELSE current
        /\ step' = IF rest # <<>> THEN "handle" ELSE IF ready = {} THEN "top" ELSE "serve"
        /\ UNCHANGED backlog
    BY <1>5 DEF ProcessWith, Advance
  <1>7. UNCHANGED <<at, greedy, killed>> BY DEF Answer
  <1>8. /\ Refused(clientIDs, m, current, o) \/ Present(clientIDs, m, current, o)
           \/ Welcomed(clientIDs, m, current, o) \/ Listed(clientIDs, m, current, o)
           \/ Passed(clientIDs, m, current, o) \/ Undeliverable(clientIDs, m, current, o)
           \/ Left(clientIDs, m, current, o)
        /\ IsRegistry(clientIDs)
    BY <1>2, <1>3, ProcessEffect, InvRegistry
  <1>9. \A e \in Entries(o.list) :
          \/ e \in Entries(clientIDs)
          \/ e = Entry_new(m.source, current) /\ o.to = current
    BY <1>2, <1>3, <1>4, <1>8, RecordsLeft DEF TalkInv
  <1> HIDE DEF m, rest
  <1>10. \A c \in Clients : /\ Connection(c)' \subseteq Connection(c)
                            /\ \A fd \in Connection(c)' : fd \notin o.closed /\ inbox'[fd] = inbox[fd]
    BY <1>6, CloseConnections
  <1>11. OneLine' /\ \A c \in Clients : Lost(c) => Lost(c)'
    BY <1>2, <1>6, <1>10, OneLineLess
  <1>12. ~(step' = "handle" /\ data'[1].type = "HELLO")
    <2>1. ASSUME step' = "handle" PROVE 1 \in 1..Len(rest)
      <3>1. rest # <<>> BY <1>6, <2>1
      <3>2. Len(rest) \in Nat /\ Len(rest) # 0 BY <1>3, <3>1, EmptySeq, LenProperties
      <3>3. QED BY <3>2
    <2>2. QED BY <1>4, <1>6, <2>1
  <1>13. ASSUME NEW c \in Clients, NEW fd \in Connection(c)', HelloAt(fd)' PROVE HelloAt(fd)
    BY <1>10, <1>12, <1>13 DEF HelloAt
  <1>14. NoSecond'
    <2>1. ASSUME step' = "handle", peer'[current'] # NoClient
          PROVE  current' = current /\ peer[current] # NoClient /\ inbox'[current] = inbox[current]
      <3>1. current' = current BY <1>6, <2>1
      <3>2. QED BY <1>3, <1>6, <2>1, <3>1 DEF CloseSockets
    <2>2. QED BY <1>2, <1>3, <2>1 DEF NoSecond
  <1>15. ASSUME NEW c \in Clients, o.to \notin Connection(c)
         PROVE  Talking(c)' => InStep(c)' /\ HelloWaits(c)'
    <2>1. stream'[c] = stream[c] BY <1>5, <1>15 DEF Delivered
    <2>2. NoRecord(c) => NoRecord(c)'
      <3>1. ASSUME NEW e \in Entries(clientIDs'), e.fd \in Connection(c)'
            PROVE  e \in Entries(clientIDs) /\ e.fd \in Connection(c)
        <4>1. e.fd \in Connection(c) BY <1>10, <3>1
        <4>2. e # Entry_new(m.source, current) \/ o.to # current
          BY <1>15, <4>1 DEF Entry_new
        <4>3. QED BY <1>6, <1>9, <4>1, <4>2
      <3>2. QED BY <3>1 DEF NoRecord
    <2>3. \A fd \in Connection(c)' : HelloAt(fd)' => fd \in Connection(c) /\ HelloAt(fd)
      BY <1>10, <1>13
    <2>4. /\ at'[c] = at[c] /\ (Lost(c) => Lost(c)')
          /\ (c \in greedy => c \in greedy') /\ (c \in killed => c \in killed')
      BY <1>7, <1>11
    <2>5. Talking(c) => InStep(c) /\ HelloWaits(c) BY DEF SyncInv, Sync
    <2>6. QED BY <2>1, <2>2, <2>3, <2>4, <2>5, Bystander
  <1>16. ASSUME NEW c \in Clients, o.to \in Connection(c), Talking(c)'
         PROVE  InStep(c)' /\ HelloWaits(c)'
    <2>1. /\ Talking(c) /\ InStep(c) /\ HelloWaits(c) /\ at'[c] = at[c]
      BY <1>7, <1>16 DEF Talking, Running, SyncInv, Sync
    <2>2. stream'[c] = stream[c] \o o.cells BY <1>5, <1>16 DEF Delivered
    <2>3. o.to \in Fds /\ NoFd \notin Fds
      <3>1. o.to \in Fds BY <1>16, ConnectionOf
      <3>2. \A fd \in Fds : fd # 0 BY BoundAssumption DEF Fds
      <3>3. QED BY <3>1, <3>2 DEF NoFd
    <2>4. m.type = "HELLO" => HelloAt(current) BY <1>3, <1>4 DEF HelloAt
    <2>5. ASSUME o.cells \in {<<"CHAT", "TEXT">>, <<"CANNOT_DELIVER">>},
                 \E e \in Entries(clientIDs) : e.fd = o.to
          PROVE  InStep(c)' /\ HelloWaits(c)'
      <3>1. ~NoRecord(c) /\ ~Lost(c) BY <1>16, <2>5 DEF NoRecord, Lost
      <3>2. InStep(c)' BY <2>1, <2>2, <2>5, <3>1, SyncChatCells
      <3>3. ASSUME NEW fd \in Connection(c)' PROVE ~HelloAt(fd)'
        <4>1. at[c] # 1 \/ stream[c] # <<>> BY <2>1, <3>1 DEF InStep
        <4>2. fd \in Connection(c) BY <1>10
        <4>3. QED BY <1>13, <2>1, <4>1, <4>2 DEF HelloWaits
      <3>4. HelloWaits(c)' BY <3>3 DEF HelloWaits
      <3>5. QED BY <3>2, <3>4
    <2>6. CASE Refused(clientIDs, m, current, o) BY <2>3, <2>6 DEF Refused, Effect
    <2>7. CASE Left(clientIDs, m, current, o) BY <2>3, <2>7 DEF Left, Effect
    <2>8. CASE Listed(clientIDs, m, current, o) BY <1>4, <2>8 DEF Listed, Proper
    <2>9. CASE Passed(clientIDs, m, current, o)
      <3>1. m.body BY <1>4, <2>9 DEF Passed, Proper
      <3>2. o.to = List_getFD(clientIDs, m.dest) /\ o.cells = <<"CHAT", "TEXT">>
        BY <2>3, <2>9, <3>1 DEF Passed, Effect
      <3>3. \E e \in Entries(clientIDs) : e.fd = o.to
        BY <1>8, <2>9, <3>2, OnRecord DEF Passed
      <3>4. QED BY <2>5, <3>2, <3>3
    <2>10. CASE Undeliverable(clientIDs, m, current, o)
      <3>1. o.to = current /\ o.cells = <<"CANNOT_DELIVER">>
        BY <2>10 DEF Undeliverable, Effect
      <3>2. \E e \in Entries(clientIDs) : e.fd = current
        BY <1>8, <2>10, AuthenticatedRecord DEF Undeliverable
      <3>3. QED BY <2>5, <3>1, <3>2
    <2>11. CASE Present(clientIDs, m, current, o)
      <3>1. /\ o.to = current /\ o.cells = <<"CLIENT_PRESENT">> /\ o.closed = {current}
            /\ m.type = "HELLO"
        BY <2>11 DEF Present, Effect
      <3>2. PICK fd \in Connection(c) : fd = current BY <1>16, <3>1
      <3>3. HelloAt(fd) /\ fd \notin Connection(c)' BY <1>10, <2>4, <3>1, <3>2
      <3>4. Connection(c)' \subseteq Connection(c) BY <1>10
      <3>5. QED
        BY <1>2, <1>6, <1>11, <2>1, <2>2, <3>1, <3>2, <3>3, <3>4, SyncGreeting
    <2>12. CASE Welcomed(clientIDs, m, current, o)
      <3>1. /\ o.to = current /\ o.cells = <<"HELLO_ACK", "CLIENT_LIST", "IDS">>
            /\ m.type = "HELLO"
        BY <2>3, <2>12 DEF Welcomed, Effect
      <3>2. PICK fd \in Connection(c) : fd = current /\ HelloAt(fd) BY <1>16, <2>4, <3>1
      <3>3. fd \in Connection(c)' => ~HelloAt(fd)'
        <4>1. peer[current] # NoClient BY <3>2, ConnectionOf, ClientAssumption
        <4>2. \A i \in 1..Len(inbox[current]) : inbox[current][i].type # "HELLO"
          BY <1>2, <1>3, <4>1 DEF NoSecond
        <4>3. QED BY <1>10, <1>12, <3>2, <4>2 DEF HelloAt
      <3>4. Connection(c)' \subseteq Connection(c) BY <1>10
      <3>5. QED
        BY <1>2, <1>11, <2>1, <2>2, <3>1, <3>2, <3>3, <3>4, SyncGreeting
    <2>13. QED BY <1>8, <2>6, <2>7, <2>8, <2>9, <2>10, <2>11, <2>12
  <1>17. Sync' BY <1>15, <1>16 DEF Sync
  <1>18. QED BY <1>11, <1>14, <1>17 DEF SyncInv

-----------------------------------------------------------------------------
(* Headers are read where headers are written *)

\* Every step keeps the clients in step.
LEMMA SyncKept ==
  ASSUME Basis, SyncInv, ScriptNext
  PROVE  SyncInv'
  <1>1. CASE Answer BY <1>1, SyncAnswer
  <1>2. CASE OtherServerStep
    <2>1. UNCHANGED clientVars BY <1>2 DEF OtherServerStep
    <2>2. CASE DiscardStale BY <2>1, <2>2, SyncDiscard
    <2>3. CASE Accept BY <2>1, <2>3, SyncAccept
    <2>4. ASSUME NEW fd \in Fds, Read(fd) PROVE SyncInv' BY <2>1, <2>4, SyncRead
    <2>5. CASE Store \/ NothingStale \/ Select
      <3>1. step' # "handle" /\ UNCHANGED <<clientIDs, peer, gone, inbox, backlog>>
        BY <2>5 DEF Store, Advance, NothingStale, Select
      <3>2. NoSecond' /\ \A fd : HelloAt(fd)' => HelloAt(fd)
        BY <3>1 DEF NoSecond, HelloAt
      <3>3. \A c \in Clients : Connection(c)' = Connection(c) BY <3>1 DEF Connection, Open
      <3>4. Entries(clientIDs') \subseteq Entries(clientIDs) BY <3>1
      <3>5. QED BY <2>1, <3>1, <3>2, <3>3, <3>4, SyncLess
    <2>6. QED BY <1>2, <2>2, <2>3, <2>4, <2>5 DEF OtherServerStep
  <1>3. ASSUME NEW c \in Clients, Launch(c) PROVE SyncInv' BY <1>3, SyncStart
  <1>4. ASSUME NEW c \in Clients, ClientStep(c) PROVE SyncInv' BY <1>4, SyncClient
  <1>5. ASSUME UNCHANGED <<step, current, data, clientIDs, peer, gone, inbox, backlog, clientVars>>
        PROVE  SyncInv'
    <2>1. \A c \in Clients : Connection(c)' = Connection(c) BY <1>5 DEF Connection, Open
    <2>2. NoSecond' /\ \A fd : HelloAt(fd)' => HelloAt(fd)
      BY <1>5 DEF SyncInv, NoSecond, HelloAt
    <2>3. Entries(clientIDs') \subseteq Entries(clientIDs) BY <1>5
    <2>4. QED BY <1>5, <2>1, <2>2, <2>3, SyncLess
  <1>6. ASSUME NEW fd \in Fds, Age(fd), UNCHANGED clientVars PROVE SyncInv'
    <2>1. UNCHANGED <<step, current, data, clientIDs, peer, gone, inbox, backlog, clientVars>>
      BY <1>6 DEF Age, serverVars
    <2>2. QED BY <1>5, <2>1
  <1>7. QED BY <1>1, <1>2, <1>3, <1>4, <1>6 DEF ScriptNext, ServerStep

\* Nobody is connected at the start.
LEMMA SyncInit ==
  ASSUME ScriptInit
  PROVE  SyncInv
  <1>1. /\ step = "top" /\ backlog = <<>> /\ \A fd \in Fds : peer[fd] = NoClient
        /\ at = [c \in Clients |-> Len(start_client[c])]
    BY DEF ScriptInit, Init
  <1>2. \A c \in Clients : Connection(c) = {} BY <1>1, ConnectionOf, ClientAssumption
  <1>3. \A i \in 1..Len(backlog) : FALSE
    <2>1. Len(<<>>) = 0 BY EmptySeq
    <2>2. QED BY <1>1, <2>1
  <1>4. OneLine BY <1>2, <1>3 DEF OneLine
  <1>5. NoSecond BY <1>1 DEF NoSecond
  <1>6. \A c \in Clients : ~Talking(c)
    <2>1. \A c \in Clients : Len(start_client[c]) \in Nat BY ScriptsAreScripts, LenProperties
    <2>2. QED BY <1>1, <2>1 DEF Talking, Running
  <1>7. QED BY <1>4, <1>5, <1>6 DEF SyncInv, Sync

\* The clients are in step throughout.
LEMMA SyncInvariance == ScriptSpec => [](Basis /\ SyncInv)
  <1>1. ScriptInit => SyncInv BY SyncInit
  <1>2. Basis /\ SyncInv /\ [ScriptNext]_allVars => SyncInv'
    <2>1. ASSUME Basis, SyncInv, UNCHANGED allVars PROVE SyncInv'
      <3>1. UNCHANGED <<step, current, data, clientIDs, peer, gone, inbox, backlog, clientVars>>
        BY <2>1 DEF allVars, vars
      <3>2. \A c \in Clients : Connection(c)' = Connection(c) BY <3>1 DEF Connection, Open
      <3>3. NoSecond' /\ \A fd : HelloAt(fd)' => HelloAt(fd)
        BY <2>1, <3>1 DEF SyncInv, NoSecond, HelloAt
      <3>4. Entries(clientIDs') \subseteq Entries(clientIDs) BY <3>1
      <3>5. QED BY <2>1, <3>1, <3>2, <3>3, <3>4, SyncLess
    <2>2. QED BY <2>1, SyncKept
  <1>3. ScriptSpec => []Basis BY TalkInvariance, PTL DEF Basis
  <1>4. QED BY <1>1, <1>2, <1>3, PTL DEF ScriptSpec

\* Unless its read of the list has taken more than the list, a client reads a
\* header where the server has written one and a text where it has written
\* one, in any number of conversations (client2.c:50, client4.c:50).
THEOREM HeadersStayExpected == ScriptSpec => []HeadersWhereExpected
  <1>1. ASSUME Basis, SyncInv PROVE HeadersWhereExpected
    <2>1. SUFFICES ASSUME NEW c \in Clients \ greedy, stream[c] # <<>>,
                          Doing(c, "chat") \/ Doing(c, "text")
                   PROVE  /\ Doing(c, "chat") => Head(stream[c]) \notin {"TEXT", "IDS"}
                          /\ Doing(c, "text") => Head(stream[c]) = "TEXT"
      BY DEF HeadersWhereExpected
    <2> DEFINE n == at[c]
    <2>2. Talking(c) BY <2>1 DEF Talking, Doing
    <2>3. Due(c, n, stream[c][1]) BY <1>1, <2>1, <2>2 DEF SyncInv, Sync, InStep
    <2>4. Head(stream[c]) = stream[c][1]
      <3>1. stream[c] \in Seq(Replies) BY <1>1 DEF Basis, ScriptTypes
      <3>2. QED BY <2>1, <3>1, HeadTailProperties
    <2>5. n \in Nat /\ n < Len(start_client[c]) BY <1>1, <2>2 DEF Basis, ScriptTypes, Talking, Running
    <2>6. n >= 4
      <3>1. start_client[c][n + 1].do \in {"chat", "text"} BY <2>1 DEF Doing
      <3>2. QED BY <2>5, <3>1, NextStatement
    <2>7. CASE Doing(c, "chat")
      <3>1. start_client[c][n + 1].do = "chat" BY <2>7 DEF Doing
      <3>2. stream[c][1] \in Units BY <2>3, <2>5, <2>6, <3>1 DEF Due
      <3>3. QED BY <2>4, <3>1, <3>2 DEF Units, Doing
    <2>8. CASE Doing(c, "text")
      <3>1. start_client[c][n + 1].do = "text" BY <2>8 DEF Doing
      <3>2. stream[c][1] = "TEXT" BY <2>3, <2>5, <2>6, <3>1 DEF Due
      <3>3. QED BY <2>4, <3>1, <3>2 DEF Doing
    <2>9. QED BY <2>1, <2>7, <2>8
  <1>2. QED BY <1>1, SyncInvariance, PTL

=============================================================================
