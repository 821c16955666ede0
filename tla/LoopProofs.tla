------------------------------ MODULE LoopProofs ------------------------------
(***************************************************************************)
(* Theorems about the loop of main, for any number of clients, whatever    *)
(* they mean to send, and every bound.                                     *)
(***************************************************************************)
EXTENDS LoopProperties, TLAPS

Processing == {"header", "body", "calculating", "asking", "writing"}

\* What TypeOK leaves open: the connections, what was received, and a backlog
\* in which nobody is twice.
Shapes ==
    /\ plan \in [Clients -> Plans]
    /\ link \in [Clients -> {"none", "waiting", "accepted", "closed", "reset"}]
    /\ backlog \in Seq(Clients)
    /\ \A i, j \in DOMAIN backlog : backlog[i] = backlog[j] => i = j
    /\ lines \in Seq({"t", "n", "other"})
    /\ got \in [Clients -> {Nothing} \cup [header : Nat, size : Nat]]

\* What the loop has in its hands belongs to the client on the socket alone.
OwnBytes ==
    /\ proc \in {"header", "body"} => buf = NoBytes
    /\ proc \in {"body", "calculating"} => length = Atoi(plan[conn].header)
    /\ proc = "calculating" => Holds(buf, length)
    /\ proc = "writing" => response = plan[conn].size

\* A request has no row before its handler is done.
NoRowYet ==
    \A c \in Clients :
       link[c] \in {"none", "waiting"} \/ (conn = c /\ proc # "writing") => c \notin effect

IInv ==
    /\ TypeOK /\ Shapes /\ OwnBytes /\ NoRowYet
    /\ CorrectIsAnswered /\ AnnouncedIsActual /\ EffectIsAnswered

(* A plan has a header, a length, a kind and a size; what atoi makes of the  *)
(* header is an integer.                                                     *)
LEMMA PlanFields ==
    ASSUME NEW p \in Plans
    PROVE  /\ p.body \in Nat /\ p.size \in Nat /\ p.header \in Headers
           /\ Atoi(p.header) \in Int
<1>1. p \in [header : Headers, body : Nat, kind : Kinds, size : Nat]
  BY LoopConstants
<1>2. p.body \in Nat /\ p.size \in Nat /\ p.header \in Headers
  BY <1>1
<1> QED BY <1>2 DEF Headers, Atoi

(* The head of the backlog leaves it for good, the others stay.              *)
LEMMA HeadLeaves ==
    ASSUME backlog \in Seq(Clients), backlog # << >>,
           \A i, j \in DOMAIN backlog : backlog[i] = backlog[j] => i = j
    PROVE  /\ Head(backlog) = backlog[1] /\ Head(backlog) \in Clients
           /\ 1 \in DOMAIN backlog
           /\ Tail(backlog) \in Seq(Clients)
           /\ \A i, j \in DOMAIN Tail(backlog) : Tail(backlog)[i] = Tail(backlog)[j] => i = j
           /\ \A c \in Clients : (\E i \in DOMAIN Tail(backlog) : Tail(backlog)[i] = c)
                                    <=> c # Head(backlog) /\ \E i \in DOMAIN backlog : backlog[i] = c
<1> DEFINE n == Len(backlog)
<1>1. /\ n \in Nat \ {0} /\ DOMAIN backlog = 1..n /\ Head(backlog) = backlog[1] /\ backlog[1] \in Clients
      /\ Tail(backlog) \in Seq(Clients) /\ DOMAIN Tail(backlog) = 1..(n - 1)
      /\ \A i \in 1..(n - 1) : Tail(backlog)[i] = backlog[i + 1]
  OBVIOUS
<1>2. ASSUME NEW i \in 1..(n - 1), NEW j \in 1..(n - 1), Tail(backlog)[i] = Tail(backlog)[j] PROVE i = j
  <2>1. i + 1 \in 1..n /\ j + 1 \in 1..n /\ backlog[i + 1] = backlog[j + 1]
    BY <1>1, <1>2
  <2> QED BY <2>1, <1>1
<1>3. ASSUME NEW c \in Clients, NEW i \in 1..(n - 1), Tail(backlog)[i] = c
      PROVE  c # Head(backlog) /\ \E k \in 1..n : backlog[k] = c
  <2>1. i + 1 \in 1..n /\ i + 1 # 1 /\ 1 \in 1..n /\ backlog[i + 1] = c
    BY <1>1, <1>3
  <2> QED BY <2>1, <1>1
<1>4. ASSUME NEW c \in Clients, c # Head(backlog), NEW k \in 1..n, backlog[k] = c
      PROVE  \E i \in 1..(n - 1) : Tail(backlog)[i] = c
  <2>1. k # 1
    BY <1>1, <1>4
  <2>2. k - 1 \in 1..(n - 1) /\ (k - 1) + 1 = k
    BY <2>1, <1>1
  <2> QED BY <2>2, <1>1, <1>4
<1>5. \A c \in Clients : (\E i \in 1..(n - 1) : Tail(backlog)[i] = c)
                           <=> c # Head(backlog) /\ \E i \in 1..n : backlog[i] = c
  BY <1>3, <1>4
<1>6. 1 \in 1..n
  BY <1>1
<1>7. \A i, j \in DOMAIN Tail(backlog) : Tail(backlog)[i] = Tail(backlog)[j] => i = j
  BY <1>1, <1>2
<1>8. \A c \in Clients : (\E i \in DOMAIN Tail(backlog) : Tail(backlog)[i] = c)
                           <=> c # Head(backlog) /\ \E i \in DOMAIN backlog : backlog[i] = c
  BY <1>1, <1>5
<1> HIDE DEF n
<1> QED BY <1>1, <1>6, <1>7, <1>8

(* The steps of the loop, of the operator and of the clients, one by one.    *)
LEMMA InitInv == Init => IInv
<1> SUFFICES ASSUME Init PROVE IInv
  OBVIOUS
<1> USE LoopConstants DEF Init, Nothing, NoBytes
<1>1. \A c \in Clients : plan[c].body \in Nat
  BY PlanFields
<1>2. TypeOK
  BY <1>1 DEF TypeOK
<1>3. Shapes
  BY DEF Shapes
<1>4. OwnBytes /\ CorrectIsAnswered /\ AnnouncedIsActual /\ EffectIsAnswered
  BY DEF OwnBytes, CorrectIsAnswered, AnnouncedIsActual, EffectIsAnswered
<1>5. NoRowYet
  BY DEF NoRowYet
<1> QED BY <1>2, <1>3, <1>4, <1>5 DEF IInv

(* The steps of the server before it listens change nothing but itself.      *)
LEMMA StartInv ==
    ASSUME IInv, ReadConfig \/ InitDatabase \/ Listen
    PROVE  IInv'
<1> USE LoopConstants DEF IInv, ReadConfig, InitDatabase, Listen, clients, operator
<1>1. TypeOK'
  BY DEF TypeOK
<1>2. Shapes'
  BY DEF Shapes
<1>3. OwnBytes' /\ CorrectIsAnswered' /\ AnnouncedIsActual' /\ EffectIsAnswered'
  BY DEF TypeOK, OwnBytes, CorrectIsAnswered, AnnouncedIsActual, EffectIsAnswered, Correct
<1>4. NoRowYet'
  BY LoopConstants DEF TypeOK, NoRowYet
<1> QED BY <1>1, <1>2, <1>3, <1>4

LEMMA AcceptInv == ASSUME IInv, Accept PROVE IInv'
<1> USE DEF IInv, Accept, clients, operator
<1>1. /\ Head(backlog) \in Clients /\ link[Head(backlog)] = "waiting"
      /\ Shapes' /\ conn = NoClient
  BY HeadLeaves DEF Shapes, TypeOK
<1> DEFINE h == Head(backlog)
<1>2. /\ \A c \in Clients : link'[c] = IF c = h THEN "accepted" ELSE link[c]
      /\ conn' = h /\ backlog' = Tail(backlog) /\ h # NoClient
  BY <1>1, LoopConstants DEF Shapes
<1>3. TypeOK'
  <2>1. \A c \in Clients : link'[c] = "accepted" <=> conn' = c
    BY <1>1, <1>2, LoopConstants DEF TypeOK
  <2>2. \A c \in Clients : (\E i \in DOMAIN backlog' : backlog'[i] = c)
                             <=> c # h /\ \E i \in DOMAIN backlog : backlog[i] = c
    BY <1>2, HeadLeaves DEF Shapes
  <2>3. \A c \in Clients : link'[c] = "waiting" <=> \E i \in DOMAIN backlog' : backlog'[i] = c
    BY <1>2, <2>2 DEF TypeOK
  <2> QED BY <1>1, <1>2, <2>1, <2>3 DEF TypeOK, FreshBuf, NoBytes
<1>4. OwnBytes'
  BY DEF OwnBytes, FreshBuf
<1>5. CorrectIsAnswered' /\ AnnouncedIsActual'
  BY <1>2 DEF CorrectIsAnswered, AnnouncedIsActual, Correct
<1>6. EffectIsAnswered'
  BY <1>1, <1>2 DEF TypeOK, EffectIsAnswered
<1>7. NoRowYet'
  BY <1>1, <1>2 DEF TypeOK, NoRowYet
<1> QED BY <1>1, <1>3, <1>4, <1>5, <1>6, <1>7

LEMMA ReadHeaderInv == ASSUME IInv, ReadHeader PROVE IInv'
<1> USE DEF IInv, ReadHeader, Arrived, clients, operator
<1>1. /\ conn \in Clients /\ buf = NoBytes /\ plan[conn] \in Plans
      /\ sent[conn] - HEADER_LENGTH \in Nat
  BY LoopConstants DEF TypeOK, OwnBytes, Shapes
<1>2. Holds([buf EXCEPT ![conn] = @ + HEADER_LENGTH], HEADER_LENGTH)
  BY <1>1, LoopConstants DEF Holds, NoBytes
<1>3. length' = Atoi(plan[conn].header) /\ length' \in Int
  BY <1>1, <1>2, PlanFields
<1>4. TypeOK'
  BY <1>1, <1>3 DEF TypeOK, NoBytes
<1>5. Shapes' /\ OwnBytes'
  BY <1>3 DEF Shapes, OwnBytes
<1>6. CorrectIsAnswered' /\ AnnouncedIsActual' /\ EffectIsAnswered'
  BY DEF CorrectIsAnswered, AnnouncedIsActual, EffectIsAnswered, Correct
<1>7. NoRowYet'
  BY DEF NoRowYet
<1> QED BY <1>4, <1>5, <1>6, <1>7

LEMMA ReadBodyInv == ASSUME IInv, ReadBody PROVE IInv'
<1> USE DEF IInv, ReadBody, Arrived, Take, clients, operator
<1>1. /\ conn \in Clients /\ buf = NoBytes /\ length \in Nat /\ sent[conn] - length \in Nat
  BY DEF TypeOK, OwnBytes
<1>2. Holds(buf', length)
  BY <1>1 DEF Holds, NoBytes
<1>3. TypeOK'
  BY <1>1 DEF TypeOK, NoBytes
<1>4. Shapes' /\ OwnBytes'
  BY <1>2 DEF Shapes, OwnBytes, Holds
<1>5. CorrectIsAnswered' /\ AnnouncedIsActual' /\ EffectIsAnswered'
  BY DEF CorrectIsAnswered, AnnouncedIsActual, EffectIsAnswered, Correct
<1>6. NoRowYet'
  BY DEF NoRowYet
<1> QED BY <1>3, <1>4, <1>5, <1>6

(* A read fails only for a client that has gone.                             *)
LEMMA ReadFailsInv == ASSUME IInv, ReadFails PROVE IInv'
<1> USE DEF IInv, ReadFails, EndOfFile, NextConnection, clients, operator
<1>1. conn \in Clients /\ conn \in gone /\ sent[conn] \in Nat /\ conn # NoClient
  BY DEF TypeOK
<1>2. /\ sent' \in [Clients -> Nat] /\ buf' \in [Clients -> Nat]
  BY <1>1 DEF Take, TypeOK
<1>3. TypeOK'
  <2>1. \A c \in Clients : link'[c] = IF c = conn THEN "closed" ELSE link[c]
    BY <1>1 DEF Shapes
  <2> QED BY <1>1, <1>2, <2>1, LoopConstants DEF TypeOK
<1>4. Shapes' /\ OwnBytes'
  BY DEF Shapes, OwnBytes
<1>5. CorrectIsAnswered' /\ AnnouncedIsActual' /\ EffectIsAnswered'
  BY <1>1 DEF Shapes, CorrectIsAnswered, AnnouncedIsActual, EffectIsAnswered, Correct, TypeOK
<1>6. NoRowYet'
  BY <1>1, LoopConstants DEF Shapes, NoRowYet
<1> QED BY <1>3, <1>4, <1>5, <1>6

(* What the handler is given is what a correct client sent: it parses.       *)
LEMMA CalculateThrowsInv == ASSUME IInv, CalculateThrows PROVE IInv'
<1> USE DEF IInv, CalculateThrows, NextConnection, clients, operator
<1>1. conn \in Clients /\ conn # NoClient
  BY LoopConstants DEF TypeOK
<1>2. ~Correct(conn)
  <2>1. ASSUME Correct(conn) PROVE length = plan[conn].body
    <3>1. plan[conn].header.text = "number" /\ plan[conn].header.digits = plan[conn].body
      BY <2>1 DEF Correct
    <3> QED BY <3>1 DEF OwnBytes, Atoi
  <2> QED BY <2>1 DEF Correct, Parses, OwnBytes
<1>3. TypeOK'
  BY <1>1, LoopConstants DEF TypeOK, Shapes
<1>4. Shapes' /\ OwnBytes'
  BY DEF Shapes, OwnBytes
<1>5. CorrectIsAnswered' /\ AnnouncedIsActual' /\ EffectIsAnswered'
  BY <1>1, <1>2 DEF Shapes, CorrectIsAnswered, AnnouncedIsActual, EffectIsAnswered, Correct, TypeOK
<1>6. NoRowYet'
  BY <1>1, LoopConstants DEF Shapes, NoRowYet
<1> QED BY <1>3, <1>4, <1>5, <1>6

(* A client whose request has no answer because the log threw has no row.    *)
LEMMA LogThrowsInv == ASSUME IInv, LogThrows PROVE IInv'
<1> USE DEF IInv, LogThrows, NextConnection, clients, operator
<1>1. conn \in Clients /\ conn # NoClient /\ conn \notin effect /\ link[conn] = "accepted"
  BY LoopConstants DEF TypeOK, NoRowYet
<1>2. \A c \in Clients : link'[c] = IF c = conn THEN "closed" ELSE link[c]
  BY <1>1 DEF Shapes
<1>3. /\ Len(lines') <= Len(lines) /\ lines' \in Seq({"t", "n", "other"})
      /\ Len(lines') \in Nat /\ Len(lines) \in Nat
  <2>1. lines # << >> => /\ Len(Tail(lines)) <= Len(lines) /\ Len(Tail(lines)) \in Nat
                         /\ Tail(lines) \in Seq({"t", "n", "other"})
    BY DEF Shapes
  <2>2. Len(lines) \in Nat /\ lines \in Seq({"t", "n", "other"})
    BY DEF Shapes
  <2>3. lines' = lines \/ (lines # << >> /\ lines' = Tail(lines))
    OBVIOUS
  <2>4. CASE lines' = lines
    BY <2>2, <2>4
  <2>5. CASE lines # << >> /\ lines' = Tail(lines)
    <3> HIDE DEF IInv, LogThrows
    <3> QED BY <2>1, <2>2, <2>5
  <2> QED BY <2>3, <2>4, <2>5
<1>4. TypeOK'
  BY <1>1, <1>2, <1>3, LoopConstants DEF TypeOK
<1>5. Shapes' /\ OwnBytes'
  BY <1>3 DEF Shapes, OwnBytes
<1>6. CorrectIsAnswered' /\ AnnouncedIsActual' /\ EffectIsAnswered'
  BY <1>1, <1>2 DEF CorrectIsAnswered, AnnouncedIsActual, EffectIsAnswered, Correct
<1>7. NoRowYet'
  BY <1>1, <1>2, LoopConstants DEF NoRowYet
<1> QED BY <1>4, <1>5, <1>6, <1>7

LEMMA RespondInv == ASSUME IInv, CalculateResponse \/ GetUserInput PROVE IInv'
<1> USE DEF IInv, CalculateResponse, GetUserInput, Respond, clients, operator
<1>1. conn \in Clients /\ plan[conn].size \in Nat
  BY PlanFields DEF TypeOK, Shapes
<1>2. lines # << >> => Len(Tail(lines)) <= Len(lines) /\ Tail(lines) \in Seq({"t", "n", "other"})
  BY DEF Shapes
<1>3. TypeOK'
  <2>1. CASE CalculateResponse
    BY <2>1, <1>1 DEF TypeOK
  <2>2. CASE GetUserInput
    <3>1. Len(lines') \in Nat /\ Len(lines) \in Nat
      BY <2>2, <1>2 DEF Shapes
    <3> QED BY <2>2, <3>1, <1>1, <1>2 DEF TypeOK
  <2> QED BY <2>1, <2>2
<1>4. Shapes' /\ OwnBytes'
  BY <1>2 DEF Shapes, OwnBytes
<1>5. CorrectIsAnswered' /\ AnnouncedIsActual'
  <2>1. /\ link[conn] # "closed" /\ effect' \subseteq effect \cup {conn}
        /\ UNCHANGED <<plan, link, gone, got, refused>>
    BY <1>1 DEF TypeOK
  <2> QED BY <2>1 DEF CorrectIsAnswered, AnnouncedIsActual, Correct
<1>6. EffectIsAnswered'
  BY DEF EffectIsAnswered, TypeOK
<1>7. NoRowYet'
  BY <1>1 DEF NoRowYet, TypeOK
<1> QED BY <1>3, <1>4, <1>5, <1>6, <1>7

LEMMA WriteResponseInv == ASSUME IInv, WriteResponse PROVE IInv'
<1> USE DEF IInv, WriteResponse, NextConnection, clients, operator
<1>1. conn \in Clients /\ conn # NoClient /\ response \in Nat
  BY LoopConstants DEF TypeOK
<1>2. MakeHeader(response) = response
  BY DEF Fits, MakeHeader
<1>3. /\ conn \notin gone => /\ got'[conn] = [header |-> response, size |-> response]
                              /\ got'[conn] # Nothing
      /\ \A c \in Clients : c # conn \/ c \in gone => got'[c] = got[c]
  BY <1>1, <1>2 DEF Shapes, Nothing
<1>4. TypeOK'
  BY <1>1, LoopConstants DEF TypeOK, Shapes
<1>5. Shapes' /\ OwnBytes'
  BY <1>1, <1>2 DEF Shapes, OwnBytes
<1>6. AnnouncedIsActual'
  BY <1>1, <1>3 DEF AnnouncedIsActual
<1>7. CorrectIsAnswered' /\ EffectIsAnswered'
  BY <1>1, <1>3 DEF Shapes, CorrectIsAnswered, EffectIsAnswered, Correct, TypeOK
<1>8. NoRowYet'
  BY <1>1, LoopConstants DEF Shapes, NoRowYet
<1> QED BY <1>4, <1>5, <1>6, <1>7, <1>8

LEMMA TerminateInv == ASSUME IInv, Terminate PROVE IInv'
<1> USE DEF IInv, Terminate, clients, operator
<1>1. TypeOK'
  <2>1. \A c \in Clients : link'[c] \notin {"accepted", "waiting"}
    OBVIOUS
  <2>2. backlog' = << >> /\ \A c \in Clients : ~\E i \in DOMAIN backlog' : backlog'[i] = c
    OBVIOUS
  <2> QED BY <2>1, <2>2, LoopConstants DEF TypeOK
<1>2. Shapes' /\ OwnBytes'
  BY DEF Shapes, OwnBytes
<1>3. CorrectIsAnswered' /\ AnnouncedIsActual' /\ EffectIsAnswered'
  BY LoopConstants DEF Shapes, TypeOK, CorrectIsAnswered, AnnouncedIsActual, EffectIsAnswered, Correct
<1>4. NoRowYet'
  BY LoopConstants DEF Shapes, TypeOK, NoRowYet
<1> QED BY <1>1, <1>2, <1>3, <1>4

LEMMA ConnectInv == ASSUME IInv, NEW c \in Clients, Connect(c) PROVE IInv'
<1> USE DEF IInv, Connect, server, clients, operator
<1>1. /\ DOMAIN backlog = 1..Len(backlog) /\ Len(backlog) \in Nat
      /\ DOMAIN backlog' = 1..(Len(backlog) + 1)
      /\ \A i \in 1..(Len(backlog) + 1) :
            backlog'[i] = IF i = Len(backlog) + 1 THEN c ELSE backlog[i]
      /\ backlog' \in Seq(Clients)
  BY DEF Shapes
<1>2. \A i \in DOMAIN backlog : backlog[i] # c
  BY DEF TypeOK
<1>3. \A d \in Clients : link'[d] = IF d = c THEN "waiting" ELSE link[d]
  BY DEF Shapes
<1>4. \A d \in Clients : (\E i \in DOMAIN backlog' : backlog'[i] = d)
                           <=> d = c \/ \E i \in DOMAIN backlog : backlog[i] = d
  <2>1. ASSUME NEW d \in Clients, NEW i \in DOMAIN backlog', backlog'[i] = d, d # c
        PROVE  i \in DOMAIN backlog /\ backlog[i] = d
    BY <1>1, <2>1
  <2>2. ASSUME NEW d \in Clients, NEW i \in DOMAIN backlog, backlog[i] = d
        PROVE  i \in DOMAIN backlog' /\ backlog'[i] = d
    BY <1>1, <2>2
  <2>3. Len(backlog) + 1 \in DOMAIN backlog' /\ backlog'[Len(backlog) + 1] = c
    BY <1>1
  <2> QED BY <2>1, <2>2, <2>3
<1>5. TypeOK'
  <2>1. \A d \in Clients : link'[d] = "waiting" <=> \E i \in DOMAIN backlog' : backlog'[i] = d
    BY <1>3, <1>4 DEF TypeOK
  <2>2. \A d \in Clients : link'[d] = "accepted" <=> conn' = d
    BY <1>3 DEF TypeOK
  <2> QED BY <2>1, <2>2 DEF TypeOK
<1>6. Shapes'
  <2>1. \A i, j \in DOMAIN backlog' : backlog'[i] = backlog'[j] => i = j
    BY <1>1, <1>2 DEF Shapes
  <2> QED BY <1>1, <2>1 DEF Shapes
<1>7. OwnBytes' /\ CorrectIsAnswered' /\ AnnouncedIsActual' /\ EffectIsAnswered'
  BY <1>3 DEF OwnBytes, Holds, CorrectIsAnswered, AnnouncedIsActual, EffectIsAnswered, Correct
<1>8. NoRowYet'
  BY <1>3 DEF NoRowYet
<1> QED BY <1>5, <1>6, <1>7, <1>8

LEMMA ClientInv == ASSUME IInv, NEW c \in Clients, Send(c) \/ Close(c) PROVE IInv'
<1> USE DEF IInv, Send, Close, Open, server, operator
<1>1. TypeOK'
  <2>1. CASE Send(c)
    <3>1. left[c] - 1 \in Nat /\ sent[c] + 1 \in Nat
      BY <2>1 DEF TypeOK
    <3> QED BY <2>1, <3>1 DEF TypeOK
  <2>2. CASE Close(c)
    <3>1. sent' \in [Clients -> Nat]
      BY <2>2 DEF TypeOK
    <3> QED BY <2>2, <3>1 DEF TypeOK
  <2> QED BY <2>1, <2>2
<1>2. Shapes' /\ OwnBytes' /\ CorrectIsAnswered' /\ AnnouncedIsActual' /\ EffectIsAnswered'
  BY DEF Shapes, OwnBytes, Holds, CorrectIsAnswered, AnnouncedIsActual, EffectIsAnswered, Correct
<1>3. NoRowYet'
  BY DEF NoRowYet
<1> QED BY <1>1, <1>2, <1>3

LEMMA TypeInv == ASSUME IInv, NEW line \in {"t", "n", "other"}, Type(line) PROVE IInv'
<1> USE DEF IInv, Type, server, clients
<1>1. lines' \in Seq({"t", "n", "other"}) /\ Len(lines') = Len(lines) + 1 /\ Len(lines) \in Nat
  BY DEF Shapes
<1>2. TypeOK'
  BY <1>1, LoopConstants DEF TypeOK
<1>3. Shapes' /\ OwnBytes' /\ CorrectIsAnswered' /\ AnnouncedIsActual' /\ EffectIsAnswered'
  BY <1>1 DEF Shapes, OwnBytes, Holds, CorrectIsAnswered, AnnouncedIsActual, EffectIsAnswered, Correct
<1>4. NoRowYet'
  BY DEF NoRowYet
<1> QED BY <1>2, <1>3, <1>4

LEMMA NextInv == IInv /\ [Next]_vars => IInv'
<1> SUFFICES ASSUME IInv, [Next]_vars PROVE IInv'
  OBVIOUS
<1>1. CASE UNCHANGED vars
  BY <1>1 DEF vars, IInv, TypeOK, Shapes, OwnBytes, Holds, NoRowYet, CorrectIsAnswered,
       AnnouncedIsActual, EffectIsAnswered, Correct
<1>2. CASE Loop
  BY <1>2, AcceptInv, ReadHeaderInv, ReadBodyInv, ReadFailsInv, CalculateThrowsInv, LogThrowsInv,
       RespondInv, WriteResponseInv, TerminateInv DEF Loop
<1> QED BY <1>1, <1>2, StartInv, ConnectInv, ClientInv, TypeInv DEF Next

(* The types; a client is on the socket exactly while a request is processed,*)
(* and everybody who waits to be accepted is in the backlog.                 *)
THEOREM LoopTypes == Spec => []TypeOK
<1>1. IInv => TypeOK
  BY DEF IInv
<1> QED BY <1>1, InitInv, NextInv, PTL DEF Spec

(* Whatever other clients have done to their connections, a correct request  *)
(* is answered, unless its own client closes first, the process ends, or a   *)
(* call of the log throws, and then the request has no row.                  *)
THEOREM OthersCostNothing == Spec => []CorrectIsAnswered
<1>1. IInv => CorrectIsAnswered
  BY DEF IInv
<1> QED BY <1>1, InitInv, NextInv, PTL DEF Spec

(* The header of every answer that was sent announces its size.              *)
THEOREM AnswersAreFramed == Spec => []AnnouncedIsActual
<1>1. IInv => AnnouncedIsActual
  BY DEF IInv
<1> QED BY <1>1, InitInv, NextInv, PTL DEF Spec

(* What has taken effect is answered, or its client or the process is gone.  *)
THEOREM NoSilentEffect == Spec => []EffectIsAnswered
<1>1. IInv => EffectIsAnswered
  BY DEF IInv
<1> QED BY <1>1, InitInv, NextInv, PTL DEF Spec

(* Only an answer that does not fit the header ends a listening process.     *)
THEOREM OnlyLengthEnds == Spec => EndsOnlyForLength
<1> DEFINE TooLong == \E c \in Clients : c = conn /\ ~Fits(plan[c].size)
<1>1. ASSUME IInv, Next, Listening, ~Listening' PROVE TooLong
  <2>1. CASE Terminate
    BY <2>1, <1>1, LoopConstants DEF Terminate, IInv, OwnBytes, TypeOK
  <2>2. CASE Accept \/ ReadHeader \/ ReadBody \/ ReadFails \/ CalculateThrows \/ LogThrows
               \/ CalculateResponse \/ GetUserInput \/ WriteResponse
    BY <2>2, <1>1 DEF Listening, Accept, ReadHeader, ReadBody, ReadFails, CalculateThrows, LogThrows,
         CalculateResponse, GetUserInput, WriteResponse, NextConnection, Respond
  <2>3. CASE ReadConfig \/ InitDatabase \/ Listen
    BY <2>3, <1>1 DEF Listening, ReadConfig, InitDatabase, Listen
  <2>4. CASE \/ \E c \in Clients : Connect(c) \/ Send(c) \/ Close(c)
             \/ \E line \in {"t", "n", "other"} : Type(line)
    BY <2>4, <1>1 DEF Listening, Connect, Send, Close, Type, server
  <2> QED BY <1>1, <2>1, <2>2, <2>3, <2>4 DEF Next, Loop
<1>2. IInv /\ [Next]_vars => [Listening /\ ~Listening' => TooLong]_vars
  BY <1>1 DEF vars
<1> QED BY <1>2, InitInv, NextInv, PTL DEF Spec, EndsOnlyForLength
=============================================================================
