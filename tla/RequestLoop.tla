------------------------------ MODULE RequestLoop ------------------------------
(***************************************************************************)
(* main of server.cpp and the constructor of config.cpp: the start with    *)
(* its checks, then one connection after the other: a header of            *)
(* HEADER_LENGTH bytes, a body of as many bytes as the header says, the    *)
(* handler, a header and the response, and a catch for whatever was thrown.*)
(* All reads block and there is one thread.  Clients send what they like,  *)
(* a byte at a time, and may fall silent or close at any point.  What the  *)
(* handlers do is FileServer; here a request takes effect or throws,       *)
(* because it is no request or because a call of the log throws, and its   *)
(* response has a size.                                                    *)
(***************************************************************************)
EXTENDS Integers, Sequences, FiniteSets

CONSTANTS
    Clients,        \* each makes one connection
    Plans,          \* what a client may mean to send
    NoClient,
    HEADER_LENGTH,
    MaxBacklog,     \* connections the acceptor keeps waiting
    MaxLines,       \* bound: lines the operator types
    MaxStarts       \* bound: times the program is started

(* A plan: the header as text, the bytes that follow it, the request they    *)
(* spell, and the size of the response to it.                                *)
Headers == [text : {"number", "minus", "other"}, digits : Nat]
Kinds == {"operation", "prepare", "unsupported", "bad"}

ASSUME LoopConstants ==
    /\ Plans \subseteq [header : Headers, body : Nat, kind : Kinds, size : Nat]
    /\ NoClient \notin Clients
    /\ HEADER_LENGTH \in Nat \ {0}
    /\ MaxBacklog \in Nat /\ MaxLines \in Nat /\ MaxStarts \in Nat

VARIABLES
    setup,      \* the command line, the configuration file, what it refers to
    proc,       \* what the process is doing
    starts,
    conn,       \* the client of the open socket
    backlog,    \* clients connected and not accepted yet
    buf,        \* bytes in the streambuf, by sender
    length,     \* requestLength
    response,   \* size of the response
    plan,       \* what each client means to send
    link,       \* each client's connection
    sent,       \* bytes of each client that have arrived and were not read
    left,       \* bytes each client has not sent yet
    gone,       \* clients that have closed their side
    lines,      \* lines typed and not read by getline
    typed,      \* number of lines typed so far, or MaxLines at the end of input
    effect,     \* clients whose request has its row in the log
    refused,    \* history: clients in whose request a call of the log threw
    got         \* header and size of what each client received

server == <<proc, starts, conn, buf, length, response, effect, refused>>
clients == <<plan, left, gone>>
operator == <<lines, typed>>
vars == <<setup, proc, starts, conn, backlog, buf, length, response, plan, link,
          sent, left, gone, lines, typed, effect, refused, got>>

Setups ==
    [arguments : {1, 2}, fields : {"valid", "missing"},
     logFile : {"file", "directory", "missing"},
     directory : {"directory", "file", "missing"},
     database : {"usable", "unusable"}, port : {"free", "taken"}, auto_mode : BOOLEAN]

Nothing == [header |-> -1, size |-> -1]

NoBytes == [c \in Clients |-> 0]

Init ==
    /\ setup \in Setups
    /\ proc = "down" /\ starts = 0
    /\ conn = NoClient /\ backlog = << >>
    /\ buf = NoBytes /\ length = 0 /\ response = 0
    /\ plan \in [Clients -> Plans]
    /\ link = [c \in Clients |-> "none"]
    /\ sent = NoBytes
    /\ left = [c \in Clients |-> HEADER_LENGTH + plan[c].body]
    /\ gone = {}
    /\ lines = << >> /\ typed = 0
    /\ effect = {} /\ refused = {}
    /\ got = [c \in Clients |-> Nothing]

-----------------------------------------------------------------------------
(* The start.  Whatever is wrong ends the program.                           *)
PathsExist == setup.logFile # "missing" /\ setup.directory # "missing"
PathsHaveKinds == setup.logFile = "file" /\ setup.directory = "directory"

CheckFails == ~PathsExist \/ ~PathsHaveKinds

ReadConfig ==
    /\ proc = "down" /\ starts < MaxStarts
    /\ starts' = starts + 1
    /\ proc' = IF setup.arguments = 2 /\ setup.fields = "valid" /\ ~CheckFails
               THEN "configured" ELSE "ended"
    /\ UNCHANGED <<setup, conn, backlog, buf, length, response, link, sent, effect, refused, got>>
    /\ UNCHANGED <<clients, operator>>

InitDatabase ==
    /\ proc = "configured"
    /\ proc' = IF setup.database = "usable" THEN "initialised" ELSE "ended"
    /\ UNCHANGED <<setup, starts, conn, backlog, buf, length, response, link, sent, effect, refused, got>>
    /\ UNCHANGED <<clients, operator>>

Listen ==
    /\ proc = "initialised"
    /\ proc' = IF setup.port = "free" THEN "accepting" ELSE "ended"
    /\ UNCHANGED <<setup, starts, conn, backlog, buf, length, response, link, sent, effect, refused, got>>
    /\ UNCHANGED <<clients, operator>>

Listening == proc \in {"accepting", "header", "body", "calculating", "asking", "writing"}

-----------------------------------------------------------------------------
(* The loop.  Socket and buffer are made anew for every connection.          *)
FreshBuf_Shared(c) == buf
FreshBuf(c) == NoBytes

Accept ==
    /\ proc = "accepting" /\ backlog # << >>
    /\ conn' = Head(backlog) /\ backlog' = Tail(backlog)
    /\ link' = [link EXCEPT ![Head(backlog)] = "accepted"]
    /\ buf' = FreshBuf(Head(backlog))
    /\ proc' = "header"
    /\ UNCHANGED <<setup, starts, length, response, sent, effect, refused, got>>
    /\ UNCHANGED <<clients, operator>>

\* read(..., transfer_exactly_t(n), errorCode) has n bytes.
Arrived(n) == n >= 0 /\ sent[conn] >= n

EndOfFile_Never(n) == FALSE

\* It has fewer and there will be no more: errorCode is eof.
EndOfFile(n) == ~Arrived(n) /\ conn \in gone

Take(n) ==
    /\ sent' = [sent EXCEPT ![conn] = @ - n]
    /\ buf' = [buf EXCEPT ![conn] = @ + n]

\* The sign is kept, and what is no number is 0.
Atoi(h) == CASE h.text = "number" -> h.digits
             [] h.text = "minus"  -> -h.digits
             [] OTHER             -> 0

\* The buffer holds n bytes of the current client and none of another.
Holds(b, n) == \A c \in Clients : b[c] = IF c = conn THEN n ELSE 0

ReadHeader ==
    /\ proc = "header" /\ Arrived(HEADER_LENGTH)
    /\ sent' = [sent EXCEPT ![conn] = @ - HEADER_LENGTH]
    /\ buf' = NoBytes       \* getBufAsString takes the bytes out
    /\ length' = IF Holds([buf EXCEPT ![conn] = @ + HEADER_LENGTH], HEADER_LENGTH)
                 THEN Atoi(plan[conn].header) ELSE 0
    /\ proc' = "body"
    /\ UNCHANGED <<setup, starts, conn, backlog, response, link, effect, refused, got>>
    /\ UNCHANGED <<clients, operator>>

ReadBody ==
    /\ proc = "body" /\ Arrived(length)
    /\ Take(length)
    /\ proc' = "calculating"
    /\ UNCHANGED <<setup, starts, conn, backlog, length, response, link, effect, refused, got>>
    /\ UNCHANGED <<clients, operator>>

NextConnection_SocketKept ==
    proc' = "accepting" /\ conn' = NoClient /\ link' = link

\* The exception leaves the iteration: its socket is closed by its destructor.
NextConnection ==
    /\ proc' = "accepting" /\ conn' = NoClient
    /\ link' = [link EXCEPT ![conn] = "closed"]

ReadFails_Uncaught ==
    /\ \/ proc = "header" /\ EndOfFile(HEADER_LENGTH)
       \/ proc = "body" /\ EndOfFile(length)
    /\ proc' = "down" /\ conn' = NoClient
    /\ link' = [link EXCEPT ![conn] = "closed"]
    /\ UNCHANGED <<setup, starts, backlog, buf, length, response, sent, effect, refused, got>>
    /\ UNCHANGED <<clients, operator>>

\* assertRequestOk throws.  What had arrived stays in the buffer, which goes too.
ReadFails ==
    /\ \/ proc = "header" /\ EndOfFile(HEADER_LENGTH)
       \/ proc = "body" /\ EndOfFile(length)
    /\ Take(sent[conn])
    /\ NextConnection
    /\ UNCHANGED <<setup, starts, backlog, length, response, effect, refused, got>>
    /\ UNCHANGED <<clients, operator>>

\* The body is the whole of what the client meant to say.
Parses == Holds(buf, plan[conn].body) /\ plan[conn].kind # "bad"

CalculateThrows_AfterInsert ==
    /\ proc = "calculating" /\ ~Parses
    /\ NextConnection
    /\ effect' = effect \cup {conn}
    /\ UNCHANGED <<setup, starts, backlog, buf, length, response, sent, refused, got>>
    /\ UNCHANGED <<clients, operator>>

\* fromString throws, or get because a field is missing.
CalculateThrows ==
    /\ proc = "calculating" /\ ~Parses
    /\ NextConnection
    /\ UNCHANGED <<setup, starts, backlog, buf, length, response, sent, effect, refused, got>>
    /\ UNCHANGED <<clients, operator>>

\* A call of the log throws in the handler of a request: a query, the insert, or
\* the insert that the operator has been asked for.  All of them come before the
\* row is in the log, and a call that has inserted its row returns.  What makes
\* them throw is the subject of DaoSession.
LogThrows ==
    /\ \/ /\ proc = "calculating" /\ Parses /\ plan[conn].kind # "unsupported"
          /\ UNCHANGED lines
       \/ /\ proc = "asking" /\ lines # << >> /\ Head(lines) \in {"t", "n"}
          /\ lines' = Tail(lines)
    /\ refused' = refused \cup {conn}
    /\ NextConnection
    /\ UNCHANGED <<setup, starts, backlog, buf, length, response, sent, typed, effect, got>>
    /\ UNCHANGED clients

\* The handler inserts its row before it returns.
Respond ==
    /\ proc' = "writing"
    /\ response' = plan[conn].size
    /\ effect' = IF plan[conn].kind = "unsupported" THEN effect ELSE effect \cup {conn}

CalculateResponse ==
    /\ proc = "calculating" /\ Parses
    /\ IF plan[conn].kind = "prepare" /\ ~setup.auto_mode
       THEN proc' = "asking" /\ UNCHANGED <<response, effect>>
       ELSE Respond
    /\ UNCHANGED <<setup, starts, conn, backlog, buf, length, link, sent, refused, got>>
    /\ UNCHANGED <<clients, operator>>

\* getline.  Only t and n end the loop; at the end of the input getline returns
\* an empty line for ever, which is a loop without an effect.
GetUserInput ==
    /\ proc = "asking" /\ lines # << >>
    /\ lines' = Tail(lines)
    /\ IF Head(lines) \in {"t", "n"}
       THEN Respond
       ELSE UNCHANGED <<proc, response, effect>>
    /\ UNCHANGED <<setup, starts, conn, backlog, buf, length, link, sent, typed, refused, got>>
    /\ UNCHANGED clients

\* The header has room for HEADER_LENGTH digits and the final zero; sprintf_s
\* ends the process when the number needs more.
Fits_Always(size) == TRUE
Fits(size) == size < 10^HEADER_LENGTH

\* What the receiver takes for the header: the first HEADER_LENGTH digits.
MakeHeader(size) == IF size < 10^HEADER_LENGTH THEN size ELSE size \div 10

\* write throws when the client has gone, or the bytes are lost.
WriteResponse ==
    /\ proc = "writing" /\ Fits(response)
    /\ got' = IF conn \in gone THEN got
              ELSE [got EXCEPT ![conn] = [header |-> MakeHeader(response), size |-> response]]
    /\ NextConnection
    /\ UNCHANGED <<setup, starts, backlog, buf, length, response, sent, effect, refused>>
    /\ UNCHANGED <<clients, operator>>

\* The end of the process resets every connection.
Terminate ==
    /\ proc = "writing" /\ ~Fits(response)
    /\ proc' = "down"
    /\ conn' = NoClient
    /\ backlog' = << >>
    /\ link' = [c \in Clients |-> IF link[c] \in {"waiting", "accepted"} THEN "reset" ELSE link[c]]
    /\ UNCHANGED <<setup, starts, buf, length, response, sent, effect, refused, got>>
    /\ UNCHANGED <<clients, operator>>

-----------------------------------------------------------------------------
(* Clients and the operator.                                                 *)
Connect(c) ==
    /\ Listening /\ link[c] = "none" /\ Len(backlog) < MaxBacklog
    /\ link' = [link EXCEPT ![c] = "waiting"]
    /\ backlog' = Append(backlog, c)
    /\ UNCHANGED <<setup, sent, got, server, clients, operator>>

Open(c) == link[c] \in {"waiting", "accepted"} /\ c \notin gone

Send(c) ==
    /\ Open(c) /\ left[c] > 0
    /\ left' = [left EXCEPT ![c] = @ - 1]
    /\ sent' = [sent EXCEPT ![c] = @ + 1]
    /\ UNCHANGED <<setup, backlog, plan, link, gone, got, server, operator>>

\* A close leaves what has arrived to be read, a reset discards it.
Close(c) ==
    /\ Open(c)
    /\ gone' = gone \cup {c}
    /\ sent' \in {sent, [sent EXCEPT ![c] = 0]}
    /\ UNCHANGED <<setup, backlog, plan, link, left, got, server, operator>>

Type(line) ==
    /\ typed < MaxLines
    /\ typed' = typed + 1
    /\ lines' = Append(lines, line)
    /\ UNCHANGED <<setup, backlog, link, sent, got, server, clients>>

Loop ==
    \/ Accept \/ ReadHeader \/ ReadBody \/ ReadFails
    \/ CalculateThrows \/ LogThrows \/ CalculateResponse \/ GetUserInput
    \/ WriteResponse \/ Terminate

Next ==
    \/ ReadConfig \/ InitDatabase \/ Listen
    \/ Loop
    \/ \E c \in Clients : Connect(c) \/ Send(c) \/ Close(c)
    \/ \E line \in {"t", "n", "other"} : Type(line)

Spec == Init /\ [][Next]_vars
FairSpec == Spec /\ WF_vars(Loop)
=============================================================================
