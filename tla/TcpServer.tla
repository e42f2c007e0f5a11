------------------------------ MODULE TcpServer ------------------------------
(***************************************************************************)
(* tap::communication::TCPServer, the server of a program that runs on a   *)
(* host: one client at a time, to which messages are written and from      *)
(* which they are read, with as many system calls as that takes.  Each of  *)
(* the calls may do a part of the work, be interrupted, or fail.           *)
(***************************************************************************)
EXTENDS Integers, SequencesExt

CONSTANTS
    Clients,
    LISTEN_QUEUE_SIZE,
    MessageLengths,  \* of the messages that are written and read
    Word,            \* 2^16, that a length is passed through
    MaxSent,         \* bounds the bytes of a client
    MaxWrites        \* bounds the messages to the clients

VARIABLES
    socketOpened,          \* the constructor went through
    listening,             \* the clients that wait to be accepted
    mainClientDescriptor,  \* the client, or "none"
    open,                  \* clients whose descriptors the process holds
    call,                  \* the function that is running, its arguments and variables
    coming,                \* for each client, its bytes that were not read
    gone,                  \* the clients that closed their end
    delivered,             \* history: the bytes that each client got
    expected,              \* history: the bytes of the messages that were written to it
    writes,                \* history: how many messages that were
    outcome                \* history: how the last read ended, until the next call

tcpVars == <<socketOpened, listening, mainClientDescriptor, open, call, coming, gone,
             delivered, expected, writes, outcome>>

None == "none"
Idle == [function |-> None]
NothingRead == [ended |-> None]

Init ==
    /\ socketOpened = FALSE
    /\ listening = <<>>
    /\ mainClientDescriptor = None
    /\ open = {}
    /\ call = Idle
    /\ coming = [c \in Clients |-> <<>>]
    /\ gone = {}
    /\ delivered = [c \in Clients |-> <<>>]
    /\ expected = [c \in Clients |-> <<>>]
    /\ writes = 0
    /\ outcome = NothingRead

(* When one of its calls fails it throws, and there is no server. *)
TCPServer ==
    /\ ~socketOpened
    /\ socketOpened' = TRUE
    /\ UNCHANGED <<listening, mainClientDescriptor, open, call, coming, gone, delivered,
                   expected, writes, outcome>>

(* External: a client connects, sends all its bytes, and closes its end. *)
Connect(c) ==
    /\ socketOpened /\ Len(listening) < LISTEN_QUEUE_SIZE
    /\ c \notin ToSet(listening) \union open \union gone
    /\ listening' = Append(listening, c)
    /\ \E n \in 0 .. MaxSent : coming' = [coming EXCEPT ![c] = [i \in 1 .. n |-> i]]
    /\ UNCHANGED <<socketOpened, mainClientDescriptor, open, call, gone, delivered, expected,
                   writes, outcome>>

Disconnect(c) ==
    /\ c \in open \ gone
    /\ gone' = gone \union {c}
    /\ UNCHANGED <<socketOpened, listening, mainClientDescriptor, open, call, coming, delivered,
                   expected, writes, outcome>>

(* accept() blocks as long as nobody comes, and may fail.  The client of before
   is not closed, and its descriptor forgotten in both cases. *)
getConnection ==
    /\ call = Idle
    /\ \/ /\ listening # <<>>
          /\ mainClientDescriptor' = Head(listening)
          /\ listening' = Tail(listening)
          /\ open' = open \union {mainClientDescriptor'}
       \/ /\ socketOpened
          /\ mainClientDescriptor' = None
          /\ UNCHANGED <<listening, open>>
    /\ outcome' = NothingRead
    /\ UNCHANGED <<socketOpened, call, coming, gone, delivered, expected, writes>>

closeConnection ==
    /\ call = Idle
    /\ open' = open \ {mainClientDescriptor}
    /\ gone' = gone \union (open \intersect {mainClientDescriptor})
    /\ mainClientDescriptor' = None
    /\ outcome' = NothingRead
    /\ UNCHANGED <<socketOpened, listening, call, coming, delivered, expected, writes>>

BytesOf(message, length) == [i \in 1 .. length |-> <<message, i>>]

(* The length has 32 bits here, and 16 where it is passed to. *)
writeToClient ==
    /\ call = Idle /\ writes < MaxWrites
    /\ IF mainClientDescriptor = None
       THEN UNCHANGED <<call, expected, writes>>
       ELSE \E messageLength \in MessageLengths :
              /\ writes' = writes + 1
              /\ call' = [function |-> "writeMessage", bytes |-> messageLength % Word,
                          bytesWritten |-> 0]
              /\ expected' = [expected EXCEPT ![mainClientDescriptor] =
                                  @ \o BytesOf(writes', messageLength % Word)]
    /\ outcome' = NothingRead
    /\ UNCHANGED <<socketOpened, listening, mainClientDescriptor, open, coming, gone, delivered>>

(* Mutant: the rest is written from the beginning of the message. *)
WrittenAgain(n) == BytesOf(writes, n)

Written(n) == SubSeq(BytesOf(writes, call.bytesWritten + n), call.bytesWritten + 1,
                     call.bytesWritten + n)

(* One write().  Interrupted it is tried again, which changes nothing; if it
   fails, for whatever reason, writeToClient() prints so and returns, and the
   rest of the message is given up. *)
writeMessage ==
    /\ call.function = "writeMessage"
    /\ \/ /\ call.bytesWritten < call.bytes
          /\ \E n \in 1 .. call.bytes - call.bytesWritten :
              /\ delivered' = [delivered EXCEPT ![mainClientDescriptor] = @ \o Written(n)]
              /\ call' = [call EXCEPT !.bytesWritten = @ + n]
          /\ UNCHANGED expected
       \/ /\ call.bytesWritten < call.bytes
          /\ call' = Idle
          /\ expected' = [expected EXCEPT ![mainClientDescriptor] =
                              delivered[mainClientDescriptor]]
          /\ UNCHANGED delivered
       \/ /\ call.bytesWritten >= call.bytes
          /\ call' = Idle
          /\ UNCHANGED <<delivered, expected>>
    /\ UNCHANGED <<socketOpened, listening, mainClientDescriptor, open, coming, gone, writes,
                   outcome>>

(* A program reads from the client it has; readMessage() is given its
   descriptor and a buffer with one byte more for the zero. *)
StartRead ==
    /\ call = Idle /\ mainClientDescriptor # None
    /\ \E messageLength \in MessageLengths :
        /\ messageLength < Word
        /\ call' = [function |-> "readMessage", messageLength |-> messageLength, first |-> TRUE,
                    bytesRead |-> 0, readBuffer |-> <<>>]
    /\ outcome' = NothingRead
    /\ UNCHANGED <<socketOpened, listening, mainClientDescriptor, open, coming, gone, delivered,
                   expected, writes>>

(* One read() that gives some bytes; none when the client closed its end. *)
Reads(c) ==
    \E n \in 0 .. call.messageLength - call.bytesRead :
        /\ n <= Len(coming[c])
        /\ n = 0 => call.messageLength = 0 \/ (coming[c] = <<>> /\ c \in gone)
        /\ call' = [call EXCEPT !.first = FALSE, !.bytesRead = @ + n,
                                !.readBuffer = @ \o SubSeq(coming[c], 1, n)]
        /\ coming' = [coming EXCEPT ![c] = SubSeq(@, n + 1, Len(@))]
        /\ UNCHANGED outcome

Ended(how) ==
    /\ call' = Idle
    /\ outcome' = [ended |-> how, readBuffer |-> call.readBuffer,
                   messageLength |-> call.messageLength]

(* Mutant: an end of the input ends the loop. *)
ReadAllOrClosed(c) ==
    /\ \/ call.bytesRead >= call.messageLength
       \/ ~call.first /\ coming[c] = <<>> /\ c \in gone
    /\ Ended("returned")
    /\ UNCHANGED coming

ReadAll(c) ==
    /\ ~call.first /\ call.bytesRead >= call.messageLength
    /\ Ended("returned")
    /\ UNCHANGED coming

(* The -1 of the first read() that fails is taken for 65535 bytes; later ones
   are tried again when they were interrupted, or thrown. *)
ReadFails ==
    /\ call.first \/ call.bytesRead < call.messageLength
    /\ \/ call.first /\ Ended("first failed")
       \/ ~call.first /\ Ended("threw")
    /\ UNCHANGED coming

readMessage ==
    /\ call.function = "readMessage"
    /\ \/ (call.first \/ call.bytesRead < call.messageLength) /\ Reads(mainClientDescriptor)
       \/ ReadAll(mainClientDescriptor)
       \/ ReadFails
    /\ UNCHANGED <<socketOpened, listening, mainClientDescriptor, open, gone, delivered,
                   expected, writes>>

Next ==
    \/ TCPServer
    \/ \E c \in Clients : Connect(c) \/ Disconnect(c)
    \/ getConnection
    \/ closeConnection
    \/ writeToClient
    \/ writeMessage
    \/ StartRead
    \/ readMessage

-----------------------------------------------------------------------------
(***************************************************************************)
(* writeMessage() "ensures that all bytes are sent" (tcp_server.cpp:220):  *)
(* a client has got the messages that were written to it, each of them     *)
(* once, whole and in order, but for what is still to be written and for   *)
(* the rest of those at which a write() failed.  "All" is what the 16 bits *)
(* of its parameter say: of a message of 65536 bytes or more the client    *)
(* gets the length modulo 65536.                                           *)
(***************************************************************************)
ClientsGetMessages ==
    \A c \in Clients :
        /\ IsPrefix(delivered[c], expected[c])
        /\ call = Idle => delivered[c] = expected[c]

(***************************************************************************)
(* "Reads a message to the given readBuffer ensuring that messageLength    *)
(* bytes are read" (tcp_server.hpp:109-110): what is returned without an   *)
(* exception is the next bytes that the client sent.  Not so when the      *)
(* first of the read() fails.                                              *)
(***************************************************************************)
ReturnsWholeMessages ==
    outcome.ended = "returned" =>
        LET rest == coming[mainClientDescriptor] IN
        /\ Len(outcome.readBuffer) = outcome.messageLength
        /\ \E before \in 0 .. MaxSent :
              outcome.readBuffer \o rest = [i \in 1 .. Len(outcome.readBuffer \o rest) |-> before + i]
=============================================================================
