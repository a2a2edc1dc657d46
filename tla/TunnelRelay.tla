---------------------------- MODULE TunnelRelay ----------------------------
(***************************************************************************)
(* One connection relayed through an SSH tunnel (tunnel.rs:                *)
(* forward_connection): one thread reads both ends in turn and writes what *)
(* it read to the other end, retrying while that end takes no more.        *)
(*                                                                         *)
(* The ends are a database driver, which sends a request and reads its     *)
(* whole answer, and a server.  Either may close, go away or stop reading  *)
(* at any time, and the SSH session between them may break: reads and      *)
(* writes then fail, which ends the relay (`failed`: it returned Err where *)
(* it is).  Chunks are numbered in the order they are sent; a send window  *)
(* holds a few of them.                                                    *)
(***************************************************************************)
EXTENDS Naturals, Sequences, SequencesExt

CONSTANTS
  RelayedRequests,          \* bound: requests of the driver
  RequestSize, AnswerSize,  \* bound: chunks of each
  Window,                   \* chunks a socket or channel buffers
  BufferSize                \* chunks one read returns at most

ASSUME RelayAssumption ==
  {RelayedRequests, RequestSize, AnswerSize, Window, BufferSize} \subseteq Nat \ {0}

VARIABLES
  socketUp, socketDown,    \* the local TCP connection: driver to relay, relay to driver
  channelUp, channelDown,  \* the SSH channel: relay to server, server to relay
  driver,    \* [sent, got, closed, gone] of the driver; gone: it dropped its socket
  server,    \* [got, sent, eof, closed] of the server
  stuck,     \* the ends that have stopped reading
  lost,      \* the SSH session is broken
  relay,     \* where the thread is
  buf,       \* what it has read and not written yet
  tcpEof,    \* tcp_eof
  failed,    \* it ended with an error
  shutdown   \* the tunnel was dropped

trVars == <<socketUp, socketDown, channelUp, channelDown, driver, server, stuck, lost, relay, buf, tcpEof,
            failed, shutdown>>

RelayPlaces == {"readTcp", "writeChannel", "sendEof", "readChannel", "writeTcp", "ended"}
TrTypeOK ==
  /\ socketUp \in Seq(Nat) /\ socketDown \in Seq(Nat) /\ channelUp \in Seq(Nat) /\ channelDown \in Seq(Nat)
  /\ \A s \in {socketUp, socketDown, channelUp, channelDown} : Len(s) <= Window
  /\ driver \in [sent : Nat, got : Seq(Nat), closed : BOOLEAN, gone : BOOLEAN]
  /\ server \in [got : Seq(Nat), sent : Nat, eof : BOOLEAN, closed : BOOLEAN]
  /\ stuck \subseteq {"driver", "server"} /\ lost \in BOOLEAN
  /\ relay \in RelayPlaces
  /\ buf \in Seq(Nat) /\ Len(buf) <= BufferSize
  /\ tcpEof \in BOOLEAN /\ failed \in BOOLEAN /\ shutdown \in BOOLEAN

TrInit ==
  /\ socketUp = <<>> /\ socketDown = <<>> /\ channelUp = <<>> /\ channelDown = <<>>
  /\ driver = [sent |-> 0, got |-> <<>>, closed |-> FALSE, gone |-> FALSE]
  /\ server = [got |-> <<>>, sent |-> 0, eof |-> FALSE, closed |-> FALSE]
  /\ stuck = {} /\ lost = FALSE
  /\ relay = "readTcp" /\ buf = <<>> /\ tcpEof = FALSE /\ failed = FALSE /\ shutdown = FALSE

ends == <<driver, server>>
buffers == <<socketUp, socketDown, channelUp, channelDown>>
thread == <<relay, buf, tcpEof, failed, shutdown>>
Over == relay = "ended" \/ failed

----------------------------------------------------------------------------
(* The two ends *)

Answered(n) == Len(driver.got) >= n * AnswerSize
DriverSends ==
  /\ ~driver.closed /\ ~Over
  /\ driver.sent < RelayedRequests * RequestSize
  /\ Answered(driver.sent \div RequestSize)
  /\ Len(socketUp) < Window
  /\ socketUp' = Append(socketUp, driver.sent + 1)
  /\ driver' = [driver EXCEPT !.sent = @ + 1]
  /\ UNCHANGED <<socketDown, channelUp, channelDown, server, stuck, lost, thread>>

DriverReads ==
  /\ ~driver.gone /\ "driver" \notin stuck
  /\ socketDown # <<>>
  /\ driver' = [driver EXCEPT !.got = Append(@, Head(socketDown))]
  /\ socketDown' = Tail(socketDown)
  /\ UNCHANGED <<socketUp, channelUp, channelDown, server, stuck, lost, thread>>

(* It closes its side after a request, perhaps before the answer, or drops *)
(* its socket whatever it was doing.                                       *)
DriverCloses ==
  /\ ~driver.closed
  /\ driver.sent % RequestSize = 0
  /\ driver' = [driver EXCEPT !.closed = TRUE]
  /\ UNCHANGED <<buffers, server, stuck, lost, thread>>
DriverGoes ==
  /\ ~driver.gone
  /\ driver' = [driver EXCEPT !.closed = TRUE, !.gone = TRUE]
  /\ UNCHANGED <<buffers, server, stuck, lost, thread>>

ServerReads ==
  /\ ~server.closed /\ "server" \notin stuck
  /\ channelUp # <<>>
  /\ server' = [server EXCEPT !.got = Append(@, Head(channelUp))]
  /\ channelUp' = Tail(channelUp)
  /\ UNCHANGED <<socketUp, socketDown, channelDown, driver, stuck, lost, thread>>

ServerAnswers ==
  /\ ~server.closed /\ ~lost
  /\ server.sent < (Len(server.got) \div RequestSize) * AnswerSize
  /\ Len(channelDown) < Window
  /\ channelDown' = Append(channelDown, server.sent + 1)
  /\ server' = [server EXCEPT !.sent = @ + 1]
  /\ UNCHANGED <<socketUp, socketDown, channelUp, driver, stuck, lost, thread>>

(* After the driver's EOF, or first: a timeout, an error, a restart.       *)
ServerCloses ==
  /\ ~server.closed
  /\ server' = [server EXCEPT !.closed = TRUE]
  /\ UNCHANGED <<buffers, driver, stuck, lost, thread>>

StopsReading(end) ==
  /\ end \notin stuck /\ stuck' = stuck \cup {end}
  /\ UNCHANGED <<buffers, ends, lost, thread>>
SessionBreaks ==
  /\ ~lost /\ lost' = TRUE
  /\ UNCHANGED <<buffers, ends, stuck, thread>>

----------------------------------------------------------------------------
(* forward_connection *)

At(place) == relay = place /\ ~failed /\ UNCHANGED <<stuck, lost, failed, shutdown>>
Taken(s) == IF Len(s) <= BufferSize THEN s ELSE SubSeq(s, 1, BufferSize)
Rest(s) == SubSeq(s, Len(Taken(s)) + 1, Len(s))

(* The head of the loop.  At the driver's EOF the channel gets one, too.   *)
EndOnEof == relay' = "ended" /\ UNCHANGED tcpEof  \* fault: the answer under way is cut off
PassEofOn == relay' = "sendEof" /\ tcpEof' = TRUE
ReadTcp ==
  /\ At("readTcp")
  /\ \/ /\ shutdown
        /\ relay' = "ended"
        /\ UNCHANGED <<socketUp, buf, tcpEof>>
     \/ /\ ~shutdown /\ ~tcpEof /\ socketUp # <<>>
        /\ buf' = Taken(socketUp)
        /\ socketUp' = Rest(socketUp)
        /\ relay' = "writeChannel"
        /\ UNCHANGED tcpEof
     \/ /\ ~shutdown /\ ~tcpEof /\ socketUp = <<>> /\ driver.closed
        /\ PassEofOn
        /\ UNCHANGED <<socketUp, buf>>
     \/ /\ ~shutdown
        /\ tcpEof \/ (socketUp = <<>> /\ ~driver.closed)
        /\ relay' = "readChannel"
        /\ UNCHANGED <<socketUp, buf, tcpEof>>
  /\ UNCHANGED <<socketDown, channelUp, channelDown, ends>>

(* write_all_nonblocking: as much as the other end takes, then the rest.   *)
(* The loop does not look at `shutdown`.                                   *)
GiveUpWhenFull(chunks) == <<>>  \* fault: what was not taken at once is lost
Written(chunks) == Tail(chunks)
WriteChannel ==
  /\ At("writeChannel")
  /\ Len(channelUp) < Window
  /\ channelUp' = Append(channelUp, Head(buf))
  /\ buf' = Written(buf)
  /\ relay' = IF buf' = <<>> THEN "readChannel" ELSE "writeChannel"
  /\ UNCHANGED <<socketUp, socketDown, channelDown, ends, tcpEof>>

(* write_all_nonblocking_channel_eof, whose error nobody looks at.         *)
SendEof ==
  /\ At("sendEof")
  /\ \/ Len(channelUp) < Window /\ server' = [server EXCEPT !.eof = TRUE]
     \/ (server.closed \/ lost) /\ UNCHANGED server
  /\ relay' = "readChannel"
  /\ UNCHANGED <<buffers, driver, buf, tcpEof>>

(* The channel is at its end when the server has closed and all was read.  *)
ReadChannel ==
  /\ At("readChannel")
  /\ \/ /\ channelDown # <<>>
        /\ buf' = Taken(channelDown)
        /\ channelDown' = Rest(channelDown)
        /\ relay' = "writeTcp"
     \/ /\ channelDown = <<>> /\ server.closed
        /\ relay' = "ended"
        /\ UNCHANGED <<channelDown, buf>>
     \/ /\ channelDown = <<>> /\ ~server.closed /\ ~lost
        /\ relay' = "readTcp"
        /\ UNCHANGED <<channelDown, buf>>
  /\ UNCHANGED <<socketUp, socketDown, channelUp, ends, tcpEof>>

WriteTcp ==
  /\ At("writeTcp")
  /\ Len(socketDown) < Window
  /\ socketDown' = Append(socketDown, Head(buf))
  /\ buf' = Written(buf)
  /\ relay' = IF buf' = <<>> THEN "readTcp" ELSE "writeTcp"
  /\ UNCHANGED <<socketUp, channelUp, channelDown, ends, tcpEof>>

(* A read or a write fails: the socket's once the driver is gone, a write  *)
(* to the channel once the server has closed, either on a broken session.  *)
Fail ==
  /\ ~failed /\ failed' = TRUE
  /\ \/ relay = "readTcp" /\ ~shutdown /\ ~tcpEof /\ driver.gone
     \/ relay = "writeChannel" /\ (server.closed \/ lost)
     \/ relay = "readChannel" /\ lost
     \/ relay = "writeTcp" /\ driver.gone
  /\ UNCHANGED <<buffers, ends, stuck, lost, relay, buf, tcpEof, shutdown>>

(* Drop of SshTunnel. *)
DropTunnel ==
  /\ ~shutdown
  /\ shutdown' = TRUE
  /\ UNCHANGED <<buffers, ends, stuck, lost, relay, buf, tcpEof, failed>>

----------------------------------------------------------------------------
RelayStep == ReadTcp \/ WriteChannel \/ SendEof \/ ReadChannel \/ WriteTcp \/ Fail
EndsStep == DriverSends \/ DriverReads \/ ServerReads \/ ServerAnswers \/ ServerCloses
Trouble == DriverCloses \/ DriverGoes \/ SessionBreaks \/ \E end \in {"driver", "server"} : StopsReading(end)
TrNext == RelayStep \/ EndsStep \/ Trouble \/ DropTunnel
TrSpec == TrInit /\ [][TrNext]_trVars

(* The thread runs.  An end that has not stopped reading reads, and goes   *)
(* on with its request or answer; a server that got EOF closes.            *)
TrFairSpec ==
  /\ TrSpec /\ WF_trVars(RelayStep)
  /\ WF_trVars(DriverSends) /\ WF_trVars(DriverReads) /\ WF_trVars(ServerReads)
  /\ WF_trVars(ServerAnswers) /\ WF_trVars(server.eof /\ ServerCloses)

----------------------------------------------------------------------------
(* Properties *)

Numbered(n) == [i \in 1 .. n |-> i]

(* Both ends get what the other one sent, in its order, nothing twice and  *)
(* nothing left out in between, however small the windows are, whatever    *)
(* fails and whoever closes first.                                         *)
RelayKeepsOrder ==
  /\ server.got = Numbered(Len(server.got)) /\ Len(server.got) <= driver.sent
  /\ driver.got = Numbered(Len(driver.got)) /\ Len(driver.got) <= server.sent

(* A relay that ends without an error, and whose tunnel was not dropped,   *)
(* has handed over everything the server sent: after a half-close of the   *)
(* driver, and when the server closes first.  One that ends with an error  *)
(* may cut off what was on its way (a server's last words to a driver that *)
(* is writing to it).                                                      *)
NothingCutOff ==
  relay = "ended" /\ ~shutdown => Len(driver.got) + Len(socketDown) = server.sent

(* One thread for both directions is enough for requests and answers that  *)
(* are larger than every window: unless an end, the session or the tunnel  *)
(* gives up, every request is answered.  (Full duplex would deadlock it.)  *)
EveryRequestIsAnswered ==
  \A n \in 1 .. RelayedRequests :
    driver.sent > (n - 1) * RequestSize
      ~> shutdown \/ driver.gone \/ server.closed \/ lost \/ stuck # {} \/ Answered(n)

(* The thread is writing to an end that takes nothing any more.            *)
WritesInVain ==
  \/ relay \in {"writeChannel", "sendEof"} /\ "server" \in stuck /\ Len(channelUp) = Window
  \/ relay = "writeTcp" /\ "driver" \in stuck /\ Len(socketDown) = Window

(* Dropping the tunnel ends its relays, also one that is writing, and so   *)
(* does a driver that closes.  Not in the code's power: a relay that is    *)
(* writing to an end that has stopped reading, since its loop does not     *)
(* look at `shutdown`.                                                     *)
DropEndsRelay == shutdown \/ driver.closed ~> Over \/ WritesInVain

(* The relay is a transparent pair of byte streams.                        *)
RelayIsTransparent == RelayKeepsOrder /\ NothingCutOff
=============================================================================
