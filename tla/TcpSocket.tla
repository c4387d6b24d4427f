----------------------------- MODULE TcpSocket -----------------------------
(***************************************************************************)
(* The TCP sockets that the processes of a proxy share.  A socket is the   *)
(* kernel's, not a process's: fork() gives every child the same sockets,   *)
(* and shutdown(s, SHUT_RDWR) by one of them ends the socket for all.      *)
(*                                                                         *)
(* Each socket joins the proxy to one peer.  The n-th unit of data of the  *)
(* peer of s is the number Base[s] + n, so that every unit of every stream *)
(* can be told from the others.  This is kernel code, modelled from how    *)
(* the proxies under modules/proxy/ use it (blocking send and recv,        *)
(* SIGPIPE with its default action, shutdown of both directions).          *)
(***************************************************************************)
EXTENDS Naturals, Sequences

CONSTANTS
    Sock,      \* the sockets
    SockCap,   \* units a direction of a socket holds before send() blocks
    Base       \* Base[s] + n names the n-th unit the peer of s writes

ASSUME SockCapAssumption == SockCap \in Nat \ {0}
ASSUME BaseAssumption == Base \in [Sock -> Nat]

VARIABLES
    inq,     \* inq[s]: units from the peer that recv() has yet to return
    outq,    \* outq[s]: units given to send() that the peer has yet to read
    got,     \* got[s]: every unit the peer has read, in order
    sent,    \* sent[s]: how many units the peer has written
    shut,    \* shut[s]: some process has called shutdown(s, SHUT_RDWR)
    peer     \* peer[s]: the peer's end

sockVars == <<inq, outq, got, sent, shut, peer>>

\* "away": not connected; "half": has shut its writing side; "closed": is gone.
PeerState == {"away", "open", "half", "closed"}

SockTypeOK ==
    /\ inq  \in [Sock -> Seq(Nat)]
    /\ outq \in [Sock -> Seq(Nat)]
    /\ got  \in [Sock -> Seq(Nat)]
    /\ sent \in [Sock -> Nat]
    /\ shut \in [Sock -> BOOLEAN]
    /\ peer \in [Sock -> PeerState]
    /\ \A s \in Sock : Len(inq[s]) =< SockCap /\ Len(outq[s]) =< SockCap

\* Every queue empty; the sockets of connected are connected.
SockInit(connected) ==
    /\ inq  = [s \in Sock |-> <<>>]
    /\ outq = [s \in Sock |-> <<>>]
    /\ got  = [s \in Sock |-> <<>>]
    /\ sent = [s \in Sock |-> 0]
    /\ shut = [s \in Sock |-> FALSE]
    /\ peer = [s \in Sock |-> IF s \in connected THEN "open" ELSE "away"]

----------------------------------------------------------------------------
(* What a process of the proxy can find or do.                             *)

\* recv() returns 0 or -1: all data is read and an end is closed.
AtEnd(s) == inq[s] = <<>> /\ (shut[s] \/ peer[s] \in {"half", "closed"})

\* send() can deliver: nobody has shut the socket and the peer still reads.
Writable(s) == ~shut[s] /\ peer[s] \in {"open", "half"}

\* send() raises SIGPIPE: the socket was shut, or the peer's reset is back.
Broken(s) == shut[s] \/ peer[s] = "closed"

\* recv() of the first k units.
Receive(s, k) ==
    /\ inq' = [inq EXCEPT ![s] = SubSeq(@, k + 1, Len(@))]
    /\ UNCHANGED <<outq, got, sent, shut, peer>>

\* send() moves one unit into the socket; it blocks while there is no room.
Transmit(s, unit) ==
    /\ Writable(s)
    /\ Len(outq[s]) < SockCap
    /\ outq' = [outq EXCEPT ![s] = Append(@, unit)]
    /\ UNCHANGED <<inq, got, sent, shut, peer>>

\* connect() succeeds.
Connected(s) ==
    /\ peer' = [peer EXCEPT ![s] = "open"]
    /\ UNCHANGED <<inq, outq, got, sent, shut>>

\* shutdown(s, SHUT_RDWR).
ShutDown(s) ==
    /\ shut' = [shut EXCEPT ![s] = TRUE]
    /\ UNCHANGED <<inq, outq, got, sent, peer>>

----------------------------------------------------------------------------
(* What the peer and the kernel can do.  gone: no process has s open.      *)

PeerRead(s) ==
    /\ peer[s] \in {"open", "half"}
    /\ outq[s] # <<>>
    /\ got' = [got EXCEPT ![s] = Append(@, Head(outq[s]))]
    /\ outq' = [outq EXCEPT ![s] = Tail(@)]
    /\ UNCHANGED <<inq, sent, shut, peer>>

PeerWrite(s, gone) ==
    /\ peer[s] = "open"
    /\ ~shut[s] /\ ~gone
    /\ Len(inq[s]) < SockCap
    /\ sent' = [sent EXCEPT ![s] = @ + 1]
    /\ inq' = [inq EXCEPT ![s] = Append(@, Base[s] + sent[s] + 1)]
    /\ UNCHANGED <<outq, got, shut, peer>>

PeerHalfClose(s) ==
    /\ peer[s] = "open"
    /\ peer' = [peer EXCEPT ![s] = "half"]
    /\ UNCHANGED <<inq, outq, got, sent, shut>>

PeerClose(s) ==
    /\ peer[s] \in {"open", "half"}
    /\ peer' = [peer EXCEPT ![s] = "closed"]
    /\ UNCHANGED <<inq, outq, got, sent, shut>>

\* Data that arrives for a socket shut for reading, or a last close() with
\* unread data, resets the connection: what was still to be sent is dropped.
Reset(s, gone) ==
    /\ peer[s] = "open" \/ inq[s] # <<>>
    /\ shut[s] \/ gone
    /\ \E k \in 0 .. Len(outq[s]) - 1 :
          outq' = [outq EXCEPT ![s] = SubSeq(@, 1, k)]
    /\ UNCHANGED <<inq, got, sent, shut, peer>>

\* The peer has read everything it will ever get and reads end of file.
PeerAtEnd(s, gone) == outq[s] = <<>> /\ (shut[s] \/ gone)
=============================================================================
