----------------------------- MODULE Forwarder -----------------------------
(***************************************************************************)
(* The forwarding loop that every proxy under modules/proxy/ is built of:  *)
(* a process receives a buffer from one socket, sends it to another, and   *)
(* at the end of the data shuts both down.  The proxies differ in what     *)
(* else a loop does with each buffer.                                      *)
(***************************************************************************)
EXTENDS TcpSocket

CONSTANTS
    BufSize,       \* BUF_SIZE: most units one recv() or read() returns
    ShortCounts    \* send() that is cut short returns a count: TRUE in C, but in
                   \* Java write() tries the rest again and throws

ASSUME BufSizeAssumption == BufSize \in Nat \ {0}
ASSUME ShortCountsAssumption == ShortCounts \in BOOLEAN

VARIABLES
    pc,     \* pc[p]: the next step of process p
    buf,    \* buf[p]: the data p is handing on
    off     \* off[p]: how much of buf[p] the current send() has taken

\* Not yet forked, returned from its handler, or killed by SIGPIPE.
Over == {"none", "done", "killed"}

\* The steps of a loop.
LoopStep == {"recv", "send", "shut1", "shut2"}

\* The units in a queue.
Units(q) == {q[i] : i \in 1 .. Len(q)}

Goto(p, step) == pc' = [pc EXCEPT ![p] = step]

\* n = recv(s): data goes to p's buffer, an end of file or an error ends the
\* loop.
Recv(p, s, more, end) ==
    /\ pc[p] = "recv"
    /\ \/ /\ \E k \in 1 .. BufSize :
                /\ k =< Len(inq[s])
                /\ buf' = [buf EXCEPT ![p] = SubSeq(inq[s], 1, k)]
                /\ Receive(s, k)
          /\ Goto(p, more)
       \/ /\ AtEnd(s)
          /\ Goto(p, end)
          /\ UNCHANGED <<sockVars, buf>>
    /\ UNCHANGED off

\* Mutant: after a short write the buffer is sent again from its start.
NextUnit_Restart(p) == buf[p][1]

\* The unit send() hands over next, and whether it is the buffer's last.
NextUnit(p) == buf[p][off[p] + 1]
LastUnit(p) == off[p] + 1 = Len(buf[p])

\* A buffer is dead once the loop goes back to read the next one or p is killed.
Drop(p, next) ==
    buf' = [buf EXCEPT ![p] = IF next \in {"recv", "killed"} THEN <<>> ELSE @]

\* send(s) is cut short, with a part of the buffer taken.
CutShort(p, s) == ShortCounts /\ off[p] > 0 /\ Broken(s)

\* send(s): its result is not looked at, so data for a peer that is gone is
\* lost in silence, as is the rest of a buffer when send() is cut short; or
\* SIGPIPE kills p.
Send(p, at, s, next) ==
    /\ pc[p] = at
    /\ \/ /\ Transmit(s, NextUnit(p))
          /\ IF LastUnit(p)
             THEN /\ off' = [off EXCEPT ![p] = 0]
                  /\ Goto(p, next)
                  /\ Drop(p, next)
             ELSE /\ off' = [off EXCEPT ![p] = @ + 1]
                  /\ UNCHANGED <<pc, buf>>
       \/ /\ (peer[s] = "closed" /\ ~shut[s]) \/ CutShort(p, s)
          /\ off' = [off EXCEPT ![p] = 0]
          /\ Goto(p, next)
          /\ Drop(p, next)
          /\ UNCHANGED sockVars
       \/ /\ Broken(s) /\ ~CutShort(p, s)
          /\ off' = [off EXCEPT ![p] = 0]
          /\ Goto(p, "killed")
          /\ Drop(p, "killed")
          /\ UNCHANGED sockVars

\* shutdown(s, SHUT_RDWR), close(s).
Shut(p, at, s, next) ==
    /\ pc[p] = at
    /\ ShutDown(s)
    /\ Goto(p, next)
    /\ UNCHANGED <<buf, off>>

\* The end of a loop: both sockets, one after the other, and exit.
Shut2(p, s1, s2) == Shut(p, "shut1", s1, "shut2") \/ Shut(p, "shut2", s2, "done")

\* The plain loop.
forward_data(p, src, dst) ==
    \/ Recv(p, src, "send", "shut1")
    \/ Send(p, "send", dst, "recv")
    \/ Shut2(p, dst, src)

\* while ((n = recv(s)) > 0): the data is thrown away.
Drain(p, s) ==
    /\ pc[p] = "recv"
    /\ \E k \in 1 .. BufSize : k =< Len(inq[s]) /\ Receive(s, k)
    /\ UNCHANGED <<pc, buf, off>>
DrainEnd(p, s) ==
    /\ pc[p] = "recv"
    /\ AtEnd(s)
    /\ Goto(p, "shut1")
    /\ UNCHANGED <<sockVars, buf, off>>
=============================================================================
