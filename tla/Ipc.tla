--------------------------------- MODULE Ipc ---------------------------------
(***************************************************************************)
(* The IPC socket (src/ipc.cpp) and its client nnwmctl                      *)
(* (src/nnwmctl/nnwmctl.cpp): a stream in each direction, each with the     *)
(* kernel's buffer and the compositor's.  The n-th line a client sends is   *)
(* some units 2n-1 of text and the newline 2n; the reply to it is one unit  *)
(* 2n-1 and the newline 2n.  What its Lua text does is left to the other    *)
(* modules.                                                                 *)
(***************************************************************************)
EXTENDS Naturals, SequencesExt

CONSTANTS
    Requests,    \* what a client may send: the length of the text of each line (an
                 \* empty one is skipped)
    ReadCap,     \* units in read_buf
    WriteCap,    \* units in write_buf
    SocketCap    \* units the kernel holds in a direction

ASSUME IpcAssumption ==
    /\ Requests \subseteq Seq(Nat \ {0}) /\ SocketCap \in Nat \ {0}
    /\ ReadCap \in Nat /\ ReadCap >= 2 /\ WriteCap \in Nat /\ WriteCap >= 2

VARIABLES
    lines,         \* the request of this client
    ipc_open,      \* the compositor has the connection
    read_buf,
    write_buf, write_off,
    write_source,  \* the write watcher is armed
    up, down,      \* in the kernel, towards the compositor and the client
    sent,          \* units the client has written
    peer,          \* "writing", "reading" (after SHUT_WR), "gone"
    got            \* what the client has read

ipcVars == <<lines, ipc_open, read_buf, write_buf, write_off, write_source, up, down, sent, peer, got>>

Unit == 1 .. 2 * Len(lines)
Request == FlattenSeq([n \in DOMAIN lines |-> [i \in 1 .. lines[n] |-> 2 * n - 1] \o <<2 * n>>])

IpcTypeOK ==
    /\ lines \in Requests
    /\ ipc_open \in BOOLEAN /\ write_source \in BOOLEAN
    /\ read_buf \in Seq(Unit) /\ Len(read_buf) <= ReadCap
    /\ write_buf \in Seq(Unit) /\ Len(write_buf) <= WriteCap
    /\ write_off \in 0 .. Len(write_buf)
    /\ up \in Seq(Unit) /\ Len(up) <= SocketCap
    /\ down \in Seq(Unit) /\ Len(down) <= SocketCap
    /\ sent \in 0 .. Len(Request)
    /\ peer \in {"writing", "reading", "gone"}
    /\ got \in Seq(Unit)

\* accept_ipc_client has made the connection of a client
IpcInit ==
    /\ lines \in Requests
    /\ ipc_open = TRUE
    /\ read_buf = <<>> /\ write_buf = <<>> /\ write_off = 0 /\ write_source = FALSE
    /\ up = <<>> /\ down = <<>> /\ got = <<>>
    /\ sent = 0 /\ peer = "writing"

Take(s, n) == SubSeq(s, 1, n)
Skip(s, n) == SubSeq(s, n + 1, Len(s))
Room == SocketCap - Len(down)
Smaller(m, n) == IF m < n THEN m ELSE n

-----------------------------------------------------------------------------
(* The compositor *)

\* the connection is torn down
Teardown ==
    /\ ipc_open' = FALSE
    /\ read_buf' = <<>> /\ write_buf' = <<>> /\ write_off' = 0 /\ write_source' = FALSE

\* what is left to write
Pending == Skip(write_buf, write_off)

\* handle_client_data appends a reply to the pending ones, or, when they do not
\* fit together, reply() writes it over them
Reply(out, n) ==
    LET new == <<2 * n - 1, 2 * n>>
    IN  IF Len(out.buf) + 2 <= WriteCap
        THEN [out EXCEPT !.buf = @ \o new]
        ELSE [buf |-> new, off |-> 0]

\* the newlines read, and what follows the last one
Newlines(s) == SelectSeq(s, LAMBDA u : u % 2 = 0)
Rest(s) == SelectSeq(s, LAMBDA u : \A v \in ToSet(Newlines(s)) : u > v)

\* handle_client_data: there is something to read and space to read it into
HandleClientData ==
    /\ ipc_open
    /\ LET n == Smaller(Len(up), ReadCap - Len(read_buf))
           text == read_buf \o Take(up, n)
           out == FoldLeft(LAMBDA o, u : Reply(o, u \div 2),
                           [buf |-> write_buf, off |-> write_off], Newlines(text))
       IN  /\ n > 0
           /\ up' = Skip(up, n)
           /\ read_buf' = Rest(text)
           /\ write_buf' = out.buf
           /\ write_off' = out.off
           /\ write_source' = (write_source \/ Newlines(text) # <<>>)
    /\ UNCHANGED <<lines, ipc_open, down, sent, peer, got>>

\* mutant: a close drops what is pending
FlushedNothing == <<>>

\* what a close flushes, as much as the kernel takes
Flushed == Take(Pending, Smaller(Len(Pending), Room))

\* mutant: only a full buffer ends the connection
HandleEofFull ==
    /\ ipc_open
    /\ up # <<>> /\ Len(read_buf) = ReadCap
    /\ down' = IF peer = "gone" THEN down ELSE down \o Flushed
    /\ Teardown
    /\ UNCHANGED <<lines, up, sent, peer, got>>

\* read() returns 0: the client shut down its side, or read_buf is full
HandleEof ==
    /\ ipc_open
    /\ \/ up = <<>> /\ peer # "writing"
       \/ up # <<>> /\ Len(read_buf) = ReadCap
    /\ down' = IF peer = "gone" THEN down ELSE down \o Flushed
    /\ Teardown
    /\ UNCHANGED <<lines, up, sent, peer, got>>

\* flush_write: some of it, all of it, or the client is gone
FlushWrite ==
    /\ ipc_open /\ write_source /\ peer # "gone"
    /\ Room > 0
    /\ LET n == Smaller(Len(Pending), Room)
       IN  /\ down' = down \o Take(Pending, n)
           /\ \/ /\ n < Len(Pending)
                 /\ write_off' = write_off + n
                 /\ UNCHANGED <<lines, write_buf, write_source>>
              \/ /\ n = Len(Pending)
                 /\ write_buf' = <<>> /\ write_off' = 0 /\ write_source' = FALSE
    /\ UNCHANGED <<lines, ipc_open, read_buf, up, sent, peer, got>>

FlushFails ==
    /\ ipc_open /\ write_source /\ peer = "gone"
    /\ Teardown
    /\ UNCHANGED <<lines, up, down, sent, peer, got>>

-----------------------------------------------------------------------------
(* nnwmctl: ipc_send_and_recv writes everything, shuts down, reads to the end *)

Write ==
    /\ peer = "writing" /\ sent < Len(Request) /\ ipc_open
    /\ Len(up) < SocketCap
    /\ sent' = sent + 1
    /\ up' = Append(up, Request[sent'])
    /\ UNCHANGED <<lines, ipc_open, read_buf, write_buf, write_off, write_source, down, peer, got>>

ShutdownWrite ==
    /\ peer = "writing" /\ sent = Len(Request)
    /\ peer' = "reading"
    /\ UNCHANGED <<lines, ipc_open, read_buf, write_buf, write_off, write_source, up, down, sent, got>>

Read ==
    /\ peer = "reading" /\ down # <<>>
    /\ got' = Append(got, Head(down))
    /\ down' = Tail(down)
    /\ UNCHANGED <<lines, ipc_open, read_buf, write_buf, write_off, write_source, up, sent, peer>>

\* the client is killed
Killed ==
    /\ peer # "gone"
    /\ peer' = "gone"
    /\ UNCHANGED <<lines, ipc_open, read_buf, write_buf, write_off, write_source, up, down, sent, got>>

IpcWork ==
    \/ HandleClientData \/ HandleEof \/ FlushWrite \/ FlushFails
    \/ Write \/ ShutdownWrite \/ Read

IpcNext == IpcWork \/ Killed

\* while the event loop has something to serve, or nnwmctl something to do, one of
\* them goes on, in no particular order: neither is promised its turn
IpcFairness == WF_ipcVars(IpcWork)

IpcSpec == IpcInit /\ [][IpcNext]_ipcVars /\ IpcFairness

-----------------------------------------------------------------------------

\* What the client reads is the replies to its lines, each whole and in order,
\* however reads and writes are cut, as long as write_buf can hold them all (when
\* it cannot, reply() overwrites what is pending).
RepliesInOrder ==
    2 * Len(lines) <= WriteCap => \A i \in DOMAIN got : got[i] = i

\* nnwmctl read end of file: it has the whole reply, even when its shutdown was
\* handled before the reply was written.  Two limits are the code's: a line has to
\* fit read_buf, and the replies the socket.
AnsweredBeforeEof ==
    /\ peer = "reading" /\ ~ipc_open /\ down = <<>>
    /\ \A n \in DOMAIN lines : lines[n] < ReadCap
    /\ 2 * Len(lines) <= SocketCap
    => Len(got) = 2 * Len(lines)

\* Replies reach the client whole, in order, and all of them before the end.
RepliesWhole == RepliesInOrder /\ AnsweredBeforeEof

\* The compositor ends the connection of a client that shut down its side, so that
\* nnwmctl never hangs, and that of a client that died.
ConnectionEnds == peer # "writing" ~> ~ipc_open

=============================================================================
