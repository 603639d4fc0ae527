------------------------------- MODULE Server -------------------------------
(***************************************************************************)
(* The server around the commands: the main loop that takes a permit and   *)
(* accepts a connection, one task per connection that cuts commands out of *)
(* the stream and sends answers, one blocking thread per command, and the  *)
(* load that running commands put on the merge thread's gate.  What a      *)
(* command does to tables is the subject of other modules; here it ends    *)
(* well, with an error or in a panic.  Networks and clients are external:  *)
(* bytes arrive in order and in pieces cut anywhere, a client may send     *)
(* several commands ahead, finish, finish inside a command, or leave while *)
(* anything goes on.                                                       *)
(***************************************************************************)
EXTENDS TcpParser, FiniteSets

CONSTANTS
    Connection,      \* every client connects once
    Body,            \* what clients send as a command
    Meaning(_),      \* the kind of statement that a body is
    MaxConnections,  \* max_connections: permits of the semaphore
    MergeUnder,      \* background_merge_available_under
    Window,          \* answers the network holds for a client that does not read
    MaxAsked,        \* bound: commands of each client
    MaxFaults        \* bound: accept calls that fail

Complexity == [ddl |-> 1, insert |-> 2, select |-> 4]
Statement == {"ddl", "insert", "select"}
Kind == Statement \cup {"exit", "invalid"}

ASSUME ServerAssumption ==
    /\ IsFiniteSet(Connection)
    /\ \A b \in Body : /\ b \in Seq(Byte) /\ HeaderSize + Len(b) < Width
                        /\ Meaning(b) \in Kind
    /\ MaxConnections \in Nat \ {0}
    /\ MergeUnder \in Nat \ {0}
    /\ Window \in Nat \ {0} /\ MaxFaults \in Nat
    /\ MaxAsked \in [Connection -> Nat]

VARIABLES
    permits,     \* free permits of the semaphore
    acceptor,    \* the main loop: about to "acquire" a permit, or to "accept"
    backlog,     \* connections the operating system holds for accept
    load,        \* DATABASE_LOAD
    task,        \* where the task of a connection stands
    buf,         \* its receive buffer
    command,     \* the command it runs
    output,      \* how that command ended, until it is answered
    peer,        \* the client: "away", "open", "finished" or "gone"
    wire,        \* bytes on their way to the server
    inbox,       \* answers on their way to the client
    asked,       \* history: the commands a client sent completely
    taken,       \* history: the commands that were taken up
    answers,     \* history: what was sent to a client
    faults

tasks == <<task, buf, command, output>>
clients == <<peer, wire, asked>>
vars == <<permits, acceptor, backlog, load, tasks, clients, inbox, taken, answers,
          faults>>

Init ==
    /\ permits = MaxConnections
    /\ acceptor = "acquire"
    /\ backlog = <<>>
    /\ load = 0
    /\ task = [c \in Connection |-> "none"]
    /\ buf = [c \in Connection |-> <<>>]
    /\ command = [c \in Connection |-> <<>>]
    /\ output = [c \in Connection |-> "none"]
    /\ peer = [c \in Connection |-> "away"]
    /\ wire = [c \in Connection |-> <<>>]
    /\ inbox = [c \in Connection |-> <<>>]
    /\ asked = [c \in Connection |-> <<>>]
    /\ taken = [c \in Connection |-> <<>>]
    /\ answers = [c \in Connection |-> <<>>]
    /\ faults = 0

-----------------------------------------------------------------------------
(* Clients and the network. *)

Connect(c) ==
    /\ peer[c] = "away"
    /\ peer' = [peer EXCEPT ![c] = "open"]
    /\ backlog' = Append(backlog, c)
    /\ UNCHANGED <<permits, acceptor, load, tasks, wire, inbox, asked, taken,
                   answers, faults>>

(* A client may ask before it is accepted, and before its last answer. *)
Ask(c) ==
    /\ peer[c] = "open" /\ task[c] # "ended" /\ Len(asked[c]) < MaxAsked[c]
    /\ \E b \in Body :
          /\ wire' = [wire EXCEPT ![c] = @ \o Encode(b)]
          /\ asked' = [asked EXCEPT ![c] = Append(@, b)]
    /\ UNCHANGED <<permits, acceptor, backlog, load, tasks, peer, inbox, taken,
                   answers, faults>>

(* The last bytes of a client: none, the beginning of a command, or a      *)
(* header that announces more than usize can count.                        *)
LastBytes ==
    {ToLeBytes(Width - 1)}
        \cup UNION {{SubSeq(Encode(b), 1, k) : k \in 0 .. Len(Encode(b)) - 1} : b \in Body}

Finish(c) ==
    /\ peer[c] = "open" /\ task[c] # "ended"
    /\ peer' = [peer EXCEPT ![c] = "finished"]
    /\ \E last \in LastBytes : wire' = [wire EXCEPT ![c] = @ \o last]
    /\ UNCHANGED <<permits, acceptor, backlog, load, tasks, inbox, asked, taken,
                   answers, faults>>

(* The connection breaks: some of the last bytes may be lost. *)
Leave(c) ==
    /\ peer[c] \in {"open", "finished"} /\ task[c] # "ended"
    /\ peer' = [peer EXCEPT ![c] = "gone"]
    /\ \E k \in 0 .. Len(wire[c]) : wire' = [wire EXCEPT ![c] = SubSeq(@, 1, k)]
    /\ inbox' = [inbox EXCEPT ![c] = <<>>]
    /\ UNCHANGED <<permits, acceptor, backlog, load, tasks, asked, taken, answers,
                   faults>>

ReadAnswer(c) ==
    /\ inbox[c] # <<>>
    /\ inbox' = [inbox EXCEPT ![c] = Tail(@)]
    /\ UNCHANGED <<permits, acceptor, backlog, load, tasks, clients, taken, answers,
                   faults>>

-----------------------------------------------------------------------------
(* accept_conn: the permit is taken before the connection. *)

Acquire ==
    /\ acceptor = "acquire" /\ permits > 0
    /\ permits' = permits - 1
    /\ acceptor' = "accept"
    /\ UNCHANGED <<backlog, load, tasks, clients, inbox, taken, answers, faults>>

Accept ==
    /\ acceptor = "accept" /\ backlog # <<>>
    /\ backlog' = Tail(backlog)
    /\ task' = [task EXCEPT ![Head(backlog)] = "read"]
    /\ acceptor' = "acquire"
    /\ UNCHANGED <<permits, load, buf, command, output, clients, inbox, taken,
                   answers, faults>>

(* Mutant: the permit is dropped only by the task. *)
AcceptFails_KeepsPermit ==
    /\ acceptor = "accept" /\ faults < MaxFaults
    /\ faults' = faults + 1
    /\ acceptor' = "acquire"
    /\ UNCHANGED <<permits, backlog, load, tasks, clients, inbox, taken, answers>>

AcceptFails ==
    /\ acceptor = "accept" /\ faults < MaxFaults
    /\ faults' = faults + 1
    /\ permits' = permits + 1
    /\ acceptor' = "acquire"
    /\ UNCHANGED <<backlog, load, tasks, clients, inbox, taken, answers>>

-----------------------------------------------------------------------------
(***************************************************************************)
(* handle_connection: Framed decodes what is buffered before it reads.     *)
(* The socket and the permit are dropped when the task ends, by unwinding  *)
(* when it panics.                                                         *)
(***************************************************************************)
Reading(c) == task[c] = "read"

(* Mutant: the task drops the permit, and so does its caller. *)
End_DropsTwice(c) ==
    /\ task' = [task EXCEPT ![c] = "ended"]
    /\ buf' = [buf EXCEPT ![c] = <<>>]
    /\ permits' = permits + 2

End(c) ==
    /\ task' = [task EXCEPT ![c] = "ended"]
    /\ buf' = [buf EXCEPT ![c] = <<>>]
    /\ permits' = permits + 1

(* One read of the socket returns a piece of the stream. *)
Receive(c) ==
    /\ Reading(c) /\ NeedsMore(buf[c])
    /\ \E k \in 1 .. Len(wire[c]) :
          /\ buf' = [buf EXCEPT ![c] = @ \o SubSeq(wire[c], 1, k)]
          /\ wire' = [wire EXCEPT ![c] = SubSeq(@, k + 1, Len(@))]
    /\ UNCHANGED <<permits, acceptor, backlog, load, task, command, output, peer,
                   inbox, asked, taken, answers, faults>>

Take(c) ==
    /\ Reading(c) /\ HasFrame(buf[c])
    /\ Meaning(FrameBody(buf[c])) # "exit"
    /\ task' = [task EXCEPT ![c] = "plan"]
    /\ buf' = [buf EXCEPT ![c] = AfterFrame(@)]
    /\ command' = [command EXCEPT ![c] = FrameBody(buf[c])]
    /\ taken' = [taken EXCEPT ![c] = Append(@, FrameBody(buf[c]))]
    /\ UNCHANGED <<permits, acceptor, backlog, load, output, clients, inbox,
                   answers, faults>>

Exit(c) ==
    /\ Reading(c) /\ HasFrame(buf[c])
    /\ Meaning(FrameBody(buf[c])) = "exit"
    /\ End(c)
    /\ UNCHANGED <<acceptor, backlog, load, command, output, clients, inbox, taken,
                   answers, faults>>

(* Mutant: a task that panics takes its permit along. *)
DecodePanics_KeepsPermit(c) ==
    /\ Reading(c) /\ Overflows(buf[c])
    /\ task' = [task EXCEPT ![c] = "ended"]
    /\ buf' = [buf EXCEPT ![c] = <<>>]
    /\ UNCHANGED <<permits, acceptor, backlog, load, command, output, clients, inbox,
                   taken, answers, faults>>

DecodePanics(c) ==
    /\ Reading(c) /\ Overflows(buf[c])
    /\ End(c)
    /\ UNCHANGED <<acceptor, backlog, load, command, output, clients, inbox, taken,
                   answers, faults>>

(* Mutant: the end of the stream is seen only when the connection breaks. *)
AtEof_OnlyBroken(c) ==
    Reading(c) /\ NeedsMore(buf[c]) /\ wire[c] = <<>> /\ peer[c] = "gone"

(* decode_eof: nothing is left, or the beginning of a command, an error.   *)
AtEof(c) == Reading(c) /\ NeedsMore(buf[c]) /\ wire[c] = <<>>
            /\ peer[c] \in {"finished", "gone"}

Eof(c) ==
    /\ AtEof(c) /\ buf[c] = <<>>
    /\ End(c)
    /\ UNCHANGED <<acceptor, backlog, load, command, output, clients, inbox, taken,
                   answers, faults>>

EofInside(c) ==
    /\ AtEof(c) /\ buf[c] # <<>>
    /\ task' = [task EXCEPT ![c] = "notice"]
    /\ UNCHANGED <<permits, acceptor, backlog, load, buf, command, output, clients,
                   inbox, taken, answers, faults>>

(* The read itself fails, and what has not been read yet is lost. *)
ReadFails(c) ==
    /\ Reading(c) /\ NeedsMore(buf[c]) /\ peer[c] = "gone"
    /\ task' = [task EXCEPT ![c] = "notice"]
    /\ UNCHANGED <<permits, acceptor, backlog, load, buf, command, output, clients,
                   inbox, taken, answers, faults>>

-----------------------------------------------------------------------------
(***************************************************************************)
(* CommandRunner::execute_command, on a blocking thread.  The thread goes  *)
(* on when the client has left.  A panic becomes an answer: "Thread        *)
(* panicked".                                                              *)
(***************************************************************************)
Finished(c, result) ==
    /\ task' = [task EXCEPT ![c] = "reply"]
    /\ output' = [output EXCEPT ![c] = result]

LoadOf(c) == Complexity[Meaning(command[c])]

(* Parsing or planning fails, or panics: no load has been counted yet. *)
PlanFails(c) ==
    /\ task[c] = "plan"
    /\ Finished(c, "error")
    /\ UNCHANGED <<permits, acceptor, backlog, load, buf, command, clients, inbox,
                   taken, answers, faults>>

Plan(c) ==
    /\ task[c] = "plan" /\ Meaning(command[c]) \in Statement
    /\ load' = load + LoadOf(c)
    /\ task' = [task EXCEPT ![c] = "run"]
    /\ UNCHANGED <<permits, acceptor, backlog, buf, command, output, clients, inbox,
                   taken, answers, faults>>

(* execute_physical_plan returns; the guard is dropped on both ways out. *)
Execute(c) ==
    /\ task[c] = "run"
    /\ \E result \in {"ok", "error"} : Finished(c, result)
    /\ load' = load - LoadOf(c)
    /\ UNCHANGED <<permits, acceptor, backlog, buf, command, clients, inbox, taken,
                   answers, faults>>

(* Mutant: a panic does not give the load back. *)
ExecutePanics_KeepsLoad(c) ==
    /\ task[c] = "run"
    /\ Finished(c, "error")
    /\ UNCHANGED <<load, permits, acceptor, backlog, buf, command, clients, inbox,
                   taken, answers, faults>>

(* The guard is dropped by unwinding; the task is told by the JoinError. *)
ExecutePanics(c) ==
    /\ task[c] = "run"
    /\ Finished(c, "error")
    /\ load' = load - LoadOf(c)
    /\ UNCHANGED <<permits, acceptor, backlog, buf, command, clients, inbox, taken,
                   answers, faults>>

-----------------------------------------------------------------------------
(* transport.send: a client that has left may take an answer or not. *)

Deliver(c, answer) ==
    /\ peer[c] = "gone" \/ Len(inbox[c]) < Window
    /\ inbox' = IF peer[c] = "gone" THEN inbox
                ELSE [inbox EXCEPT ![c] = Append(@, answer)]
    /\ answers' = [answers EXCEPT ![c] = Append(@, answer)]

Reply(c) ==
    /\ task[c] = "reply"
    /\ Deliver(c, <<command[c], output[c]>>)
    /\ task' = [task EXCEPT ![c] = "read"]
    /\ command' = [command EXCEPT ![c] = <<>>]
    /\ output' = [output EXCEPT ![c] = "none"]
    /\ UNCHANGED <<permits, acceptor, backlog, load, buf, clients, taken, faults>>

(* Error::SendResponse ends the task. *)
ReplyFails(c) ==
    /\ task[c] = "reply" /\ peer[c] = "gone"
    /\ End(c)
    /\ command' = [command EXCEPT ![c] = <<>>]
    /\ output' = [output EXCEPT ![c] = "none"]
    /\ UNCHANGED <<acceptor, backlog, load, clients, inbox, taken, answers, faults>>

(* What was cut off has no answer, but a notice; Framed then returns None. *)
Notice == <<<<>>, "notice">>

SendNotice(c) ==
    /\ task[c] = "notice"
    /\ End(c)
    /\ \/ Deliver(c, Notice)
       \/ peer[c] = "gone" /\ UNCHANGED <<inbox, answers>>
    /\ UNCHANGED <<acceptor, backlog, load, command, output, clients, taken, faults>>

-----------------------------------------------------------------------------
(* What the runtime polls the connection's own task for, and what runs on  *)
(* a blocking thread meanwhile.                                            *)
Polled(c) == \/ Receive(c) \/ Take(c) \/ Exit(c) \/ DecodePanics(c)
             \/ Eof(c) \/ EofInside(c)
             \/ Reply(c) \/ ReplyFails(c) \/ SendNotice(c)
Blocking(c) == PlanFails(c) \/ Plan(c) \/ Execute(c) \/ ExecutePanics(c)
Task(c) == Polled(c) \/ Blocking(c)

Next ==
    \/ Acquire \/ Accept \/ AcceptFails
    \/ \E c \in Connection : Task(c) \/ ReadFails(c)
    \/ \E c \in Connection : Connect(c) \/ Ask(c) \/ Finish(c) \/ Leave(c)
                             \/ ReadAnswer(c)

Spec == Init /\ [][Next]_vars

(* The runtime polls the main loop and every task that can go on, and what *)
(* is on the wire arrives.  A command need not end, a client need not read *)
(* its answers, ask, finish or leave.  AcceptFails is bounded, so that     *)
(* accept works in the end.                                                *)
FairSpec ==
    /\ Spec
    /\ WF_vars(Acquire) /\ WF_vars(Accept)
    /\ \A c \in Connection : WF_vars(Polled(c))

-----------------------------------------------------------------------------
(* Properties *)

Where == {"none", "read", "plan", "run", "reply", "notice", "ended"}

(* Every variable stays in its set. *)
TypeOK ==
    /\ permits \in 0..MaxConnections
    /\ acceptor \in {"acquire", "accept"}
    /\ backlog \in Seq(Connection)
    /\ load \in Nat
    /\ task \in [Connection -> Where]
    /\ buf \in [Connection -> Seq(Byte)]
    /\ command \in [Connection -> Seq(Byte)]
    /\ output \in [Connection -> {"none", "ok", "error"}]
    /\ peer \in [Connection -> {"away", "open", "finished", "gone"}]
    /\ wire \in [Connection -> Seq(Byte)]
    /\ inbox \in [Connection -> Seq(Seq(Byte) \X {"ok", "error", "notice"})]
    /\ asked \in [Connection -> Seq(Body)]
    /\ taken \in [Connection -> Seq(Seq(Byte))]
    /\ answers \in [Connection -> Seq(Seq(Byte) \X {"ok", "error", "notice"})]
    /\ faults \in 0..MaxFaults

Served == {c \in Connection : task[c] \notin {"none", "ended"}}

(* Every permit is free, in the hand of the main loop, or with one         *)
(* connection that is served: none is lost or doubled when accept fails,   *)
(* a client leaves, an answer cannot be sent or the decoder panics, and so *)
(* max_connections connections can be served for ever                      *)
(* (accept_conn, src/src/lib.rs:70-88).                                    *)
PermitsConserved ==
    permits + (IF acceptor = "accept" THEN 1 ELSE 0) + Cardinality(Served)
        = MaxConnections

Running(kind) == {c \in Connection : task[c] = "run" /\ Meaning(command[c]) = kind}

(* DATABASE_LOAD is the complexity of the commands that run now, whatever  *)
(* ended the others (src/src/runtime_config.rs:22 "automatically release   *)
(* resources when query completes"): when none runs, merging goes on.      *)
LoadIsRunning ==
    load = Cardinality(Running("ddl")) + 2 * Cardinality(Running("insert"))
             + 4 * Cardinality(Running("select"))

(* Whatever the cuts of the stream, every connection is a dialogue: the    *)
(* server takes up exactly the commands that were asked, in their order    *)
(* and one after the other, answers each before the next, and hangs up on  *)
(* nobody who stays (handle_connection, src/src/lib.rs:91).                *)
Promised == INSTANCE Dialogue WITH
    Command <- Body,
    IsExit <- LAMBDA b : Meaning(b) = "exit",
    Result <- {"ok", "error"},
    listening <- [c \in Connection |-> peer[c] \in {"away", "open"}],
    hungUp <- [c \in Connection |-> task[c] = "ended"]

ImplementsDialogue == Promised!Spec

(* The commands before the first "exit". *)
ToAnswer(c) == {i \in DOMAIN asked[c] : \A j \in 1..i : Meaning(asked[c][j]) # "exit"}

(* What may hold up a connection, and its permit, for as long as it lasts: *)
(* a command that is planned or runs, an answer to a client that does not  *)
(* read, a client that stays connected and is not heard of.                *)
Busy(c) == task[c] \in {"plan", "run"}
Unread(c) == /\ task[c] \in {"reply", "notice"} /\ peer[c] # "gone"
             /\ Len(inbox[c]) = Window
Silent(c) == peer[c] = "open" /\ Reading(c) /\ wire[c] = <<>> /\ NeedsMore(buf[c])

(* A command of a client that is served and does not leave stays without   *)
(* an answer only behind a command that does not end, or behind answers    *)
(* that the client does not read: no cut of the stream, no error or panic  *)
(* of a command, and nothing that the client sends or finishes behind it   *)
(* keeps its answer back (handle_connection, src/src/lib.rs:97-122).       *)
CommandsAnswered ==
    \A c \in Connection : \A i \in 1..MaxAsked[c] :
        <>[](/\ task[c] # "none" /\ peer[c] # "gone"
             /\ i \in ToAnswer(c) /\ Len(answers[c]) < i)
            => <>[](Busy(c) \/ Unread(c))

(* A connection that is never accepted waits for permits that are all with *)
(* connections being served, and for no other reason: failing accept calls *)
(* and tasks that ended in any way leave their permits to it               *)
(* (src/src/lib.rs:71 takes the permit before accept).                     *)
WaitingIsAccepted ==
    \A c \in Connection :
        <>[](c \in Range(backlog)) => <>[](Cardinality(Served) = MaxConnections)

(* A connection keeps its permit for ever only behind a command, an answer *)
(* or a client of that kind: a client that finished or left, inside a      *)
(* command or not, gives its permit back once its command has ended        *)
(* (accept_conn, src/src/lib.rs:78-83).                                    *)
PermitsComeBack ==
    \A c \in Connection :
        <>[](c \in Served) => []<>(Busy(c) \/ Unread(c) \/ Silent(c))

(* The gate of BackgroundMerge::start. *)
GateOpen == load < MergeUnder
=============================================================================
