---------------------------- MODULE Server_proofs ----------------------------
(***************************************************************************)
(* For every number of connections, permits, commands and failing calls,   *)
(* for every width of a header, whatever the bodies mean and wherever the  *)
(* streams are cut: permits and load are given back, and every connection  *)
(* is a Dialogue.                                                          *)
(***************************************************************************)
EXTENDS Server, Lists_proofs

-----------------------------------------------------------------------------
(* The invariant *)

(* What a step of the server can disturb of permits and load. *)
ControlOK ==
    /\ permits \in Nat /\ load \in Int
    /\ acceptor \in {"acquire", "accept"}
    /\ task \in [Connection -> Where]
    /\ command = [c \in Connection |-> command[c]]
    /\ peer \in [Connection -> {"away", "open", "finished", "gone"}]

(* A connection waits for accept once, and only before it has a task. *)
BacklogInv ==
    /\ backlog \in Seq(Connection)
    /\ \A i \in 1..Len(backlog) :
          /\ peer[backlog[i]] # "away" /\ task[backlog[i]] = "none"
          /\ \A j \in 1..Len(backlog) : i # j => backlog[i] # backlog[j]
    /\ \A c \in Connection : peer[c] = "away" => task[c] = "none"

(* Only a command that was planned runs, and keeps its body while it does. *)
RunInv == \A c \in Connection : task[c] = "run" => Meaning(command[c]) \in Statement

CInv == ControlOK /\ BacklogInv /\ RunInv /\ PermitsConserved /\ LoadIsRunning

-----------------------------------------------------------------------------
(* How a task that moves changes the sets the invariant counts. *)

InService == Where \ {"none", "ended"}

(* Only finitely many connections are served, or run.                      *)
LEMMA ServedFinite ==
    IsFiniteSet(Served) /\ Cardinality(Served) \in Nat
BY ServerAssumption, FS_Subset, FS_CardinalityType DEF Served

LEMMA RunningFinite ==
    ASSUME NEW kind
    PROVE  IsFiniteSet(Running(kind)) /\ Cardinality(Running(kind)) \in Nat
BY ServerAssumption, FS_Subset, FS_CardinalityType DEF Running

(* A task that is accepted takes a place. *)
LEMMA ServedGrows ==
    ASSUME ControlOK, NEW c \in Connection, task[c] = "none",
           task' = [task EXCEPT ![c] = "read"]
    PROVE  Cardinality(Served') = Cardinality(Served) + 1
<1>1. Served' = Served \cup {c} /\ c \notin Served
  BY DEF Served, ControlOK
<1>2. QED
  BY <1>1, ServedFinite, FS_AddElement

(* A task that ends leaves it. *)
LEMMA ServedShrinks ==
    ASSUME ControlOK, NEW c \in Connection, task[c] \in InService,
           task' = [task EXCEPT ![c] = "ended"]
    PROVE  Cardinality(Served') = Cardinality(Served) - 1
<1>1. Served' = Served \ {c} /\ c \in Served
  BY DEF Served, ControlOK, InService
<1>2. QED
  BY <1>1, ServedFinite, FS_RemoveElement

(* A task that goes on keeps it. *)
LEMMA ServedStays ==
    ASSUME ControlOK, NEW c \in Connection, task[c] \in InService, NEW w \in InService,
           task' = [task EXCEPT ![c] = w]
    PROVE  Served' = Served
BY DEF Served, ControlOK, InService

(* No command starts, and none ends. *)
LEMMA RunningStays ==
    ASSUME ControlOK, NEW c \in Connection, task[c] # "run", NEW w \in Where \ {"run"},
           task' = [task EXCEPT ![c] = w],
           \A d \in Connection : d # c => command'[d] = command[d],
           LoadIsRunning, load' = load
    PROVE  LoadIsRunning'
<1>1. \A kind : Running(kind)' = Running(kind)
  BY DEF Running, ControlOK
<1>2. QED
  BY <1>1 DEF LoadIsRunning

(* One command of a kind starts. *)
LEMMA RunningGrows ==
    ASSUME ControlOK, NEW c \in Connection, task[c] # "run",
           task' = [task EXCEPT ![c] = "run"], command' = command
    PROVE  \A kind : Cardinality(Running(kind)') =
              Cardinality(Running(kind)) + (IF Meaning(command[c]) = kind THEN 1 ELSE 0)
<1> TAKE kind
<1>1. CASE Meaning(command[c]) = kind
  <2>1. Running(kind)' = Running(kind) \cup {c} /\ c \notin Running(kind)
    BY <1>1 DEF Running, ControlOK
  <2>2. QED
    BY <1>1, <2>1, RunningFinite, FS_AddElement
<1>2. CASE Meaning(command[c]) # kind
  <2>1. Running(kind)' = Running(kind)
    BY <1>2 DEF Running, ControlOK
  <2>2. QED
    BY <1>2, <2>1, RunningFinite
<1>3. QED
  BY <1>1, <1>2

(* One command of a kind ends. *)
LEMMA RunningShrinks ==
    ASSUME ControlOK, NEW c \in Connection, task[c] = "run", NEW w \in Where \ {"run"},
           task' = [task EXCEPT ![c] = w], command' = command
    PROVE  \A kind : Cardinality(Running(kind)') =
              Cardinality(Running(kind)) - (IF Meaning(command[c]) = kind THEN 1 ELSE 0)
<1> TAKE kind
<1>1. CASE Meaning(command[c]) = kind
  <2>1. Running(kind)' = Running(kind) \ {c} /\ c \in Running(kind)
    BY <1>1 DEF Running, ControlOK
  <2>2. IsFiniteSet(Running(kind)) /\ Cardinality(Running(kind)) \in Nat
    BY RunningFinite
  <2>3. Cardinality(Running(kind) \ {c}) = Cardinality(Running(kind)) - 1
    BY <2>1, <2>2, FS_RemoveElement
  <2>4. QED
    BY <1>1, <2>1, <2>2, <2>3
<1>2. CASE Meaning(command[c]) # kind
  <2>1. Running(kind)' = Running(kind)
    BY <1>2 DEF Running, ControlOK
  <2>2. QED
    BY <1>2, <2>1, RunningFinite
<1>3. QED
  BY <1>1, <1>2

-----------------------------------------------------------------------------
(* One lemma per kind of step: it preserves the invariant. *)

control == <<permits, acceptor, backlog, load, task, command, peer>>

(* Bytes, answers and histories that move disturb nothing. *)
LEMMA AsideInv ==
    ASSUME CInv, UNCHANGED control
    PROVE  CInv'
BY DEF CInv, control, ControlOK, BacklogInv, RunInv, PermitsConserved, LoadIsRunning,
       Served, Running

(* A client that connects waits at the end of the backlog. *)
LEMMA ConnectInv ==
    ASSUME CInv, NEW c \in Connection, Connect(c)
    PROVE  CInv'
<1> USE DEF CInv, Connect, tasks
<1>1. ControlOK' /\ RunInv' /\ PermitsConserved' /\ LoadIsRunning'
  BY DEF ControlOK, RunInv, PermitsConserved, LoadIsRunning, Served, Running
<1>2. BacklogInv'
  <2>1. /\ backlog' \in Seq(Connection) /\ Len(backlog') = Len(backlog) + 1
        /\ \A i \in 1..Len(backlog) : backlog'[i] = backlog[i]
        /\ backlog'[Len(backlog) + 1] = c
    BY AppendProperties DEF BacklogInv
  <2>2. \A i \in 1..Len(backlog) : backlog[i] # c /\ backlog[i] \in Connection
    BY DEF BacklogInv
  <2>3. peer'[c] # "away" /\ task[c] = "none"
        /\ \A d \in Connection \ {c} : peer'[d] = peer[d]
    BY DEF BacklogInv, ControlOK
  <2>4. QED
    BY <2>1, <2>2, <2>3 DEF BacklogInv
<1>3. QED
  BY <1>1, <1>2

(* A client that finishes or leaves connected before. *)
LEMMA PartInv ==
    ASSUME CInv, NEW c \in Connection, Finish(c) \/ Leave(c)
    PROVE  CInv'
<1>1. /\ peer[c] # "away"
      /\ \E w \in {"finished", "gone"} : peer' = [peer EXCEPT ![c] = w]
      /\ UNCHANGED <<permits, acceptor, backlog, load, task, command>>
  BY DEF Finish, Leave, tasks
<1>2. ControlOK' /\ RunInv' /\ PermitsConserved' /\ LoadIsRunning'
  BY <1>1 DEF CInv, ControlOK, RunInv, PermitsConserved, LoadIsRunning, Served, Running
<1>3. BacklogInv'
  BY <1>1 DEF CInv, BacklogInv, ControlOK
<1>4. QED
  BY <1>2, <1>3 DEF CInv

(* A permit passes from the semaphore to the main loop, or back. *)
LEMMA AcquireInv ==
    ASSUME CInv, Acquire \/ AcceptFails
    PROVE  CInv'
<1> USE DEF CInv, Acquire, AcceptFails, tasks, clients
<1>0. UNCHANGED <<backlog, load, task, command, peer>>
  OBVIOUS
<1>1. ControlOK'
  BY <1>0 DEF ControlOK
<1>2. BacklogInv' /\ RunInv' /\ LoadIsRunning'
  BY <1>0 DEF BacklogInv, RunInv, LoadIsRunning, Running
<1>3. PermitsConserved'
  <2>1. Served' = Served
    BY DEF Served
  <2>2. QED
    BY <2>1, ServedFinite DEF PermitsConserved, ControlOK
<1>4. QED
  BY <1>1, <1>2, <1>3

(* It passes from the main loop to the connection that waited longest.     *)
LEMMA AcceptInv ==
    ASSUME CInv, Accept
    PROVE  CInv'
<1> DEFINE c == Head(backlog)
<1> USE DEF CInv
<1>1. /\ backlog # <<>> /\ backlog' = Tail(backlog) /\ task' = [task EXCEPT ![c] = "read"]
      /\ acceptor = "accept" /\ acceptor' = "acquire"
      /\ UNCHANGED <<permits, load, command, peer>>
  BY DEF Accept, clients
<1>2. /\ c \in Connection /\ Len(backlog) > 0 /\ c = backlog[1]
      /\ Tail(backlog) \in Seq(Connection) /\ Len(Tail(backlog)) = Len(backlog) - 1
      /\ \A i \in 1..Len(Tail(backlog)) : Tail(backlog)[i] = backlog[i + 1]
  BY <1>1, HeadTailProperties, EmptySeq DEF BacklogInv
<1>3. task[c] = "none" /\ peer[c] # "away"
  BY <1>2 DEF BacklogInv
<1> HIDE DEF c
<1>4. ControlOK' /\ RunInv'
  BY <1>1, <1>2, <1>3 DEF ControlOK, RunInv, Where
<1>5. BacklogInv'
  <2>1. \A d \in Connection : task'[d] = IF d = c THEN "read" ELSE task[d]
    BY <1>1, <1>2 DEF ControlOK
  <2>2. \A i \in 1..Len(backlog') :
           /\ backlog'[i] = backlog[i + 1] /\ i + 1 \in 1..Len(backlog)
           /\ backlog'[i] # c /\ backlog'[i] \in Connection
    BY <1>1, <1>2 DEF BacklogInv
  <2>3. \A i \in 1..Len(backlog') :
           /\ peer'[backlog'[i]] # "away" /\ task'[backlog'[i]] = "none"
           /\ \A j \in 1..Len(backlog') : i # j => backlog'[i] # backlog'[j]
    BY <1>1, <1>2, <2>1, <2>2 DEF BacklogInv
  <2>4. \A d \in Connection : peer'[d] = "away" => task'[d] = "none"
    BY <1>1, <1>3, <2>1 DEF BacklogInv
  <2>5. QED
    BY <1>1, <1>2, <2>3, <2>4 DEF BacklogInv
<1>6. PermitsConserved'
  <2>1. Cardinality(Served') = Cardinality(Served) + 1
    BY <1>1, <1>2, <1>3, ServedGrows
  <2>2. QED
    BY <1>1, <2>1, ServedFinite DEF PermitsConserved, ControlOK
<1>7. LoadIsRunning'
  BY <1>1, <1>2, <1>3, RunningStays DEF Where
<1>8. QED
  BY <1>4, <1>5, <1>6, <1>7

(* What a step of a served task leaves of the backlog and the types. *)
LEMMA MoveInv ==
    ASSUME CInv, NEW c \in Connection, task[c] \in InService, NEW w \in Where \ {"none"},
           task' = [task EXCEPT ![c] = w], UNCHANGED <<acceptor, backlog, peer>>
    PROVE  BacklogInv' /\ task' \in [Connection -> Where]
<1>1. \A d \in Connection : task'[d] = IF d = c THEN w ELSE task[d]
  BY DEF CInv, ControlOK
<1>2. task[c] # "none"
  BY DEF InService
<1>3. BacklogInv'
  <2>1. \A i \in 1..Len(backlog) : backlog[i] \in Connection /\ backlog[i] # c
    BY <1>2 DEF CInv, BacklogInv
  <2>2. QED
    BY <1>1, <1>2, <2>1 DEF CInv, BacklogInv
<1>4. QED
  BY <1>3 DEF CInv, ControlOK

(* A task goes on without a command that runs before or after. *)
LEMMA GoOnInv ==
    ASSUME CInv, NEW c \in Connection, task[c] \in InService \ {"run"},
           NEW w \in InService \ {"run"}, task' = [task EXCEPT ![c] = w],
           NEW x, command' = [command EXCEPT ![c] = x],
           UNCHANGED <<permits, acceptor, backlog, load, peer>>
    PROVE  CInv'
<1> USE DEF CInv
<1>1. w \in Where \ {"none", "run"}
  BY DEF InService
<1>2. BacklogInv' /\ task' \in [Connection -> Where]
  BY <1>1, MoveInv
<1>3. /\ command' = [d \in Connection |-> command'[d]]
      /\ \A d \in Connection : d # c => command'[d] = command[d]
  BY DEF ControlOK
<1>4. ControlOK'
  BY <1>2, <1>3 DEF ControlOK
<1>5. RunInv'
  BY <1>1, <1>3 DEF RunInv, ControlOK
<1>6. PermitsConserved'
  BY ServedStays DEF PermitsConserved
<1>7. LoadIsRunning'
  BY <1>1, <1>3, RunningStays DEF InService
<1>8. QED
  BY <1>2, <1>4, <1>5, <1>6, <1>7

(* A task ends: its permit is free again, and it ran no command. *)
LEMMA EndInv ==
    ASSUME CInv, NEW c \in Connection, task[c] \in InService \ {"run"}, End(c),
           NEW x, command' = command \/ command' = [command EXCEPT ![c] = x],
           UNCHANGED <<acceptor, backlog, load, peer>>
    PROVE  CInv'
<1> USE DEF CInv
<1>1. task' = [task EXCEPT ![c] = "ended"] /\ permits' = permits + 1
  BY DEF End
<1>2. BacklogInv' /\ task' \in [Connection -> Where]
  BY <1>1, MoveInv DEF Where
<1>3. /\ command' = [d \in Connection |-> command'[d]]
      /\ \A d \in Connection : d # c => command'[d] = command[d]
  BY DEF ControlOK
<1>4. ControlOK'
  BY <1>1, <1>2, <1>3 DEF ControlOK
<1>5. RunInv'
  BY <1>1, <1>3 DEF RunInv, ControlOK
<1>6. PermitsConserved'
  <2>1. Cardinality(Served') = Cardinality(Served) - 1
    BY <1>1, ServedShrinks
  <2>2. QED
    BY <1>1, <2>1, ServedFinite DEF PermitsConserved, ControlOK
<1>7. LoadIsRunning'
  BY <1>1, <1>3, RunningStays DEF Where, InService
<1>8. QED
  BY <1>2, <1>4, <1>5, <1>6, <1>7

(* A command starts to run, and its complexity is counted. *)
LEMMA PlanInv ==
    ASSUME CInv, NEW c \in Connection, Plan(c)
    PROVE  CInv'
<1> USE DEF CInv
<1>1. /\ task[c] = "plan" /\ Meaning(command[c]) \in Statement
      /\ load' = load + LoadOf(c) /\ task' = [task EXCEPT ![c] = "run"]
      /\ command' = command /\ UNCHANGED <<permits, acceptor, backlog, peer>>
  BY DEF Plan, clients
<1>2. task[c] \in InService /\ "run" \in InService /\ "run" \in Where \ {"none"}
  BY <1>1 DEF InService, Where
<1>3. BacklogInv' /\ task' \in [Connection -> Where]
  BY <1>1, <1>2, MoveInv
<1>4. LoadOf(c) = IF Meaning(command[c]) = "ddl" THEN 1
                  ELSE IF Meaning(command[c]) = "insert" THEN 2 ELSE 4
  BY <1>1 DEF LoadOf, Complexity, Statement
<1>5. ControlOK'
  BY <1>1, <1>3, <1>4 DEF ControlOK
<1>6. RunInv'
  BY <1>1 DEF RunInv, ControlOK
<1>7. PermitsConserved'
  BY <1>1, <1>2, ServedStays DEF PermitsConserved
<1>8. LoadIsRunning'
  <2>1. \A kind : Cardinality(Running(kind)') =
            Cardinality(Running(kind)) + (IF Meaning(command[c]) = kind THEN 1 ELSE 0)
    BY <1>1, RunningGrows
  <2>2. QED
    BY <1>1, <1>4, <2>1, RunningFinite DEF LoadIsRunning, Statement
<1>9. QED
  BY <1>3, <1>5, <1>6, <1>7, <1>8

(* A command ends, in whatever way, and its complexity is given back. *)
LEMMA ExecuteInv ==
    ASSUME CInv, NEW c \in Connection, Execute(c) \/ ExecutePanics(c)
    PROVE  CInv'
<1> USE DEF CInv
<1>1. /\ task[c] = "run" /\ load' = load - LoadOf(c)
      /\ task' = [task EXCEPT ![c] = "reply"]
      /\ command' = command /\ UNCHANGED <<permits, acceptor, backlog, peer>>
  BY DEF Execute, ExecutePanics, Finished, clients
<1>2. /\ task[c] \in InService /\ "reply" \in InService
      /\ "reply" \in Where \ {"none"} /\ "reply" \in Where \ {"run"}
  BY <1>1 DEF InService, Where
<1>3. BacklogInv' /\ task' \in [Connection -> Where]
  BY <1>1, <1>2, MoveInv
<1>4. Meaning(command[c]) \in Statement
  BY <1>1 DEF RunInv
<1>5. LoadOf(c) = IF Meaning(command[c]) = "ddl" THEN 1
                  ELSE IF Meaning(command[c]) = "insert" THEN 2 ELSE 4
  BY <1>4 DEF LoadOf, Complexity, Statement
<1>6. ControlOK'
  BY <1>1, <1>3, <1>5 DEF ControlOK
<1>7. RunInv'
  BY <1>1 DEF RunInv, ControlOK
<1>8. PermitsConserved'
  BY <1>1, <1>2, ServedStays DEF PermitsConserved
<1>9. LoadIsRunning'
  <2>1. \A kind : Cardinality(Running(kind)') =
            Cardinality(Running(kind)) - (IF Meaning(command[c]) = kind THEN 1 ELSE 0)
    BY <1>1, <1>2, RunningShrinks
  <2>2. QED
    BY <1>1, <1>4, <1>5, <2>1, RunningFinite DEF LoadIsRunning, Statement
<1>10. QED
  BY <1>3, <1>6, <1>7, <1>8, <1>9

-----------------------------------------------------------------------------
(* The steps of a task, and of the system. *)

(* Every step of a task preserves the invariant.                           *)
LEMMA TaskInv ==
    ASSUME CInv, NEW c \in Connection, Task(c) \/ ReadFails(c)
    PROVE  CInv'
<1> USE DEF clients, tasks
<1>0. /\ command = [command EXCEPT ![c] = command[c]]
      /\ {"read", "plan", "reply", "notice"} \subseteq InService \ {"run"}
  BY DEF CInv, ControlOK, InService, Where
<1>1. CASE Take(c)
  BY <1>0, <1>1, GoOnInv DEF Take, Reading
<1>2. CASE Exit(c)
  BY <1>0, <1>2, EndInv DEF Exit, Reading
<1>3. CASE DecodePanics(c)
  BY <1>0, <1>3, EndInv DEF DecodePanics, Reading
<1>4. CASE Eof(c)
  BY <1>0, <1>4, EndInv DEF Eof, AtEof, Reading
<1>5. CASE EofInside(c) \/ ReadFails(c)
  <2>1. task[c] = "read" /\ task' = [task EXCEPT ![c] = "notice"] /\ command' = command
        /\ UNCHANGED <<permits, acceptor, backlog, load, peer>>
    BY <1>5 DEF EofInside, ReadFails, AtEof, Reading
  <2>2. QED
    BY <1>0, <2>1, GoOnInv
<1>6. CASE Receive(c)
  BY <1>6, AsideInv DEF Receive, control
<1>7. CASE PlanFails(c)
  <2>1. task[c] = "plan" /\ task' = [task EXCEPT ![c] = "reply"] /\ command' = command
        /\ UNCHANGED <<permits, acceptor, backlog, load, peer>>
    BY <1>7 DEF PlanFails, Finished
  <2>2. QED
    BY <1>0, <2>1, GoOnInv
<1>8. CASE Plan(c)
  BY <1>8, PlanInv
<1>9. CASE Execute(c) \/ ExecutePanics(c)
  BY <1>9, ExecuteInv
<1>10. CASE Reply(c)
  BY <1>0, <1>10, GoOnInv DEF Reply
<1>11. CASE ReplyFails(c)
  BY <1>0, <1>11, EndInv DEF ReplyFails
<1>12. CASE SendNotice(c)
  BY <1>0, <1>12, EndInv DEF SendNotice
<1>13. QED
  BY <1>1, <1>2, <1>3, <1>4, <1>5, <1>6, <1>7, <1>8, <1>9, <1>10, <1>11, <1>12
     DEF Task, Polled, Blocking

(* It holds at the start, and every step preserves it.                     *)
LEMMA InitInv == Init => CInv
<1> SUFFICES ASSUME Init PROVE CInv
  OBVIOUS
<1> USE DEF Init
<1>1. ControlOK
  BY ServerAssumption DEF ControlOK, Where
<1>2. BacklogInv
  <2>1. backlog \in Seq(Connection) /\ Len(backlog) = 0
    BY EmptySeq
  <2>2. QED
    BY <2>1 DEF BacklogInv
<1>3. Served = {} /\ Running("ddl") = {} /\ Running("insert") = {}
      /\ Running("select") = {}
  BY DEF Served, Running
<1>4. Cardinality({}) = 0
  BY FS_EmptySet
<1>5. PermitsConserved
  BY <1>3, <1>4, ServerAssumption DEF PermitsConserved
<1>6. load = 0 /\ RunInv
  BY DEF RunInv
<1> HIDE DEF Init
<1>7. LoadIsRunning
  BY <1>3, <1>4, <1>6 DEF LoadIsRunning
<1>8. QED
  BY <1>1, <1>2, <1>5, <1>6, <1>7 DEF CInv

LEMMA NextInv == CInv /\ [Next]_vars => CInv'
<1> SUFFICES ASSUME CInv, [Next]_vars PROVE CInv'
  OBVIOUS
<1>1. CASE UNCHANGED vars
  BY <1>1, AsideInv DEF vars, control, tasks, clients
<1>2. CASE Acquire \/ AcceptFails
  BY <1>2, AcquireInv
<1>3. CASE Accept
  BY <1>3, AcceptInv
<1>4. CASE \E c \in Connection : Task(c) \/ ReadFails(c)
  BY <1>4, TaskInv
<1>5. CASE \E c \in Connection : Connect(c)
  BY <1>5, ConnectInv
<1>6. CASE \E c \in Connection : Ask(c) \/ ReadAnswer(c)
  BY <1>6, AsideInv DEF Ask, ReadAnswer, control, tasks, clients
<1>7. CASE \E c \in Connection : Finish(c) \/ Leave(c)
  BY <1>7, PartInv
<1>8. QED
  BY <1>1, <1>2, <1>3, <1>4, <1>5, <1>6, <1>7 DEF Next

(* The invariant holds in every state. *)
THEOREM Invariance == Spec => []CInv
BY InitInv, NextInv, PTL DEF Spec

(* Every permit is free, in the hand of the main loop, or with one served  *)
(* connection, whatever fails (accept_conn, src/src/lib.rs:70-88).         *)
THEOREM PermitsNeverLost == Spec => []PermitsConserved
<1>1. CInv => PermitsConserved
  BY DEF CInv
<1>2. QED
  BY <1>1, Invariance, PTL

(* No more than max_connections connections are served at a time           *)
(* (src/src/lib.rs:71).                                                    *)
THEOREM ServedAtMostMax == Spec => [](Cardinality(Served) <= MaxConnections)
<1>1. CInv => Cardinality(Served) <= MaxConnections
  BY ServedFinite, ServerAssumption DEF CInv, PermitsConserved, ControlOK
<1>2. QED
  BY <1>1, Invariance, PTL

(* DATABASE_LOAD is the complexity of the commands that run, however the   *)
(* others ended (src/src/runtime_config.rs:22).                            *)
THEOREM LoadNeverLeaks == Spec => []LoadIsRunning
<1>1. CInv => LoadIsRunning
  BY DEF CInv
<1>2. QED
  BY <1>1, Invariance, PTL

(* When no command runs the load is 0, and the merge thread's gate is open *)
(* (src/src/background_merge.rs:31).                                       *)
THEOREM QuietOpensGate ==
    Spec => []((\A c \in Connection : task[c] # "run") => load = 0 /\ GateOpen)
<1>1. ASSUME CInv, \A c \in Connection : task[c] # "run"
      PROVE  load = 0 /\ GateOpen
  <2>1. Running("ddl") = {} /\ Running("insert") = {} /\ Running("select") = {}
    BY <1>1 DEF Running
  <2>2. Cardinality({}) = 0
    BY FS_EmptySet
  <2>3. load = 0
    BY <1>1, <2>1, <2>2 DEF CInv, LoadIsRunning
  <2>4. QED
    BY <2>3, ServerAssumption DEF GateOpen
<1>2. CInv => ((\A c \in Connection : task[c] # "run") => load = 0 /\ GateOpen)
  BY <1>1
<1>3. QED
  BY <1>2, Invariance, PTL

-----------------------------------------------------------------------------
(* The header *)

(* The recursion that defines Weight has a solution, which Weight is.      *)
LEMMA WeightSteps ==
    /\ Weight \in [0..HeaderSize -> Nat \ {0}] /\ Weight[0] = 1
    /\ \A i \in 1..HeaderSize : Weight[i] = Radix * Weight[i - 1]
<1> DEFINE N == HeaderSize
           V == Nat \ {0}
           F == [x \in (1..N) \X V |-> Radix * x[2]]
           D(g) == [i \in 0..N |-> IF i = 0 THEN 1 ELSE Radix * g[i - 1]]
<1>0. N \in Nat /\ Radix \in V
  BY TcpParserAssumption
<1>1. F \in [(1..N) \X V -> V]
  BY <1>0
<1>2. PICK f : Recurses(f, V, N, 1, F)
  <2> HIDE DEF F, N
  <2>1. 1 \in V
    OBVIOUS
  <2> HIDE DEF V
  <2>2. QED
    BY <1>0, <1>1, <2>1, RecursionExists
<1>3. f \in [0..N -> V] /\ f[0] = 1 /\ \A i \in 1..N : f[i] = F[<<i, f[i - 1]>>]
  BY <1>2 DEF Recurses
<1>4. ASSUME NEW i \in 1..N PROVE f[i] = Radix * f[i - 1]
  <2>1. i - 1 \in 0..N
    BY <1>0
  <2>2. <<i, f[i - 1]>> \in (1..N) \X V
    BY <1>3, <2>1
  <2>3. QED
    BY <1>3, <2>2
<1>5. f = D(f)
  BY <1>0, <1>3, <1>4
<1>6. Weight = D(Weight)
  <2>1. Weight = CHOOSE g : g = D(g)
    BY DEF Weight
  <2> HIDE DEF D
  <2>2. QED
    BY <1>5, <2>1
<1>7. Weight[0] = 1 /\ \A i \in 1..N : Weight[i] = Radix * Weight[i - 1]
  BY <1>0, <1>6
<1>8. \A i \in 0..N : Weight[i] \in V
  <2> DEFINE S == {n \in Nat : n <= N => Weight[n] \in V}
  <2>1. 0 \in S
    BY <1>7
  <2>2. \A n \in Nat : n \in S => n + 1 \in S
    <3> SUFFICES ASSUME NEW n \in Nat, n \in S, n + 1 <= N PROVE Weight[n + 1] \in V
      OBVIOUS
    <3>1. Weight[n] \in V /\ Weight[n + 1] = Radix * Weight[n]
      BY <1>0, <1>7
    <3>2. QED
      BY <1>0, <3>1
  <2> HIDE DEF S
  <2>3. \A n \in Nat : n \in S
    BY <2>1, <2>2, CountingUp
  <2>4. QED
    BY <1>0, <2>3 DEF S
<1>9. QED
  BY <1>6, <1>7, <1>8

(* The quotient and the rest are what they should be, and nothing else is. *)
LEMMA Quotient ==
    ASSUME NEW n \in Nat, NEW d \in Nat \ {0}
    PROVE  /\ n \div d \in Nat /\ n % d \in 0..(d - 1)
           /\ n = d * (n \div d) + (n % d)
OBVIOUS

(* Division: the quotient is unique, and can be taken in two steps.        *)
LEMMA QuotientUnique ==
    ASSUME NEW n \in Nat, NEW d \in Nat \ {0}, NEW q \in Nat, NEW t \in 0..(d - 1),
           n = d * q + t
    PROVE  n \div d = q
<1> DEFINE p == n \div d
           u == n % d
<1>1. p \in Nat /\ u \in 0..(d - 1) /\ n = d * p + u
  BY Quotient
<1> HIDE DEF p, u
<1>2. d * p + u = d * q + t
  BY <1>1
<1>3. ASSUME NEW a \in Nat, NEW b \in Nat, NEW v \in 0..(d - 1), NEW w \in 0..(d - 1),
             d * a + v = d * b + w, a < b
      PROVE  FALSE
  <2>1. PICK k \in Nat : b = a + 1 + k
    <3>1. b - a - 1 \in Nat /\ b = a + 1 + (b - a - 1)
      BY <1>3
    <3>2. QED
      BY <3>1
  <2>2. d * b = d * a + d + d * k /\ d * k \in Nat /\ d * a \in Nat
    BY <2>1
  <2>3. QED
    BY <1>3, <2>2
<1>4. ~(p < q) /\ ~(q < p)
  BY <1>1, <1>2, <1>3
<1>5. QED
  BY <1>1, <1>4 DEF p

LEMMA QuotientTwice ==
    ASSUME NEW n \in Nat, NEW w \in Nat \ {0}, NEW r \in Nat \ {0}
    PROVE  n \div (r * w) = (n \div w) \div r
<1> DEFINE q == n \div w
           m == n % w
           p == q \div r
           e == q % r
<1>1. q \in Nat /\ m \in 0..(w - 1) /\ n = w * q + m
  BY Quotient
<1> HIDE DEF q, m
<1>2. p \in Nat /\ e \in 0..(r - 1) /\ q = r * p + e
  BY <1>1, Quotient
<1> HIDE DEF p, e
<1>3. n = (r * w) * p + (w * e + m)
  <2>1. w * q = w * (r * p) + w * e
    BY <1>1, <1>2
  <2>2. w * (r * p) = (r * w) * p
    BY <1>2
  <2>3. w * e \in Nat /\ (r * w) * p \in Nat
    BY <1>2
  <2>4. QED
    BY <1>1, <2>1, <2>2, <2>3
<1>4. r * w \in Nat \ {0} /\ w * e + m \in 0..(r * w - 1)
  <2>1. r * w \in Nat \ {0} /\ w * e \in Nat
    BY <1>2
  <2>2. PICK k \in Nat : r = e + 1 + k
    <3>1. r - e - 1 \in Nat /\ r = e + 1 + (r - e - 1)
      BY <1>2
    <3>2. QED
      BY <3>1
  <2>3. r * w = w * e + w + w * k /\ w * k \in Nat
    BY <1>2, <2>2
  <2>4. QED
    BY <1>1, <2>1, <2>3
<1>5. n \div (r * w) = p
  BY <1>2, <1>3, <1>4, QuotientUnique
<1>6. QED
  BY <1>5 DEF p, q

(* Sizes[i] is what the first i bytes of a header announce. *)
Sizes(bytes, size) ==
    /\ size \in [0..HeaderSize -> Nat] /\ size[0] = 0
    /\ \A i \in 1..HeaderSize : size[i] = size[i - 1] + bytes[i] * Weight[i - 1]

(* The same for the recursion of FromLeBytes.                              *)
LEMMA SizesExist ==
    ASSUME NEW bytes \in Seq(Byte), Len(bytes) = HeaderSize
    PROVE  \E size : Sizes(bytes, size) /\ FromLeBytes(bytes) = size[HeaderSize]
<1> DEFINE N == HeaderSize
           F == [x \in (1..N) \X Nat |-> x[2] + bytes[x[1]] * Weight[x[1] - 1]]
           D(g) == [i \in 0..N |-> IF i = 0 THEN 0 ELSE g[i - 1] + bytes[i] * Weight[i - 1]]
           u == CHOOSE g : g = D(g)
<1>0. N \in Nat /\ \A i \in 1..N : bytes[i] \in Nat /\ Weight[i - 1] \in Nat
                                    /\ bytes[i] * Weight[i - 1] \in Nat
  <2>1. N \in Nat /\ \A i \in 1..N : bytes[i] \in Nat /\ i - 1 \in 0..N
    BY TcpParserAssumption DEF Byte
  <2>2. \A i \in 1..N : Weight[i - 1] \in Nat
    BY <2>1, WeightSteps
  <2>3. QED
    BY <2>1, <2>2
<1>1. F \in [(1..N) \X Nat -> Nat]
  BY <1>0, SMTT(20)
<1>2. PICK f : Recurses(f, Nat, N, 0, F)
  <2> HIDE DEF F, N
  <2>1. QED
    BY <1>0, <1>1, RecursionExists
<1>3. f \in [0..N -> Nat] /\ f[0] = 0 /\ \A i \in 1..N : f[i] = F[<<i, f[i - 1]>>]
  BY <1>2 DEF Recurses
<1>4. ASSUME NEW i \in 1..N PROVE f[i] = f[i - 1] + bytes[i] * Weight[i - 1]
  <2>1. i - 1 \in 0..N
    BY <1>0
  <2>2. <<i, f[i - 1]>> \in (1..N) \X Nat
    BY <1>3, <2>1
  <2>3. QED
    BY <1>3, <2>2
<1>5. f = D(f)
  BY <1>0, <1>3, <1>4
<1>6. u = D(u)
  <2> HIDE DEF D
  <2>2. QED
    BY <1>5
<1>7. FromLeBytes(bytes) = u[N]
  BY DEF FromLeBytes
<1> HIDE DEF u
<1>8. u[0] = 0 /\ \A i \in 1..N : u[i] = u[i - 1] + bytes[i] * Weight[i - 1]
  BY <1>0, <1>6
<1>9. \A i \in 0..N : u[i] \in Nat
  <2> DEFINE S == {n \in Nat : n <= N => u[n] \in Nat}
  <2>1. 0 \in S
    BY <1>8
  <2>2. \A n \in Nat : n \in S => n + 1 \in S
    <3> SUFFICES ASSUME NEW n \in Nat, n \in S, n + 1 <= N PROVE u[n + 1] \in Nat
      OBVIOUS
    <3>1. n + 1 \in 1..N /\ (n + 1) - 1 = n /\ u[n] \in Nat
      BY <1>0
    <3>2. u[n + 1] = u[n] + bytes[n + 1] * Weight[n]
      BY <1>8, <3>1
    <3>3. bytes[n + 1] * Weight[n] \in Nat
      BY <1>0, <3>1
    <3>4. QED
      BY <3>1, <3>2, <3>3
  <2> HIDE DEF S
  <2>3. \A n \in Nat : n \in S
    BY <2>1, <2>2, CountingUp
  <2>4. QED
    BY <1>0, <2>3 DEF S
<1>10. Sizes(bytes, u)
  BY <1>6, <1>8, <1>9 DEF Sizes
<1>11. QED
  BY <1>7, <1>10

(* A header announces a number, and the number that was put into it.       *)
LEMMA SizeType ==
    ASSUME NEW bytes \in Seq(Byte), Len(bytes) = HeaderSize
    PROVE  FromLeBytes(bytes) \in Nat
BY SizesExist, TcpParserAssumption DEF Sizes

(* A size becomes HeaderSize bytes.                                        *)
LEMMA BytesType ==
    ASSUME NEW size \in Nat
    PROVE  ToLeBytes(size) \in Seq(Byte) /\ Len(ToLeBytes(size)) = HeaderSize
<1>1. HeaderSize \in Nat /\ \A i \in 1..HeaderSize : Weight[i - 1] \in Nat \ {0}
  BY WeightSteps, TcpParserAssumption
<1>2. \A i \in 1..HeaderSize : (size \div Weight[i - 1]) % Radix \in Byte
  <2> SUFFICES ASSUME NEW i \in 1..HeaderSize
               PROVE  (size \div Weight[i - 1]) % Radix \in 0..(Radix - 1)
    BY DEF Byte
  <2> DEFINE q == size \div Weight[i - 1]
  <2>1. q \in Nat
    BY <1>1, Quotient
  <2>2. Radix \in Nat \ {0}
    BY TcpParserAssumption
  <2> HIDE DEF q
  <2>3. q % Radix \in 0..(Radix - 1)
    BY <2>1, <2>2, Quotient
  <2>4. QED
    BY <2>3 DEF q
<1>3. QED
  BY <1>1, <1>2 DEF ToLeBytes

(* And these bytes are read back as the size.                              *)
LEMMA SizeReadBack ==
    ASSUME NEW size \in Nat, size < Width
    PROVE  FromLeBytes(ToLeBytes(size)) = size
<1> DEFINE N == HeaderSize
           b == ToLeBytes(size)
<1>0. N \in Nat /\ Radix \in Nat \ {0} /\ b \in Seq(Byte) /\ Len(b) = N
  BY BytesType, TcpParserAssumption
<1>1. PICK f : Sizes(b, f) /\ FromLeBytes(b) = f[N]
  BY <1>0, SizesExist
<1>2. f \in [0..N -> Nat] /\ f[0] = 0 /\ \A i \in 1..N : f[i] = f[i - 1] + b[i] * Weight[i - 1]
  BY <1>1 DEF Sizes
<1>3. /\ Weight \in [0..N -> Nat \ {0}] /\ Weight[0] = 1 /\ Width = Weight[N]
      /\ \A i \in 1..N : Weight[i] = Radix * Weight[i - 1]
  BY WeightSteps DEF Width
<1>4. \A i \in 1..N : b[i] = (size \div Weight[i - 1]) % Radix
  BY DEF ToLeBytes
<1> HIDE DEF b, N
<1>5. \A i \in 0..N : f[i] + Weight[i] * (size \div Weight[i]) = size
  <2> DEFINE S == {n \in Nat : n <= N => f[n] + Weight[n] * (size \div Weight[n]) = size}
  <2>1. 0 \in S
    <3>1. size = 1 * (size \div 1) + (size % 1) /\ size % 1 = 0 /\ size \div 1 \in Nat
      BY Quotient
    <3>2. QED
      BY <1>2, <1>3, <3>1
  <2>2. \A n \in Nat : n \in S => n + 1 \in S
    <3> SUFFICES ASSUME NEW n \in Nat, n \in S, n + 1 <= N
                 PROVE  f[n + 1] + Weight[n + 1] * (size \div Weight[n + 1]) = size
      OBVIOUS
    <3> DEFINE w == Weight[n]
               q == size \div w
               p == q \div Radix
               e == q % Radix
    <3>1. n + 1 \in 1..N /\ (n + 1) - 1 = n /\ n \in 0..N
      BY <1>0
    <3>2. w \in Nat \ {0} /\ Weight[n + 1] = Radix * w
      BY <1>3, <3>1
    <3>3. f[n + 1] = f[n] + e * w /\ f[n] \in Nat
      BY <1>2, <1>4, <3>1
    <3>4. f[n] + w * q = size
      BY <3>1
    <3>5. size \div (Radix * w) = p
      BY <1>0, <3>2, QuotientTwice
    <3>6. q \in Nat
      BY <3>2, Quotient
    <3> HIDE DEF q, w
    <3>7. p \in Nat /\ e \in Nat /\ q = Radix * p + e
      <4>1. p \in Nat /\ e \in 0..(Radix - 1) /\ q = Radix * p + e
        BY <1>0, <3>6, Quotient
      <4>2. QED
        BY <1>0, <4>1
    <3> HIDE DEF p, e
    <3>8. w * q = w * (Radix * p) + w * e
      BY <1>0, <3>2, <3>7
    <3>9. w * (Radix * p) = (Radix * w) * p /\ w * e = e * w
      BY <1>0, <3>2, <3>7
    <3>10. e * w \in Nat /\ (Radix * w) * p \in Nat
      BY <1>0, <3>2, <3>7
    <3>11. f[n] + e * w + (Radix * w) * p = size
      BY <3>3, <3>4, <3>8, <3>9, <3>10
    <3>12. QED
      BY <3>2, <3>3, <3>5, <3>11
  <2> HIDE DEF S
  <2>3. \A n \in Nat : n \in S
    BY <2>1, <2>2, CountingUp
  <2>4. QED
    BY <1>0, <2>3 DEF S
<1>6. f[N] + Weight[N] * (size \div Weight[N]) = size /\ f[N] \in Nat
  BY <1>0, <1>2, <1>5
<1>7. size \div Weight[N] = 0
  <2>1. Weight[N] \in Nat \ {0} /\ size \in 0..(Weight[N] - 1) /\ size = Weight[N] * 0 + size
    BY <1>0, <1>3
  <2>2. QED
    BY <2>1, QuotientUnique
<1>8. Weight[N] \in Nat
  BY <1>0, <1>3
<1>9. f[N] = size
  BY <1>6, <1>7, <1>8
<1>10. QED
  BY <1>1, <1>9 DEF b

-----------------------------------------------------------------------------
(* Sequences cut in two places *)

(* Sequences with the same elements are one sequence.                      *)
LEMMA SameSeq ==
    ASSUME NEW S, NEW a \in Seq(S), NEW b \in Seq(S), Len(a) = Len(b),
           \A i \in 1..Len(a) : a[i] = b[i]
    PROVE  a = b
OBVIOUS

(* Of two ways to cut a sequence, one is a refinement of the other.        *)
LEMMA CutTwice ==
    ASSUME NEW S, NEW a \in Seq(S), NEW b \in Seq(S), NEW c \in Seq(S), NEW d \in Seq(S),
           Cat(a, b) = Cat(c, d), Len(a) >= Len(c)
    PROVE  \E e \in Seq(S) : a = Cat(c, e) /\ d = Cat(e, b)
<1> DEFINE e == Piece(a, Len(c) + 1, Len(a))
           n == Len(a) - Len(c)
<1>0. Len(a) \in Nat /\ Len(b) \in Nat /\ Len(c) \in Nat /\ Len(d) \in Nat /\ n \in Nat
  OBVIOUS
<1>1. e \in Seq(S) /\ Len(e) = n /\ \A i \in 1..n : e[i] = a[Len(c) + i]
  BY DEF Piece
<1> HIDE DEF e
<1> DEFINE Is(s, x, y) == /\ s \in Seq(S) /\ Len(s) = Len(x) + Len(y)
                          /\ \A i \in 1..Len(x) : s[i] = x[i]
                          /\ \A i \in 1..Len(y) : s[Len(x) + i] = y[i]
<1>2. /\ Is(Cat(a, b), a, b) /\ Is(Cat(c, d), c, d)
      /\ Is(Cat(c, e), c, e) /\ Is(Cat(e, b), e, b)
  <2>1. ASSUME NEW x \in Seq(S), NEW y \in Seq(S) PROVE Is(Cat(x, y), x, y)
    <3>1. Cat(x, y) \in Seq(S) /\ Len(Cat(x, y)) = Len(x) + Len(y)
      BY CatType
    <3>2. \A i \in 1..Len(x) : Cat(x, y)[i] = x[i]
      BY CatType
    <3>3. \A i \in 1..Len(y) : Cat(x, y)[Len(x) + i] = y[i]
      BY CatType
    <3> QED
      BY <3>1, <3>2, <3>3
  <2> HIDE DEF Is
  <2>2. QED
    BY <1>1, <2>1
<1>3. Len(e) + Len(b) = Len(d)
  <2>1. Len(a) + Len(b) = Len(c) + Len(d)
    BY <1>2
  <2>2. QED
    BY <1>0, <1>1, <2>1
<1>4. Is(Cat(c, d), a, b)
  BY <1>2
<1>5. a = Cat(c, e)
  <2>1. Cat(c, e) \in Seq(S) /\ Len(Cat(c, e)) = Len(a)
    BY <1>0, <1>1, <1>2
  <2>2. ASSUME NEW i \in 1..Len(a) PROVE a[i] = Cat(c, e)[i]
    <3>1. CASE i <= Len(c)
      <4>1. i \in 1..Len(c)
        BY <1>0, <3>1
      <4>2. a[i] = Cat(c, d)[i] /\ Cat(c, d)[i] = c[i] /\ Cat(c, e)[i] = c[i]
        BY <1>2, <1>4, <4>1
      <4>3. QED
        BY <4>2
    <3>2. CASE i > Len(c)
      <4>1. i - Len(c) \in 1..n /\ Len(c) + (i - Len(c)) = i
        BY <1>0, <3>2
      <4>2. e[i - Len(c)] = a[i] /\ Cat(c, e)[i] = e[i - Len(c)]
        BY <1>1, <1>2, <4>1
      <4>3. QED
        BY <4>2
    <3>3. QED
      BY <1>0, <3>1, <3>2
  <2>3. QED
    BY <2>1, <2>2, SameSeq
<1>6. d = Cat(e, b)
  <2>1. Cat(e, b) \in Seq(S) /\ Len(Cat(e, b)) = Len(d)
    BY <1>2, <1>3
  <2>2. ASSUME NEW i \in 1..Len(d) PROVE d[i] = Cat(e, b)[i]
    <3>0. d[i] = Cat(c, d)[Len(c) + i]
      BY <1>2
    <3>1. CASE i <= n
      <4>1. i \in 1..n /\ Len(c) + i \in 1..Len(a)
        BY <1>0, <3>1
      <4>2. Cat(c, d)[Len(c) + i] = a[Len(c) + i] /\ Cat(e, b)[i] = e[i]
            /\ e[i] = a[Len(c) + i]
        BY <1>1, <1>2, <1>4, <4>1
      <4>3. QED
        BY <3>0, <4>2
    <3>2. CASE i > n
      <4>1. i - n \in 1..Len(b) /\ Len(a) + (i - n) = Len(c) + i /\ n + (i - n) = i
        BY <1>0, <1>1, <1>3, <3>2
      <4>2. Cat(c, d)[Len(c) + i] = b[i - n] /\ Cat(e, b)[i] = b[i - n]
        BY <1>1, <1>2, <1>4, <4>1, SMTT(20)
      <4>3. QED
        BY <3>0, <4>2
    <3>3. QED
      BY <1>0, <3>1, <3>2
  <2>3. QED
    BY <2>1, <2>2, SameSeq
<1>7. QED
  BY <1>1, <1>5, <1>6

(* The pieces of a concatenation. *)
LEMMA PieceLeft ==
    ASSUME NEW S, NEW a \in Seq(S), NEW b \in Seq(S)
    PROVE  Piece(Cat(a, b), 1, Len(a)) = a
BY DEF Piece, Cat

(* The right part of a concatenation, and one in the middle.               *)
LEMMA PieceRight ==
    ASSUME NEW S, NEW a \in Seq(S), NEW b \in Seq(S)
    PROVE  Piece(Cat(a, b), Len(a) + 1, Len(a) + Len(b)) = b
BY DEF Piece, Cat

LEMMA PieceMiddle ==
    ASSUME NEW S, NEW a \in Seq(S), NEW b \in Seq(S), NEW c \in Seq(S)
    PROVE  Piece(Cat(Cat(a, b), c), Len(a) + 1, Len(a) + Len(b)) = b
BY DEF Piece, Cat

-----------------------------------------------------------------------------
(* Frames *)

(* What a client sends for one command, and for several. *)
LEMMA EncodeType ==
    ASSUME NEW b \in Body
    PROVE  /\ b \in Seq(Byte) /\ Len(b) \in Nat /\ HeaderSize + Len(b) < Width
           /\ Encode(b) = Cat(ToLeBytes(Len(b)), b)
           /\ ToLeBytes(Len(b)) \in Seq(Byte) /\ Len(ToLeBytes(Len(b))) = HeaderSize
           /\ Encode(b) \in Seq(Byte) /\ Len(Encode(b)) = HeaderSize + Len(b)
<1>1. b \in Seq(Byte) /\ Len(b) \in Nat /\ HeaderSize + Len(b) < Width
  BY ServerAssumption
<1>2. ToLeBytes(Len(b)) \in Seq(Byte) /\ Len(ToLeBytes(Len(b))) = HeaderSize
  BY <1>1, BytesType
<1>3. Encode(b) = Cat(ToLeBytes(Len(b)), b)
  BY DEF Encode, Cat
<1>4. QED
  BY <1>1, <1>2, <1>3, CatType

(* A stream that begins with a command, wherever it is cut: what has       *)
(* arrived announces this command, and if it is a frame, it is this        *)
(* command's, and leaves what comes behind it.                             *)
LEMMA FirstFrame ==
    ASSUME NEW b \in Body, NEW more \in Seq(Byte),
           NEW arrived \in Seq(Byte), NEW ahead \in Seq(Byte),
           Cat(arrived, ahead) = Cat(Encode(b), more), HasHeader(arrived)
    PROVE  /\ BodySize(arrived) = Len(b) /\ ~Overflows(arrived)
           /\ HasFrame(arrived) =>
                 /\ FrameBody(arrived) = b
                 /\ AfterFrame(arrived) \in Seq(Byte)
                 /\ Cat(AfterFrame(arrived), ahead) = more
<1> DEFINE h == ToLeBytes(Len(b))
           H == HeaderSize
<1>0. /\ H \in Nat /\ b \in Seq(Byte) /\ Len(b) \in Nat /\ H + Len(b) < Width
      /\ Encode(b) = Cat(h, b) /\ h \in Seq(Byte) /\ Len(h) = H /\ Width \in Nat
  BY EncodeType, TcpParserAssumption, WeightSteps DEF Width
<1>1. FromLeBytes(h) = Len(b)
  BY <1>0, SizeReadBack
<1> HIDE DEF h, H
<1>2. Cat(arrived, ahead) = Cat(h, Cat(b, more)) /\ Cat(b, more) \in Seq(Byte)
  BY <1>0, CatAssociative, CatType
<1>3. Len(arrived) >= Len(h)
  BY <1>0 DEF HasHeader, H
<1>4. PICK r \in Seq(Byte) : arrived = Cat(h, r) /\ Cat(b, more) = Cat(r, ahead)
  BY <1>0, <1>2, <1>3, CutTwice
<1>5. BodySize(arrived) = Len(b)
  <2>1. Piece(arrived, 1, H) = h
    BY <1>0, <1>4, PieceLeft
  <2>2. QED
    BY <1>1, <2>1 DEF BodySize, Piece, H
<1>6. ~Overflows(arrived)
  BY <1>0, <1>5 DEF Overflows, H
<1>7. ASSUME HasFrame(arrived)
      PROVE  /\ FrameBody(arrived) = b /\ AfterFrame(arrived) \in Seq(Byte)
             /\ Cat(AfterFrame(arrived), ahead) = more
  <2>1. Len(arrived) = H + Len(r) /\ Len(arrived) >= H + Len(b)
    BY <1>0, <1>4, <1>5, <1>7, CatType DEF HasFrame, H
  <2>2. Len(r) >= Len(b) /\ Len(r) \in Nat
    BY <1>0, <2>1
  <2>3. PICK s \in Seq(Byte) : r = Cat(b, s) /\ more = Cat(s, ahead)
    BY <1>0, <1>4, <2>2, CutTwice
  <2>4. Len(r) = Len(b) + Len(s)
    BY <1>0, <2>3, CatType
  <2>5. FrameBody(arrived) = b
    <3>1. arrived = Cat(Cat(h, b), s)
      BY <1>0, <1>4, <2>3, CatAssociative
    <3>2. FrameBody(arrived) = Piece(arrived, H + 1, H + Len(b))
      BY <1>5 DEF FrameBody, Piece, H
    <3>3. Piece(arrived, H + 1, H + Len(b)) = b
      <4>1. Piece(Cat(Cat(h, b), s), Len(h) + 1, Len(h) + Len(b)) = b
        BY <1>0, PieceMiddle
      <4>2. QED
        BY <1>0, <3>1, <4>1
    <3>4. QED
      BY <3>2, <3>3
  <2>6. AfterFrame(arrived) = s
    <3> DEFINE a == Cat(h, b)
    <3>1. arrived = Cat(a, s)
      BY <1>0, <1>4, <2>3, CatAssociative
    <3>a. a \in Seq(Byte) /\ Len(a) = H + Len(b)
      BY <1>0, CatType
    <3> HIDE DEF a
    <3>2. Piece(arrived, H + Len(b) + 1, H + Len(b) + Len(s)) = s
      <4>1. Piece(Cat(a, s), Len(a) + 1, Len(a) + Len(s)) = s
        BY <3>a, PieceRight
      <4>2. QED
        BY <3>1, <3>a, <4>1
    <3>3. H + Len(b) + Len(s) = Len(arrived)
      BY <1>0, <2>1, <2>4
    <3>4. QED
      BY <1>5, <3>2, <3>3 DEF AfterFrame, Piece, H
  <2>7. QED
    BY <2>3, <2>5, <2>6
<1>8. QED
  BY <1>5, <1>6, <1>7

(* The last bytes of a client make no frame. *)
LEMMA LastBytesType ==
    ASSUME NEW last \in LastBytes
    PROVE  last \in Seq(Byte)
<1>1. CASE last = ToLeBytes(Width - 1)
  <2>1. Width - 1 \in Nat
    BY WeightSteps, TcpParserAssumption DEF Width
  <2>2. QED
    BY <1>1, <2>1, BytesType
<1>2. CASE \E b \in Body : \E k \in 0..(Len(Encode(b)) - 1) : last = SubSeq(Encode(b), 1, k)
  <2>1. PICK b \in Body : \E k \in 0..(Len(Encode(b)) - 1) : last = SubSeq(Encode(b), 1, k)
    BY <1>2
  <2>2. Encode(b) \in Seq(Byte)
    BY EncodeType
  <2>3. QED
    BY <2>1, <2>2
<1>3. QED
  BY <1>1, <1>2 DEF LastBytes

(* They hold no frame, and overflow only where a size is announced.        *)
LEMMA NoLastFrame ==
    ASSUME NEW last \in LastBytes \cup {<<>>},
           NEW arrived \in Seq(Byte), NEW ahead \in Seq(Byte), Cat(arrived, ahead) = last
    PROVE  ~HasFrame(arrived) /\ (last = <<>> => ~Overflows(arrived))
<1>0. /\ HeaderSize \in Nat \ {0} /\ Width \in Nat \ {0}
      /\ Len(arrived) \in Nat /\ Len(ahead) \in Nat
      /\ Len(last) = Len(arrived) + Len(ahead)
  <2>1. HeaderSize \in Nat \ {0} /\ Width \in Nat \ {0}
    BY TcpParserAssumption, WeightSteps DEF Width
  <2>2. Len(last) = Len(arrived) + Len(ahead)
    BY CatType
  <2>3. QED
    BY <2>1, <2>2
<1>1. CASE last = <<>>
  BY <1>0, <1>1, EmptySeq DEF HasFrame, Overflows, HasHeader
<1>2. CASE last = ToLeBytes(Width - 1)
  <2>1. SUFFICES ASSUME HasHeader(arrived) PROVE Overflows(arrived) /\ last # <<>>
    BY <1>0, EmptySeq DEF HasFrame, Overflows, HasHeader
  <2>2. Width - 1 \in Nat /\ last \in Seq(Byte) /\ Len(last) = HeaderSize
        /\ FromLeBytes(last) = Width - 1
    <3>1. Width - 1 \in Nat /\ Width - 1 < Width
      BY <1>0
    <3>2. last \in Seq(Byte) /\ Len(last) = HeaderSize
      BY <1>2, <3>1, BytesType
    <3>3. FromLeBytes(last) = Width - 1
      BY <1>2, <3>1, SizeReadBack
    <3>4. QED
      BY <3>1, <3>2, <3>3
  <2>3. Len(ahead) = 0 /\ Len(arrived) = HeaderSize
    BY <1>0, <2>1, <2>2 DEF HasHeader
  <2>4. arrived = last
    BY <2>3, CatEmpty, EmptySeq
  <2>5. Piece(arrived, 1, Len(arrived)) = arrived
    BY PieceWhole
  <2>6. BodySize(arrived) = Width - 1
    BY <2>2, <2>3, <2>4, <2>5 DEF BodySize, Piece
  <2>7. QED
    BY <1>0, <2>1, <2>2, <2>6, EmptySeq DEF Overflows
<1>3. CASE \E b \in Body : \E k \in 0..(Len(Encode(b)) - 1) : last = SubSeq(Encode(b), 1, k)
  <2>1. PICK b \in Body : \E k \in 0..(Len(Encode(b)) - 1) : last = SubSeq(Encode(b), 1, k)
    BY <1>3
  <2>2. PICK k \in 0..(Len(Encode(b)) - 1) : last = Piece(Encode(b), 1, k)
    BY <2>1 DEF Piece
  <2> DEFINE e == Encode(b)
             rest == Piece(e, k + 1, Len(e))
  <2>3. e \in Seq(Byte) /\ Len(e) = HeaderSize + Len(b) /\ Len(b) \in Nat /\ k \in Nat /\ k < Len(e)
    BY <1>0, EncodeType
  <2> HIDE DEF e
  <2>4. last \in Seq(Byte) /\ Len(last) = k /\ rest \in Seq(Byte) /\ Cat(last, rest) = e
    <3>1. last = Piece(e, 1, k)
      BY <2>2 DEF e
    <3>2. Piece(e, 1, k) \in Seq(Byte) /\ Len(Piece(e, 1, k)) = k
      BY <2>3, PieceType
    <3>3. rest \in Seq(Byte)
      BY <2>3, PieceType
    <3>4. Cat(Piece(e, 1, k), rest) = Piece(e, 1, Len(e))
      BY <2>3, PieceCat
    <3>5. QED
      BY <2>3, <3>1, <3>2, <3>3, <3>4, PieceWhole
  <2> HIDE DEF rest
  <2>5. Cat(ahead, rest) \in Seq(Byte) /\ <<>> \in Seq(Byte)
        /\ Cat(arrived, Cat(ahead, rest)) = Cat(e, <<>>)
    BY <2>3, <2>4, CatType, CatAssociative, CatEmpty, EmptySeq
  <2>6. HasHeader(arrived) => BodySize(arrived) = Len(b) /\ ~Overflows(arrived)
    BY <2>5, FirstFrame DEF e
  <2>7. QED
    BY <1>0, <2>3, <2>4, <2>6 DEF HasFrame, Overflows
<1>4. QED
  BY <1>1, <1>2, <1>3 DEF LastBytes

(* What a client sends for several commands. *)
Code == [b \in Body |-> Encode(b)]
Bytes(cmds) == Spread(cmds, Code)

(* What a client sends for a list of commands: lists that are put          *)
(* together are sent one behind the other.                                 *)
LEMMA CodeSpells == Spells(Code, Body, Byte)
<1> DEFINE Q == Seq(Byte)
<1>1. \A b \in Body : Encode(b) \in Q
  BY EncodeType
<1> HIDE DEF Q
<1>2. Code \in [Body -> Q]
  BY <1>1 DEF Code
<1>3. QED
  BY <1>2 DEF Spells, Q

LEMMA CommandsType ==
    ASSUME NEW cmds \in Seq(Body)
    PROVE  Bytes(cmds) \in Seq(Byte)
BY CodeSpells, SpreadType DEF Bytes

LEMMA CommandsEmpty == Bytes(<<>>) = <<>>
BY CodeSpells, SpreadEmpty DEF Bytes

LEMMA CommandsOne ==
    ASSUME NEW b \in Body
    PROVE  Bytes(<<b>>) = Encode(b)
<1>1. Bytes(<<b>>) = Code[b]
  BY CodeSpells, SpreadOne DEF Bytes
<1>2. QED
  BY <1>1 DEF Code

LEMMA CommandsCat ==
    ASSUME NEW p \in Seq(Body), NEW q \in Seq(Body)
    PROVE  Bytes(Cat(p, q)) = Cat(Bytes(p), Bytes(q))
BY CodeSpells, SpreadCat DEF Bytes

-----------------------------------------------------------------------------
(* The stream of a connection *)

(* What has arrived and is on its way, and what was lost behind it, are    *)
(* the commands that are still to come, and the client's last bytes.       *)
Flows(arrived, onWay, more, last, lost) ==
    /\ arrived \in Seq(Byte) /\ onWay \in Seq(Byte) /\ lost \in Seq(Byte)
    /\ more \in Seq(Body) /\ last \in LastBytes \cup {<<>>}
    /\ Cat(Cat(arrived, onWay), lost) = Cat(Bytes(more), last)

(* The last bytes are bytes, also when there are none.                     *)
LEMMA LastType == \A last \in LastBytes \cup {<<>>} : last \in Seq(Byte)
BY LastBytesType, EmptySeq

(* A client asks for one command more. *)
LEMMA FlowAsk ==
    ASSUME NEW a, NEW w, NEW more, Flows(a, w, more, <<>>, <<>>), NEW b \in Body
    PROVE  Flows(a, Cat(w, Encode(b)), Cat(more, <<b>>), <<>>, <<>>)
<1> DEFINE e == Encode(b)
           m == Cat(more, <<b>>)
<1>1. /\ a \in Seq(Byte) /\ w \in Seq(Byte) /\ more \in Seq(Body) /\ <<>> \in Seq(Byte)
      /\ Cat(Cat(a, w), <<>>) = Cat(Bytes(more), <<>>)
  BY EmptySeq DEF Flows
<1>2. e \in Seq(Byte) /\ <<b>> \in Seq(Body)
  BY EncodeType
<1>3. Bytes(<<b>>) = e
  BY CommandsOne
<1> HIDE DEF e
<1>4. Bytes(more) \in Seq(Byte) /\ Cat(a, w) \in Seq(Byte) /\ Cat(w, e) \in Seq(Byte)
  BY <1>1, <1>2, CommandsType, CatType
<1>5. m \in Seq(Body)
  BY <1>1, <1>2, CatType
<1>6. Bytes(m) = Cat(Bytes(more), e)
  BY <1>1, <1>2, <1>3, CommandsCat
<1>7. Cat(a, w) = Bytes(more)
  BY <1>1, <1>4, CatEmpty
<1>8. Cat(a, Cat(w, e)) = Cat(Cat(a, w), e)
  BY <1>1, <1>2, CatAssociative
<1>9. Cat(a, Cat(w, e)) = Bytes(m) /\ Bytes(m) \in Seq(Byte)
  BY <1>5, <1>6, <1>7, <1>8, CommandsType
<1> HIDE DEF m
<1>10. Cat(Cat(a, Cat(w, e)), <<>>) = Cat(Bytes(m), <<>>)
  BY <1>9
<1>11. QED
  BY <1>1, <1>4, <1>5, <1>10 DEF Flows, e, m

(* It sends its last bytes. *)
LEMMA FlowFinish ==
    ASSUME NEW a, NEW w, NEW more, Flows(a, w, more, <<>>, <<>>), NEW last \in LastBytes
    PROVE  Flows(a, Cat(w, last), more, last, <<>>)
<1>1. /\ a \in Seq(Byte) /\ w \in Seq(Byte) /\ more \in Seq(Body) /\ <<>> \in Seq(Byte)
      /\ Cat(Cat(a, w), <<>>) = Cat(Bytes(more), <<>>) /\ last \in Seq(Byte)
  BY EmptySeq, LastType DEF Flows
<1>2. Bytes(more) \in Seq(Byte) /\ Cat(a, w) \in Seq(Byte) /\ Cat(w, last) \in Seq(Byte)
  BY <1>1, CommandsType, CatType
<1>3. Cat(a, w) = Bytes(more)
  BY <1>1, <1>2, CatEmpty
<1>4. Cat(a, Cat(w, last)) = Cat(Bytes(more), last)
  BY <1>1, <1>3, CatAssociative
<1>5. Cat(a, Cat(w, last)) \in Seq(Byte)
  BY <1>1, <1>2, CatType
<1>6. Cat(Cat(a, Cat(w, last)), <<>>) = Cat(Bytes(more), last)
  BY <1>4, <1>5, CatEmpty
<1>7. QED
  BY <1>1, <1>2, <1>6 DEF Flows

(* The connection breaks, and bytes on their way are lost. *)
LEMMA FlowLeave ==
    ASSUME NEW a, NEW w, NEW more, NEW last, Flows(a, w, more, last, <<>>),
           NEW k \in 0..Len(w)
    PROVE  Flows(a, Piece(w, 1, k), more, last, Piece(w, k + 1, Len(w)))
<1> DEFINE x == Piece(w, 1, k)
           y == Piece(w, k + 1, Len(w))
<1>1. /\ a \in Seq(Byte) /\ w \in Seq(Byte) /\ more \in Seq(Body)
      /\ last \in LastBytes \cup {<<>>}
      /\ Cat(Cat(a, w), <<>>) = Cat(Bytes(more), last)
  BY DEF Flows
<1>2. k \in Int /\ 1 <= k + 1 /\ k <= Len(w) /\ Len(w) \in Int
  BY <1>1
<1>3. x \in Seq(Byte) /\ y \in Seq(Byte)
  BY <1>1, <1>2, PieceType
<1>4. Cat(x, y) = w
  BY <1>1, <1>2, PieceCat, PieceWhole
<1> HIDE DEF x, y
<1>5. Cat(a, w) \in Seq(Byte)
  BY <1>1, CatType
<1>6. Cat(Cat(a, x), y) = Cat(a, w)
  BY <1>1, <1>3, <1>4, CatAssociative
<1>7. Cat(Cat(a, x), y) = Cat(Bytes(more), last)
  BY <1>1, <1>5, <1>6, CatEmpty
<1>8. QED
  BY <1>1, <1>3, <1>7 DEF Flows, x, y

(* A piece of the stream arrives. *)
LEMMA FlowReceive ==
    ASSUME NEW a, NEW w, NEW more, NEW last, NEW lost, Flows(a, w, more, last, lost),
           NEW k \in 1..Len(w)
    PROVE  Flows(Cat(a, Piece(w, 1, k)), Piece(w, k + 1, Len(w)), more, last, lost)
<1> DEFINE x == Piece(w, 1, k)
           y == Piece(w, k + 1, Len(w))
<1>1. /\ a \in Seq(Byte) /\ w \in Seq(Byte) /\ more \in Seq(Body)
      /\ last \in LastBytes \cup {<<>>} /\ lost \in Seq(Byte)
      /\ Cat(Cat(a, w), lost) = Cat(Bytes(more), last)
  BY DEF Flows
<1>2. k \in Int /\ 1 <= k + 1 /\ k <= Len(w) /\ Len(w) \in Int
  BY <1>1
<1>3. x \in Seq(Byte) /\ y \in Seq(Byte)
  BY <1>1, <1>2, PieceType
<1>4. Cat(x, y) = w
  BY <1>1, <1>2, PieceCat, PieceWhole
<1> HIDE DEF x, y
<1>5. Cat(a, x) \in Seq(Byte)
  BY <1>1, <1>3, CatType
<1>6. Cat(Cat(a, x), y) = Cat(a, w)
  BY <1>1, <1>3, <1>4, CatAssociative
<1>7. QED
  BY <1>1, <1>3, <1>5, <1>6 DEF Flows, x, y

(* All that a stream has left is bytes behind what has arrived. *)
LEMMA FlowAhead ==
    ASSUME NEW a, NEW w, NEW more, NEW last, NEW lost, Flows(a, w, more, last, lost)
    PROVE  Cat(w, lost) \in Seq(Byte) /\ Cat(a, Cat(w, lost)) = Cat(Bytes(more), last)
<1>1. /\ a \in Seq(Byte) /\ w \in Seq(Byte) /\ lost \in Seq(Byte)
      /\ Cat(Cat(a, w), lost) = Cat(Bytes(more), last)
  BY DEF Flows
<1>2. Cat(w, lost) \in Seq(Byte)
  BY <1>1, CatType
<1>3. Cat(Cat(a, w), lost) = Cat(a, Cat(w, lost))
  BY <1>1, CatAssociative
<1>4. QED
  BY <1>1, <1>2, <1>3

(* If commands are still to come, the stream begins with the first. *)
LEMMA FlowFirst ==
    ASSUME NEW a, NEW w, NEW more, NEW last, NEW lost, Flows(a, w, more, last, lost),
           more # <<>>
    PROVE  \E b \in Body, rest \in Seq(Body) :
              /\ more = Cat(<<b>>, rest) /\ Cat(Bytes(rest), last) \in Seq(Byte)
              /\ Cat(a, Cat(w, lost)) = Cat(Encode(b), Cat(Bytes(rest), last))
<1> DEFINE n == Len(more)
           b == more[1]
           rest == Piece(more, 2, n)
<1>1. more \in Seq(Body) /\ last \in Seq(Byte)
  BY LastType DEF Flows
<1>2. n \in Nat \ {0} /\ b \in Body
  BY <1>1, EmptySeq
<1>3. rest \in Seq(Body)
  BY <1>1, <1>2, PieceType
<1>4. more = Cat(<<b>>, rest)
  <2>1. Piece(more, 1, 1) = <<b>>
    BY <1>1, <1>2, PieceOne
  <2>2. Cat(Piece(more, 1, 1), Piece(more, 1 + 1, n)) = Piece(more, 1, n)
    BY <1>1, <1>2, PieceCat
  <2>3. Piece(more, 1, n) = more
    BY <1>1, PieceWhole
  <2>4. 1 + 1 = 2
    OBVIOUS
  <2>5. QED
    BY <2>1, <2>2, <2>3, <2>4
<1> HIDE DEF n, b, rest
<1>5. <<b>> \in Seq(Body) /\ Encode(b) \in Seq(Byte) /\ Bytes(rest) \in Seq(Byte)
  BY <1>2, <1>3, EncodeType, CommandsType
<1>6. Bytes(more) = Cat(Encode(b), Bytes(rest))
  BY <1>2, <1>3, <1>4, <1>5, CommandsCat, CommandsOne
<1>7. Cat(Bytes(rest), last) \in Seq(Byte)
  BY <1>1, <1>5, CatType
<1>8. Cat(Cat(Encode(b), Bytes(rest)), last) = Cat(Encode(b), Cat(Bytes(rest), last))
  BY <1>1, <1>5, CatAssociative
<1>9. Cat(a, Cat(w, lost)) = Cat(Bytes(more), last)
  BY FlowAhead
<1>10. QED
  BY <1>2, <1>3, <1>4, <1>6, <1>7, <1>8, <1>9

(* A frame is the first command that is still to come. *)
LEMMA FlowFrame ==
    ASSUME NEW a, NEW w, NEW more, NEW last, NEW lost, Flows(a, w, more, last, lost),
           HasFrame(a)
    PROVE  \E rest \in Seq(Body) :
              /\ FrameBody(a) \in Body /\ more = Cat(<<FrameBody(a)>>, rest)
              /\ Flows(AfterFrame(a), w, rest, last, lost)
<1>1. /\ a \in Seq(Byte) /\ w \in Seq(Byte) /\ lost \in Seq(Byte)
      /\ last \in LastBytes \cup {<<>>} /\ last \in Seq(Byte)
  BY LastType DEF Flows
<1>2. Cat(w, lost) \in Seq(Byte) /\ Cat(a, Cat(w, lost)) = Cat(Bytes(more), last)
  BY FlowAhead
<1>3. more # <<>>
  <2> SUFFICES ASSUME more = <<>> PROVE FALSE
    OBVIOUS
  <2>1. Cat(a, Cat(w, lost)) = last
    BY <1>1, <1>2, CommandsEmpty, CatEmpty
  <2>2. QED
    BY <1>1, <1>2, <2>1, NoLastFrame
<1>4. PICK b \in Body, rest \in Seq(Body) :
         /\ more = Cat(<<b>>, rest) /\ Cat(Bytes(rest), last) \in Seq(Byte)
         /\ Cat(a, Cat(w, lost)) = Cat(Encode(b), Cat(Bytes(rest), last))
  BY <1>3, FlowFirst
<1>5. HasHeader(a)
  BY DEF HasFrame
<1>6. /\ FrameBody(a) = b /\ AfterFrame(a) \in Seq(Byte)
      /\ Cat(AfterFrame(a), Cat(w, lost)) = Cat(Bytes(rest), last)
  BY <1>1, <1>2, <1>4, <1>5, FirstFrame
<1>7. Cat(Cat(AfterFrame(a), w), lost) = Cat(Bytes(rest), last)
  BY <1>1, <1>6, CatAssociative
<1>8. Flows(AfterFrame(a), w, rest, last, lost)
  BY <1>1, <1>4, <1>6, <1>7 DEF Flows
<1>9. QED
  BY <1>4, <1>6, <1>8

(* No size overflows on a client that asks commands only. *)
LEMMA FlowFits ==
    ASSUME NEW a, NEW w, NEW more, NEW last, NEW lost, Flows(a, w, more, last, lost)
    PROVE  last = <<>> => ~Overflows(a)
<1>1. /\ a \in Seq(Byte) /\ w \in Seq(Byte) /\ lost \in Seq(Byte) /\ last \in Seq(Byte)
      /\ last \in LastBytes \cup {<<>>}
  BY LastType DEF Flows
<1>2. Cat(w, lost) \in Seq(Byte) /\ Cat(a, Cat(w, lost)) = Cat(Bytes(more), last)
  BY FlowAhead
<1>3. CASE more = <<>>
  <2>1. Cat(a, Cat(w, lost)) = last
    BY <1>1, <1>2, <1>3, CommandsEmpty, CatEmpty
  <2>2. QED
    BY <1>1, <1>2, <2>1, NoLastFrame
<1>4. CASE more # <<>>
  <2>1. PICK b \in Body, rest \in Seq(Body) :
           /\ more = Cat(<<b>>, rest) /\ Cat(Bytes(rest), last) \in Seq(Byte)
           /\ Cat(a, Cat(w, lost)) = Cat(Encode(b), Cat(Bytes(rest), last))
    BY <1>4, FlowFirst
  <2>2. HasHeader(a) => ~Overflows(a)
    BY <1>1, <1>2, <2>1, FirstFrame
  <2>3. QED
    BY <2>2 DEF Overflows
<1>5. QED
  BY <1>3, <1>4

-----------------------------------------------------------------------------
(* The invariant of the dialogue *)

Replies == Seq(Seq(Byte) \X {"ok", "error", "notice"})

(* The types of what is sent and remembered; only what was asked is taken. *)
FlowTypes ==
    /\ buf \in [Connection -> Seq(Byte)] /\ wire \in [Connection -> Seq(Byte)]
    /\ command \in [Connection -> Seq(Byte)]
    /\ output \in [Connection -> {"none", "ok", "error"}]
    /\ asked \in [Connection -> Seq(Body)] /\ taken \in [Connection -> Seq(Body)]
    /\ inbox \in [Connection -> Replies] /\ answers \in [Connection -> Replies]
    /\ faults \in 0..MaxFaults

(* The stream of c is what c has asked and the server has not taken up,    *)
(* and behind it what c sent at last; bytes are missing only if c left.    *)
StreamInv(c) ==
    task[c] # "ended" =>
        \E more, last, lost :
            /\ Flows(buf[c], wire[c], more, last, lost)
            /\ asked[c] = Cat(taken[c], more)
            /\ peer[c] \in {"away", "open"} => last = <<>>
            /\ peer[c] # "gone" => lost = <<>>

(* One command is in work, and it is the one that was taken up last.       *)
TurnInv(c) ==
    /\ task[c] \in {"none", "read", "notice"} => Len(taken[c]) = Len(answers[c])
    /\ task[c] \in {"plan", "run", "reply"} =>
          /\ Len(taken[c]) = Len(answers[c]) + 1
          /\ command[c] = taken[c][Len(taken[c])]
    /\ task[c] = "reply" => output[c] \in {"ok", "error"}
    /\ task[c] = "notice" => peer[c] \in {"finished", "gone"}

DInv == CInv /\ FlowTypes /\ \A c \in Connection : StreamInv(c) /\ TurnInv(c)

-----------------------------------------------------------------------------
(* Steps of one connection leave the others alone. *)

Apart(c) ==
    \A d \in Connection \ {c} :
        /\ task'[d] = task[d] /\ buf'[d] = buf[d] /\ command'[d] = command[d]
        /\ output'[d] = output[d] /\ peer'[d] = peer[d] /\ wire'[d] = wire[d]
        /\ asked'[d] = asked[d] /\ taken'[d] = taken[d] /\ answers'[d] = answers[d]

Keeping(c) == FlowTypes' /\ Apart(c) /\ StreamInv(c)' /\ TurnInv(c)'

(* A step that keeps the invariant for the connection it is a step of,     *)
(* and leaves the others alone, preserves it.                              *)
LEMMA KeepingInv ==
    ASSUME DInv, CInv', NEW c \in Connection, Keeping(c)
    PROVE  DInv'
<1>1. ASSUME NEW d \in Connection, d # c PROVE StreamInv(d)' /\ TurnInv(d)'
  <2>1. StreamInv(d) /\ TurnInv(d)
    BY DEF DInv
  <2>2. /\ task'[d] = task[d] /\ buf'[d] = buf[d] /\ command'[d] = command[d]
        /\ output'[d] = output[d] /\ peer'[d] = peer[d] /\ wire'[d] = wire[d]
        /\ asked'[d] = asked[d] /\ taken'[d] = taken[d] /\ answers'[d] = answers[d]
    BY <1>1 DEF Keeping, Apart
  <2>3. StreamInv(d)'
    BY <2>1, <2>2 DEF StreamInv
  <2>4. TurnInv(d)'
    BY <2>1, <2>2 DEF TurnInv
  <2>5. QED
    BY <2>3, <2>4
<1>2. \A d \in Connection : StreamInv(d)' /\ TurnInv(d)'
  BY <1>1 DEF Keeping
<1>3. QED
  BY <1>2 DEF DInv, Keeping

(* What a step needs that does not touch the stream. *)
LEMMA StreamStays ==
    ASSUME NEW c \in Connection, StreamInv(c), task[c] # "ended",
           buf'[c] = buf[c], wire'[c] = wire[c], asked'[c] = asked[c],
           taken'[c] = taken[c], peer'[c] = peer[c]
    PROVE  StreamInv(c)'
BY DEF StreamInv

(* One more at the end of a list. *)
LEMMA AppendLast ==
    ASSUME NEW S, NEW a \in Seq(S), NEW e \in S
    PROVE  /\ Append(a, e) \in Seq(S) /\ Len(Append(a, e)) = Len(a) + 1
           /\ Append(a, e)[Len(a) + 1] = e
BY AppendProperties

(* Behind, or before, the rest of a list.                                  *)
LEMMA AppendBehind ==
    ASSUME NEW S, NEW a \in Seq(S), NEW b \in Seq(S), NEW e \in S
    PROVE  Append(Cat(a, b), e) = Cat(a, Cat(b, <<e>>))
<1> DEFINE x == <<e>>
<1>1. x \in Seq(S)
  OBVIOUS
<1>2. Cat(a, b) \in Seq(S)
  BY CatType
<1>3. Append(Cat(a, b), e) = Cat(Cat(a, b), x)
  BY <1>2 DEF Cat
<1> HIDE DEF x
<1>4. Cat(Cat(a, b), x) = Cat(a, Cat(b, x))
  BY <1>1, CatAssociative
<1>5. QED
  BY <1>3, <1>4 DEF x

LEMMA AppendBefore ==
    ASSUME NEW S, NEW a \in Seq(S), NEW b \in Seq(S), NEW e \in S
    PROVE  Cat(a, Cat(<<e>>, b)) = Cat(Append(a, e), b)
<1> DEFINE x == <<e>>
<1>1. x \in Seq(S)
  OBVIOUS
<1>2. Append(a, e) = Cat(a, x)
  BY DEF Cat
<1> HIDE DEF x
<1>3. Cat(a, Cat(x, b)) = Cat(Cat(a, x), b)
  BY <1>1, CatAssociative
<1>4. QED
  BY <1>2, <1>3 DEF x

(* A client that connects has sent nothing.                                *)
LEMMA ConnectKeeps ==
    ASSUME DInv, NEW c \in Connection, Connect(c)
    PROVE  Keeping(c)
<1>1. /\ peer[c] = "away" /\ peer' = [peer EXCEPT ![c] = "open"]
      /\ task' = task /\ buf' = buf /\ command' = command /\ output' = output
      /\ wire' = wire /\ inbox' = inbox /\ asked' = asked /\ taken' = taken
      /\ answers' = answers /\ faults' = faults
  BY DEF Connect, tasks
<1>2. peer'[c] = "open" /\ \A d \in Connection \ {c} : peer'[d] = peer[d]
  BY <1>1 DEF DInv, CInv, ControlOK
<1>3. FlowTypes' /\ Apart(c)
  BY <1>1, <1>2 DEF DInv, FlowTypes, Apart
<1>4. StreamInv(c) /\ TurnInv(c)
  BY DEF DInv
<1>5. StreamInv(c)'
  BY <1>1, <1>2, <1>4 DEF StreamInv
<1>6. TurnInv(c)'
  BY <1>1, <1>2, <1>4 DEF TurnInv
<1>7. QED
  BY <1>3, <1>5, <1>6 DEF Keeping

(* A command that is asked is sent behind what is on its way.              *)
LEMMA AskKeeps ==
    ASSUME DInv, NEW c \in Connection, Ask(c)
    PROVE  Keeping(c)
<1>1. PICK b \in Body :
         /\ wire' = [wire EXCEPT ![c] = Cat(@, Encode(b))]
         /\ asked' = [asked EXCEPT ![c] = Append(@, b)]
  BY DEF Ask, Cat
<1>2. /\ peer[c] = "open" /\ task[c] # "ended"
      /\ task' = task /\ buf' = buf /\ command' = command /\ output' = output
      /\ peer' = peer /\ inbox' = inbox /\ taken' = taken
      /\ answers' = answers /\ faults' = faults
  BY DEF Ask, tasks
<1>3. /\ wire[c] \in Seq(Byte) /\ asked[c] \in Seq(Body) /\ taken[c] \in Seq(Body)
  BY DEF DInv, FlowTypes
<1>5. Cat(wire[c], Encode(b)) \in Seq(Byte) /\ Append(asked[c], b) \in Seq(Body)
  <2>1. Encode(b) \in Seq(Byte)
    BY EncodeType
  <2>2. Cat(wire[c], Encode(b)) \in Seq(Byte)
    BY <1>3, <2>1, CatType
  <2>3. Append(asked[c], b) \in Seq(Body)
    BY <1>3, AppendProperties
  <2>4. QED
    BY <2>2, <2>3
<1>6. /\ wire'[c] = Cat(wire[c], Encode(b)) /\ asked'[c] = Append(asked[c], b)
      /\ \A d \in Connection \ {c} : wire'[d] = wire[d] /\ asked'[d] = asked[d]
  BY <1>1 DEF DInv, FlowTypes
<1>7. wire' \in [Connection -> Seq(Byte)] /\ asked' \in [Connection -> Seq(Body)]
  BY <1>1, <1>5 DEF DInv, FlowTypes
<1>8. FlowTypes' /\ Apart(c)
  BY <1>2, <1>6, <1>7 DEF DInv, FlowTypes, Apart
<1>9. StreamInv(c) /\ TurnInv(c)
  BY DEF DInv
<1>10. StreamInv(c)'
  <2>1. PICK more, last, lost :
           /\ Flows(buf[c], wire[c], more, last, lost)
           /\ asked[c] = Cat(taken[c], more) /\ last = <<>> /\ lost = <<>>
    BY <1>2, <1>9 DEF StreamInv
  <2>2. Flows(buf[c], wire[c], more, <<>>, <<>>) /\ more \in Seq(Body) /\ <<b>> \in Seq(Body)
    BY <2>1 DEF Flows
  <2>3. Flows(buf[c], Cat(wire[c], Encode(b)), Cat(more, <<b>>), <<>>, <<>>)
    BY <2>2, FlowAsk
  <2>4. Append(asked[c], b) = Cat(taken[c], Cat(more, <<b>>))
    BY <1>3, <2>1, <2>2, AppendBehind
  <2>5. QED
    BY <1>2, <1>6, <2>3, <2>4 DEF StreamInv
<1>11. TurnInv(c)'
  BY <1>2, <1>9 DEF TurnInv
<1>12. QED
  BY <1>8, <1>10, <1>11 DEF Keeping

(* The last bytes of a client follow its commands.                         *)
LEMMA FinishKeeps ==
    ASSUME DInv, NEW c \in Connection, Finish(c)
    PROVE  Keeping(c)
<1>1. PICK final \in LastBytes : wire' = [wire EXCEPT ![c] = Cat(@, final)]
  BY DEF Finish, Cat
<1>2. /\ peer[c] = "open" /\ task[c] # "ended" /\ peer' = [peer EXCEPT ![c] = "finished"]
      /\ task' = task /\ buf' = buf /\ command' = command /\ output' = output
      /\ inbox' = inbox /\ asked' = asked /\ taken' = taken
      /\ answers' = answers /\ faults' = faults
  BY DEF Finish, tasks
<1>3. wire[c] \in Seq(Byte) /\ final \in Seq(Byte)
  BY LastType DEF DInv, FlowTypes
<1>4. Cat(wire[c], final) \in Seq(Byte)
  BY <1>3, CatType
<1>5. /\ wire'[c] = Cat(wire[c], final) /\ wire' \in [Connection -> Seq(Byte)]
      /\ \A d \in Connection \ {c} : wire'[d] = wire[d]
  BY <1>1, <1>4 DEF DInv, FlowTypes
<1>6. peer'[c] = "finished" /\ \A d \in Connection \ {c} : peer'[d] = peer[d]
  BY <1>2 DEF DInv, CInv, ControlOK
<1>7. FlowTypes' /\ Apart(c)
  BY <1>2, <1>5, <1>6 DEF DInv, FlowTypes, Apart
<1>8. StreamInv(c) /\ TurnInv(c)
  BY DEF DInv
<1>9. StreamInv(c)'
  <2>1. PICK more, last, lost :
           /\ Flows(buf[c], wire[c], more, last, lost)
           /\ asked[c] = Cat(taken[c], more) /\ last = <<>> /\ lost = <<>>
    BY <1>2, <1>8 DEF StreamInv
  <2>2. Flows(buf[c], Cat(wire[c], final), more, final, <<>>)
    BY <2>1, FlowFinish
  <2>3. QED
    BY <1>2, <1>5, <1>6, <2>1, <2>2 DEF StreamInv
<1>10. TurnInv(c)'
  BY <1>2, <1>6, <1>8 DEF TurnInv
<1>11. QED
  BY <1>7, <1>9, <1>10 DEF Keeping

(* What a broken connection loses is at the end of the stream.             *)
LEMMA LeaveKeeps ==
    ASSUME DInv, NEW c \in Connection, Leave(c)
    PROVE  Keeping(c)
<1>1. PICK k \in 0..Len(wire[c]) : wire' = [wire EXCEPT ![c] = Piece(@, 1, k)]
  BY DEF Leave, Piece
<1>2. /\ peer[c] \in {"open", "finished"} /\ task[c] # "ended"
      /\ peer' = [peer EXCEPT ![c] = "gone"] /\ inbox' = [inbox EXCEPT ![c] = <<>>]
      /\ task' = task /\ buf' = buf /\ command' = command /\ output' = output
      /\ asked' = asked /\ taken' = taken
      /\ answers' = answers /\ faults' = faults
  BY DEF Leave, tasks
<1>3. wire[c] \in Seq(Byte) /\ <<>> \in Replies
  BY EmptySeq DEF DInv, FlowTypes, Replies
<1>4. Piece(wire[c], 1, k) \in Seq(Byte)
  BY <1>3, PieceType
<1>5. /\ wire'[c] = Piece(wire[c], 1, k) /\ wire' \in [Connection -> Seq(Byte)]
      /\ \A d \in Connection \ {c} : wire'[d] = wire[d]
  BY <1>1, <1>4 DEF DInv, FlowTypes
<1>6. peer'[c] = "gone" /\ \A d \in Connection \ {c} : peer'[d] = peer[d]
  BY <1>2 DEF DInv, CInv, ControlOK
<1>7. inbox' \in [Connection -> Replies]
  BY <1>2, <1>3 DEF DInv, FlowTypes
<1>8. FlowTypes' /\ Apart(c)
  BY <1>2, <1>5, <1>6, <1>7 DEF DInv, FlowTypes, Apart
<1>9. StreamInv(c) /\ TurnInv(c)
  BY DEF DInv
<1>10. StreamInv(c)'
  <2>1. PICK more, last, lost :
           /\ Flows(buf[c], wire[c], more, last, lost)
           /\ asked[c] = Cat(taken[c], more) /\ lost = <<>>
    BY <1>2, <1>9 DEF StreamInv
  <2>2. Flows(buf[c], wire[c], more, last, <<>>)
    BY <2>1
  <2>3. Flows(buf[c], Piece(wire[c], 1, k), more, last, Piece(wire[c], k + 1, Len(wire[c])))
    BY <2>2, FlowLeave
  <2>4. QED
    BY <1>2, <1>5, <1>6, <2>1, <2>3 DEF StreamInv
<1>11. TurnInv(c)'
  BY <1>2, <1>6, <1>9 DEF TurnInv
<1>12. QED
  BY <1>8, <1>10, <1>11 DEF Keeping

(* What a client reads the server has done with.                           *)
LEMMA ReadAnswerKeeps ==
    ASSUME DInv, NEW c \in Connection, ReadAnswer(c)
    PROVE  Keeping(c)
<1>1. /\ inbox[c] # <<>> /\ inbox' = [inbox EXCEPT ![c] = Tail(@)]
      /\ task' = task /\ buf' = buf /\ command' = command /\ output' = output
      /\ peer' = peer /\ wire' = wire /\ asked' = asked /\ taken' = taken
      /\ answers' = answers /\ faults' = faults
  BY DEF ReadAnswer, tasks, clients
<1>2. inbox' \in [Connection -> Replies]
  <2>1. inbox[c] \in Replies /\ inbox \in [Connection -> Replies]
    BY DEF DInv, FlowTypes
  <2>2. Tail(inbox[c]) \in Replies
    BY <1>1, <2>1, HeadTailProperties DEF Replies
  <2>3. QED
    BY <1>1, <2>1, <2>2
<1>3. FlowTypes' /\ Apart(c)
  BY <1>1, <1>2 DEF DInv, FlowTypes, Apart
<1>4. StreamInv(c)' /\ TurnInv(c)'
  BY <1>1 DEF DInv, StreamInv, TurnInv
<1>5. QED
  BY <1>3, <1>4 DEF Keeping


-----------------------------------------------------------------------------
(* Steps of a task. *)

(* What arrives is taken from the front of what is on its way.             *)
LEMMA ReceiveKeeps ==
    ASSUME DInv, NEW c \in Connection, Receive(c)
    PROVE  Keeping(c)
<1>1. PICK k \in 1..Len(wire[c]) :
         /\ buf' = [buf EXCEPT ![c] = Cat(@, Piece(wire[c], 1, k))]
         /\ wire' = [wire EXCEPT ![c] = Piece(@, k + 1, Len(@))]
  BY DEF Receive, Cat, Piece
<1>2. /\ task[c] = "read"
      /\ task' = task /\ command' = command /\ output' = output /\ peer' = peer
      /\ inbox' = inbox /\ asked' = asked /\ taken' = taken
      /\ answers' = answers /\ faults' = faults
  BY DEF Receive, Reading
<1>3. PICK more, last, lost :
         /\ Flows(buf[c], wire[c], more, last, lost)
         /\ asked[c] = Cat(taken[c], more)
         /\ peer[c] \in {"away", "open"} => last = <<>>
         /\ peer[c] # "gone" => lost = <<>>
  BY <1>2 DEF DInv, StreamInv
<1>4. Flows(Cat(buf[c], Piece(wire[c], 1, k)), Piece(wire[c], k + 1, Len(wire[c])),
            more, last, lost)
  BY <1>3, FlowReceive
<1>5. /\ buf'[c] = Cat(buf[c], Piece(wire[c], 1, k))
      /\ wire'[c] = Piece(wire[c], k + 1, Len(wire[c]))
      /\ \A d \in Connection \ {c} : buf'[d] = buf[d] /\ wire'[d] = wire[d]
  BY <1>1 DEF DInv, FlowTypes
<1>6. buf' \in [Connection -> Seq(Byte)] /\ wire' \in [Connection -> Seq(Byte)]
  BY <1>1, <1>4 DEF DInv, FlowTypes, Flows
<1>7. FlowTypes' /\ Apart(c)
  BY <1>2, <1>5, <1>6 DEF DInv, FlowTypes, Apart
<1>8. StreamInv(c)'
  BY <1>2, <1>3, <1>4, <1>5 DEF StreamInv
<1>9. TurnInv(c)'
  BY <1>2 DEF DInv, TurnInv
<1>10. QED
  BY <1>7, <1>8, <1>9 DEF Keeping

(* The frame that is decoded is the first command not taken up yet.        *)
LEMMA TakeKeeps ==
    ASSUME DInv, NEW c \in Connection, Take(c)
    PROVE  Keeping(c)
<1> DEFINE b == FrameBody(buf[c])
<1>1. /\ task[c] = "read" /\ HasFrame(buf[c])
      /\ task' = [task EXCEPT ![c] = "plan"]
      /\ buf' = [buf EXCEPT ![c] = AfterFrame(@)]
      /\ command' = [command EXCEPT ![c] = b]
      /\ taken' = [taken EXCEPT ![c] = Append(@, b)]
      /\ output' = output /\ peer' = peer /\ wire' = wire /\ asked' = asked
      /\ inbox' = inbox /\ answers' = answers /\ faults' = faults
  BY DEF Take, Reading, clients
<1>2. PICK more, last, lost :
         /\ Flows(buf[c], wire[c], more, last, lost)
         /\ asked[c] = Cat(taken[c], more)
         /\ peer[c] \in {"away", "open"} => last = <<>>
         /\ peer[c] # "gone" => lost = <<>>
  BY <1>1 DEF DInv, StreamInv
<1>3. PICK rest \in Seq(Body) :
         /\ b \in Body /\ more = Cat(<<b>>, rest)
         /\ Flows(AfterFrame(buf[c]), wire[c], rest, last, lost)
  BY <1>1, <1>2, FlowFrame
<1> HIDE DEF b
<1>4. b \in Seq(Byte) /\ AfterFrame(buf[c]) \in Seq(Byte) /\ taken[c] \in Seq(Body)
  BY <1>3, ServerAssumption DEF Flows, DInv, FlowTypes
<1>5. /\ Append(taken[c], b) \in Seq(Body)
      /\ Len(Append(taken[c], b)) = Len(taken[c]) + 1
      /\ Append(taken[c], b)[Len(taken[c]) + 1] = b
  BY <1>3, <1>4, AppendLast
<1>6. /\ task'[c] = "plan" /\ buf'[c] = AfterFrame(buf[c]) /\ command'[c] = b
      /\ taken'[c] = Append(taken[c], b)
      /\ \A d \in Connection \ {c} : /\ task'[d] = task[d] /\ buf'[d] = buf[d]
                                     /\ command'[d] = command[d] /\ taken'[d] = taken[d]
  BY <1>1 DEF DInv, FlowTypes, CInv, ControlOK
<1>7. /\ buf' \in [Connection -> Seq(Byte)] /\ command' \in [Connection -> Seq(Byte)]
      /\ taken' \in [Connection -> Seq(Body)]
  BY <1>1, <1>4, <1>5 DEF DInv, FlowTypes
<1>8. FlowTypes' /\ Apart(c)
  BY <1>1, <1>6, <1>7 DEF DInv, FlowTypes, Apart
<1>9. StreamInv(c)'
  <2>1. Cat(taken[c], Cat(<<b>>, rest)) = Cat(Append(taken[c], b), rest)
    BY <1>3, <1>4, AppendBefore
  <2>2. asked[c] = Cat(Append(taken[c], b), rest)
    BY <1>2, <1>3, <2>1
  <2>3. QED
    BY <1>1, <1>2, <1>3, <1>6, <2>2 DEF StreamInv
<1>10. TurnInv(c)'
  <2>1. Len(taken[c]) = Len(answers[c])
    BY <1>1 DEF DInv, TurnInv
  <2>2. QED
    BY <1>1, <1>5, <1>6, <2>1 DEF TurnInv
<1>11. QED
  BY <1>8, <1>9, <1>10 DEF Keeping

(* A task that has ended has nothing left to keep. *)
LEMMA EndedKeeps ==
    ASSUME NEW c \in Connection, FlowTypes', Apart(c), task'[c] = "ended"
    PROVE  Keeping(c)
BY DEF Keeping, StreamInv, TurnInv

(* The type of an answer that is sent. *)
LEMMA DeliverTypes ==
    ASSUME FlowTypes, NEW c \in Connection,
           NEW answer \in Seq(Byte) \X {"ok", "error", "notice"}, Deliver(c, answer)
    PROVE  /\ inbox' \in [Connection -> Replies] /\ answers' \in [Connection -> Replies]
           /\ answers'[c] = Append(answers[c], answer)
           /\ Len(answers'[c]) = Len(answers[c]) + 1
           /\ \A d \in Connection \ {c} : answers'[d] = answers[d]
<1> DEFINE A == Seq(Byte) \X {"ok", "error", "notice"}
<1>1. inbox[c] \in Seq(A) /\ answers[c] \in Seq(A)
  BY DEF FlowTypes, Replies
<1> HIDE DEF A
<1>2. answer \in A
  BY DEF A
<1>3. /\ Append(inbox[c], answer) \in Seq(A) /\ Append(answers[c], answer) \in Seq(A)
      /\ Len(Append(answers[c], answer)) = Len(answers[c]) + 1
  BY <1>1, <1>2, AppendProperties
<1>4. Seq(A) = Replies
  BY DEF A, Replies
<1>5. /\ answers' = [answers EXCEPT ![c] = Append(@, answer)]
      /\ inbox' = inbox \/ inbox' = [inbox EXCEPT ![c] = Append(@, answer)]
  BY DEF Deliver
<1>6. QED
  BY <1>3, <1>4, <1>5, ZenonT(40) DEF FlowTypes

(* The ways a task ends without an answer.                                 *)
LEMMA EndKeeps ==
    ASSUME DInv, NEW c \in Connection, Exit(c) \/ DecodePanics(c) \/ Eof(c) \/ ReplyFails(c)
    PROVE  Keeping(c)
<1>1. /\ task' = [task EXCEPT ![c] = "ended"] /\ buf' = [buf EXCEPT ![c] = <<>>]
      /\ command' = command \/ command' = [command EXCEPT ![c] = <<>>]
      /\ output' = output \/ output' = [output EXCEPT ![c] = "none"]
      /\ peer' = peer /\ wire' = wire /\ inbox' = inbox /\ asked' = asked
      /\ taken' = taken /\ answers' = answers /\ faults' = faults
  BY DEF Exit, DecodePanics, Eof, ReplyFails, End, clients
<1>2. <<>> \in Seq(Byte)
  BY EmptySeq
<1>3. /\ task'[c] = "ended"
      /\ \A d \in Connection \ {c} : /\ task'[d] = task[d] /\ buf'[d] = buf[d]
                                     /\ command'[d] = command[d] /\ output'[d] = output[d]
  BY <1>1 DEF DInv, FlowTypes, CInv, ControlOK
<1>4. /\ buf' \in [Connection -> Seq(Byte)] /\ command' \in [Connection -> Seq(Byte)]
      /\ output' \in [Connection -> {"none", "ok", "error"}]
  BY <1>1, <1>2 DEF DInv, FlowTypes
<1>5. FlowTypes' /\ Apart(c)
  BY <1>1, <1>3, <1>4 DEF DInv, FlowTypes, Apart
<1>6. QED
  BY <1>3, <1>5, EndedKeeps

(* A task that ends with the notice.                                       *)
LEMMA NoticeKeeps ==
    ASSUME DInv, NEW c \in Connection, SendNotice(c)
    PROVE  Keeping(c)
<1>1. /\ task' = [task EXCEPT ![c] = "ended"] /\ buf' = [buf EXCEPT ![c] = <<>>]
      /\ command' = command /\ output' = output
      /\ peer' = peer /\ wire' = wire /\ asked' = asked
      /\ taken' = taken /\ faults' = faults
      /\ \/ Deliver(c, Notice)
         \/ inbox' = inbox /\ answers' = answers
  BY DEF SendNotice, End, clients
<1>2. <<>> \in Seq(Byte)
  BY EmptySeq
<1>3. Notice \in Seq(Byte) \X {"ok", "error", "notice"}
  BY <1>2 DEF Notice
<1>4. /\ task'[c] = "ended"
      /\ \A d \in Connection \ {c} : task'[d] = task[d] /\ buf'[d] = buf[d]
  BY <1>1 DEF DInv, FlowTypes, CInv, ControlOK
<1>5. /\ inbox' \in [Connection -> Replies] /\ answers' \in [Connection -> Replies]
      /\ \A d \in Connection \ {c} : answers'[d] = answers[d]
  <2>1. FlowTypes
    BY DEF DInv
  <2>2. CASE Deliver(c, Notice)
    BY <1>3, <2>1, <2>2, DeliverTypes
  <2>3. CASE inbox' = inbox /\ answers' = answers
    BY <2>1, <2>3 DEF FlowTypes
  <2>4. QED
    BY <1>1, <2>2, <2>3
<1>6. buf' \in [Connection -> Seq(Byte)]
  BY <1>1, <1>2 DEF DInv, FlowTypes
<1>7. FlowTypes' /\ Apart(c)
  BY <1>1, <1>4, <1>5, <1>6 DEF DInv, FlowTypes, Apart
<1>8. QED
  BY <1>4, <1>7, EndedKeeps

(* A stream that broke off moves nothing more.                             *)
LEMMA BreakKeeps ==
    ASSUME DInv, NEW c \in Connection, EofInside(c) \/ ReadFails(c)
    PROVE  Keeping(c)
<1>1. /\ task[c] = "read" /\ peer[c] \in {"finished", "gone"}
      /\ task' = [task EXCEPT ![c] = "notice"]
      /\ buf' = buf /\ command' = command /\ output' = output
      /\ peer' = peer /\ wire' = wire /\ inbox' = inbox /\ asked' = asked
      /\ taken' = taken /\ answers' = answers /\ faults' = faults
  BY DEF EofInside, ReadFails, AtEof, Reading, clients
<1>2. task'[c] = "notice" /\ \A d \in Connection \ {c} : task'[d] = task[d]
  BY <1>1 DEF DInv, CInv, ControlOK
<1>3. FlowTypes' /\ Apart(c)
  BY <1>1, <1>2 DEF DInv, FlowTypes, Apart
<1>4. StreamInv(c)'
  BY <1>1, StreamStays DEF DInv
<1>5. TurnInv(c)'
  BY <1>1, <1>2 DEF DInv, TurnInv
<1>6. QED
  BY <1>3, <1>4, <1>5 DEF Keeping

(* A command that is planned or run stays the one taken up last.           *)
LEMMA WorkKeeps ==
    ASSUME DInv, NEW c \in Connection,
           PlanFails(c) \/ Plan(c) \/ Execute(c) \/ ExecutePanics(c)
    PROVE  Keeping(c)
<1>1. /\ task[c] \in {"plan", "run"}
      /\ \/ task' = [task EXCEPT ![c] = "run"] /\ output' = output
         \/ /\ task' = [task EXCEPT ![c] = "reply"]
            /\ \E r \in {"ok", "error"} : output' = [output EXCEPT ![c] = r]
      /\ buf' = buf /\ command' = command
      /\ peer' = peer /\ wire' = wire /\ inbox' = inbox /\ asked' = asked
      /\ taken' = taken /\ answers' = answers /\ faults' = faults
  BY DEF PlanFails, Plan, Execute, ExecutePanics, Finished, clients
<1>2. /\ \/ task'[c] = "run"
         \/ task'[c] = "reply" /\ output'[c] \in {"ok", "error"}
      /\ \A d \in Connection \ {c} : task'[d] = task[d] /\ output'[d] = output[d]
      /\ output' \in [Connection -> {"none", "ok", "error"}]
  BY <1>1, ZenonT(40) DEF DInv, FlowTypes, CInv, ControlOK
<1>3. FlowTypes' /\ Apart(c)
  BY <1>1, <1>2 DEF DInv, FlowTypes, Apart
<1>4. StreamInv(c)'
  BY <1>1, StreamStays DEF DInv
<1>5. TurnInv(c)'
  BY <1>1, <1>2 DEF DInv, TurnInv
<1>6. QED
  BY <1>3, <1>4, <1>5 DEF Keeping

(* With the answer, as many commands are answered as were taken up.        *)
LEMMA ReplyKeeps ==
    ASSUME DInv, NEW c \in Connection, Reply(c)
    PROVE  Keeping(c)
<1> DEFINE answer == <<command[c], output[c]>>
<1>1. /\ task[c] = "reply" /\ Deliver(c, answer)
      /\ task' = [task EXCEPT ![c] = "read"]
      /\ command' = [command EXCEPT ![c] = <<>>] /\ output' = [output EXCEPT ![c] = "none"]
      /\ buf' = buf /\ peer' = peer /\ wire' = wire /\ asked' = asked
      /\ taken' = taken /\ faults' = faults
  BY DEF Reply, clients
<1>2. <<>> \in Seq(Byte)
  BY EmptySeq
<1>3. answer \in Seq(Byte) \X {"ok", "error", "notice"}
  <2>1. command[c] \in Seq(Byte) /\ output[c] \in {"ok", "error"}
    BY <1>1 DEF DInv, FlowTypes, TurnInv
  <2>2. QED
    BY <2>1
<1> HIDE DEF answer
<1>4. /\ inbox' \in [Connection -> Replies] /\ answers' \in [Connection -> Replies]
      /\ Len(answers'[c]) = Len(answers[c]) + 1
      /\ \A d \in Connection \ {c} : answers'[d] = answers[d]
  BY <1>1, <1>3, DeliverTypes DEF DInv
<1>5. /\ task'[c] = "read"
      /\ \A d \in Connection \ {c} : /\ task'[d] = task[d]
                                     /\ command'[d] = command[d] /\ output'[d] = output[d]
  BY <1>1 DEF DInv, FlowTypes, CInv, ControlOK
<1>6. /\ command' \in [Connection -> Seq(Byte)]
      /\ output' \in [Connection -> {"none", "ok", "error"}]
  BY <1>1, <1>2 DEF DInv, FlowTypes
<1>7. FlowTypes' /\ Apart(c)
  BY <1>1, <1>4, <1>5, <1>6 DEF DInv, FlowTypes, Apart
<1>8. StreamInv(c)'
  BY <1>1, StreamStays DEF DInv
<1>9. TurnInv(c)'
  BY <1>1, <1>4, <1>5 DEF DInv, TurnInv
<1>10. QED
  BY <1>7, <1>8, <1>9 DEF Keeping

(* A connection that is accepted has taken up nothing.                     *)
LEMMA AcceptKeeps ==
    ASSUME DInv, Accept
    PROVE  \E c \in Connection : Keeping(c)
<1>1. /\ backlog # <<>> /\ task' = [task EXCEPT ![Head(backlog)] = "read"]
      /\ buf' = buf /\ command' = command /\ output' = output
      /\ peer' = peer /\ wire' = wire /\ inbox' = inbox /\ asked' = asked
      /\ taken' = taken /\ answers' = answers /\ faults' = faults
  BY DEF Accept, clients
<1>2. PICK c \in Connection : task[c] = "none" /\ task' = [task EXCEPT ![c] = "read"]
  <2>1. backlog \in Seq(Connection)
    BY DEF DInv, CInv, BacklogInv
  <2>2. /\ Head(backlog) \in Connection /\ 1 \in 1..Len(backlog)
        /\ Head(backlog) = backlog[1]
    BY <1>1, <2>1, HeadTailProperties, EmptySeq
  <2>3. task[Head(backlog)] = "none"
    BY <2>2 DEF DInv, CInv, BacklogInv
  <2>4. QED
    BY <1>1, <2>2, <2>3
<1>3. task'[c] = "read" /\ \A d \in Connection \ {c} : task'[d] = task[d]
  BY <1>1, <1>2 DEF DInv, CInv, ControlOK
<1>4. FlowTypes' /\ Apart(c)
  BY <1>1, <1>3 DEF DInv, FlowTypes, Apart
<1>5. StreamInv(c)'
  BY <1>1, <1>2, StreamStays DEF DInv
<1>6. TurnInv(c)'
  BY <1>1, <1>2, <1>3 DEF DInv, TurnInv
<1>7. QED
  BY <1>2, <1>4, <1>5, <1>6 DEF Keeping

(* What happens to no connection. *)
LEMMA AsideKeeps ==
    ASSUME DInv, CInv', UNCHANGED <<tasks, clients, inbox, taken, answers>>,
           faults' \in 0..MaxFaults
    PROVE  DInv'
<1>1. /\ task' = task /\ buf' = buf /\ command' = command /\ output' = output
      /\ peer' = peer /\ wire' = wire /\ inbox' = inbox /\ asked' = asked
      /\ taken' = taken /\ answers' = answers
  BY DEF tasks, clients
<1>2. FlowTypes'
  BY <1>1 DEF DInv, FlowTypes
<1>3. \A c \in Connection : StreamInv(c)' /\ TurnInv(c)'
  BY <1>1 DEF DInv, StreamInv, TurnInv
<1>4. QED
  BY <1>2, <1>3 DEF DInv

(* The invariant holds at the start, and every step preserves it.          *)
LEMMA DialogueInit == Init => DInv
<1> SUFFICES ASSUME Init PROVE DInv
  OBVIOUS
<1> DEFINE e == <<>>
<1>1. /\ e \in Seq(Byte) /\ e \in Seq(Body) /\ e \in Replies /\ Len(e) = 0
      /\ Bytes(e) = e
  BY EmptySeq, CommandsEmpty DEF Replies
<1>2. /\ task = [c \in Connection |-> "none"] /\ buf = [c \in Connection |-> e]
      /\ command = [c \in Connection |-> e] /\ output = [c \in Connection |-> "none"]
      /\ wire = [c \in Connection |-> e] /\ inbox = [c \in Connection |-> e]
      /\ asked = [c \in Connection |-> e] /\ taken = [c \in Connection |-> e]
      /\ answers = [c \in Connection |-> e] /\ faults = 0
  BY DEF Init
<1>3. Flows(e, e, e, <<>>, <<>>)
  <2>1. e = <<>>
    OBVIOUS
  <2> HIDE DEF e
  <2>2. Cat(e, e) = e
    BY <1>1, <2>1, CatEmpty
  <2>3. QED
    BY <1>1, <2>1, <2>2 DEF Flows
<1>4. Cat(e, e) = e
  BY <1>1, CatEmpty
<1> HIDE DEF e
<1>5. FlowTypes
  BY <1>1, <1>2, ServerAssumption DEF FlowTypes
<1>6. \A c \in Connection : StreamInv(c)
  BY <1>2, <1>3, <1>4 DEF StreamInv
<1>7. \A c \in Connection : TurnInv(c)
  BY <1>1, <1>2 DEF TurnInv
<1>8. QED
  BY <1>5, <1>6, <1>7, InitInv DEF DInv

LEMMA DialogueNext == DInv /\ [Next]_vars => DInv'
<1> SUFFICES ASSUME DInv, [Next]_vars PROVE DInv'
  OBVIOUS
<1>0. CInv'
  BY NextInv DEF DInv
<1>1. CASE UNCHANGED vars
  BY <1>0, <1>1, AsideKeeps DEF vars, DInv, FlowTypes
<1>2. CASE Acquire \/ AcceptFails
  <2>1. faults' \in 0..MaxFaults
    BY <1>2, ServerAssumption DEF Acquire, AcceptFails, DInv, FlowTypes
  <2>2. QED
    BY <1>0, <1>2, <2>1, AsideKeeps DEF Acquire, AcceptFails
<1>3. CASE Accept
  BY <1>0, <1>3, AcceptKeeps, KeepingInv
<1>4. CASE \E c \in Connection : Task(c) \/ ReadFails(c)
  <2>1. PICK c \in Connection : Task(c) \/ ReadFails(c)
    BY <1>4
  <2>2. Keeping(c)
    BY <2>1, ReceiveKeeps, TakeKeeps, EndKeeps, NoticeKeeps, BreakKeeps, WorkKeeps,
       ReplyKeeps DEF Task, Polled, Blocking
  <2>3. QED
    BY <1>0, <2>2, KeepingInv
<1>5. CASE \E c \in Connection : Connect(c) \/ Ask(c) \/ Finish(c) \/ Leave(c) \/ ReadAnswer(c)
  <2>1. PICK c \in Connection :
           Connect(c) \/ Ask(c) \/ Finish(c) \/ Leave(c) \/ ReadAnswer(c)
    BY <1>5
  <2>2. Keeping(c)
    BY <2>1, ConnectKeeps, AskKeeps, FinishKeeps, LeaveKeeps, ReadAnswerKeeps
  <2>3. QED
    BY <1>0, <2>2, KeepingInv
<1>6. QED
  BY <1>1, <1>2, <1>3, <1>4, <1>5 DEF Next

(* In every state the stream holds what is still to be taken up. *)
THEOREM DialogueInvariance == Spec => []DInv
BY DialogueInit, DialogueNext, PTL DEF Spec

-----------------------------------------------------------------------------
(* Types *)

(* Every variable stays in its set, whatever is sent and however it is cut *)
(* (src/src/lib.rs:70-153).                                                *)
THEOREM ServerTypes == Spec => []TypeOK
<1>1. ASSUME DInv PROVE TypeOK
  <2>1. permits \in 0..MaxConnections
    BY <1>1, ServedFinite, ServerAssumption DEF DInv, CInv, PermitsConserved, ControlOK
  <2>2. load \in Nat
    BY <1>1, RunningFinite DEF DInv, CInv, LoadIsRunning
  <2>3. taken \in [Connection -> Seq(Seq(Byte))]
    <3>1. taken \in [Connection -> Seq(Body)] /\ \A b \in Body : b \in Seq(Byte)
      BY <1>1, ServerAssumption DEF DInv, FlowTypes
    <3>2. \A s \in Seq(Body) : s \in Seq(Seq(Byte))
      BY <3>1
    <3>3. QED
      BY <3>1, <3>2
  <2>4. QED
    BY <1>1, <2>1, <2>2, <2>3
       DEF TypeOK, DInv, CInv, ControlOK, BacklogInv, FlowTypes, Replies
<1>2. DInv => TypeOK
  BY <1>1
<1>3. QED
  BY <1>2, DialogueInvariance, PTL

-----------------------------------------------------------------------------
(* Every step is a step of the dialogue. *)

Listening == [c \in Connection |-> peer[c] \in {"away", "open"}]
HungUp == [c \in Connection |-> task[c] = "ended"]

(* The refinement: the initial states, and each kind of step.              *)
LEMMA PromisedInitial == Init => Promised!Init
BY DEF Init, Promised!Init

(* Only the end of a task hangs up.                                        *)
LEMMA NobodyHungUp ==
    ASSUME ControlOK, NEW c \in Connection, NEW w \in Where, task[c] # "ended", w # "ended",
           task' = [task EXCEPT ![c] = w]
    PROVE  HungUp' = HungUp
<1>1. \A d \in Connection : (task'[d] = "ended") = (task[d] = "ended")
  BY DEF ControlOK
<1>2. QED
  BY <1>1 DEF HungUp

LEMMA OneHungUp ==
    ASSUME ControlOK, NEW c \in Connection, task' = [task EXCEPT ![c] = "ended"]
    PROVE  HungUp' = [HungUp EXCEPT ![c] = TRUE]
<1>1. \A d \in Connection : (task'[d] = "ended") = IF d = c THEN TRUE ELSE task[d] = "ended"
  BY DEF ControlOK
<1>2. QED
  BY <1>1 DEF HungUp

(* What is decoded first is the next command of the client.                *)
LEMMA FrameIsNext ==
    ASSUME DInv, NEW c \in Connection, task[c] = "read", HasFrame(buf[c])
    PROVE  /\ Promised!Idle(c) /\ Promised!HasNext(c)
           /\ Promised!NextCommand(c) = FrameBody(buf[c])
<1> DEFINE b == FrameBody(buf[c])
<1>1. PICK more, last, lost :
         Flows(buf[c], wire[c], more, last, lost) /\ asked[c] = Cat(taken[c], more)
  BY DEF DInv, StreamInv
<1>2. PICK rest \in Seq(Body) : b \in Body /\ more = Cat(<<b>>, rest)
  BY <1>1, FlowFrame
<1> HIDE DEF b
<1>3. taken[c] \in Seq(Body) /\ Len(taken[c]) = Len(answers[c])
  BY DEF DInv, FlowTypes, TurnInv
<1> DEFINE now == Append(taken[c], b)
<1>4. now \in Seq(Body) /\ Len(now) = Len(taken[c]) + 1 /\ now[Len(taken[c]) + 1] = b
  BY <1>2, <1>3, AppendLast
<1>5. asked[c] = Cat(now, rest)
  BY <1>1, <1>2, <1>3, AppendBefore
<1> HIDE DEF now
<1>6. Len(asked[c]) = Len(now) + Len(rest) /\ asked[c][Len(now)] = now[Len(now)]
  <2>1. Len(now) \in 1..Len(now)
    BY <1>3, <1>4
  <2>2. QED
    <3>1. Len(Cat(now, rest)) = Len(now) + Len(rest)
      BY <1>2, <1>4, CatType
    <3>2. \A i \in 1..Len(now) : Cat(now, rest)[i] = now[i]
      BY <1>2, <1>4, CatType
    <3>3. Cat(now, rest)[Len(now)] = now[Len(now)]
      BY <2>1, <3>2
    <3>4. QED
      BY <1>5, <3>1, <3>3
<1>7. Len(taken[c]) < Len(asked[c]) /\ asked[c][Len(taken[c]) + 1] = b
  BY <1>2, <1>3, <1>4, <1>6
<1>8. HungUp[c] = FALSE
  BY DEF HungUp
<1>9. QED
  BY <1>3, <1>7, <1>8
     DEF Promised!Idle, Promised!HasNext, Promised!NextCommand, HungUp, b

(* A client that has finished or left is not listened to.                  *)
LEMMA NotListening ==
    ASSUME NEW c \in Connection, peer[c] \notin {"away", "open"}
    PROVE  Listening[c] = FALSE
<1>1. (peer[c] \in {"away", "open"}) = FALSE
  OBVIOUS
<1>2. Listening[c] = (peer[c] \in {"away", "open"})
  BY DEF Listening
<1>3. QED
  BY <1>1, <1>2

(* A command that is asked is one in the dialogue.                         *)
LEMMA AskMaps ==
    ASSUME DInv, NEW c \in Connection, Ask(c)
    PROVE  Promised!Next
<1>1. Promised!Ask(c)
  BY DEF Ask, Promised!Ask, tasks
<1>2. QED
  BY <1>1 DEF Promised!Next

(* A client that finishes or leaves asks no more; one that leaves after it *)
(* has finished changes nothing.                                           *)
LEMMA StopMaps ==
    ASSUME DInv, NEW c \in Connection, Finish(c) \/ Leave(c)
    PROVE  Promised!Next
<1>1. /\ \E w \in {"finished", "gone"} : peer' = [peer EXCEPT ![c] = w]
      /\ asked' = asked /\ taken' = taken /\ answers' = answers /\ task' = task
  BY DEF Finish, Leave, tasks
<1>2. Listening' = [Listening EXCEPT ![c] = FALSE]
  <2>1. \A d \in Connection : (peer'[d] \in {"away", "open"})
            = IF d = c THEN FALSE ELSE peer[d] \in {"away", "open"}
    <3>1. /\ peer'[c] # "away" /\ peer'[c] # "open"
          /\ \A d \in Connection \ {c} : peer'[d] = peer[d]
      BY <1>1 DEF DInv, CInv, ControlOK
    <3>2. (peer'[c] \in {"away", "open"}) = FALSE
      BY <3>1
    <3>3. QED
      BY <3>1, <3>2
  <2>2. QED
    BY <2>1 DEF Listening
<1>3. Promised!StopAsking(c)
  BY <1>1, <1>2 DEF Promised!StopAsking, Listening
<1>4. QED
  BY <1>3 DEF Promised!Next

(* A frame that is decoded is the next command, taken up.                  *)
LEMMA TakeMaps ==
    ASSUME DInv, NEW c \in Connection, Take(c)
    PROVE  Promised!Next
<1>1. /\ task[c] = "read" /\ HasFrame(buf[c]) /\ Meaning(FrameBody(buf[c])) # "exit"
      /\ task' = [task EXCEPT ![c] = "plan"]
      /\ taken' = [taken EXCEPT ![c] = Append(@, FrameBody(buf[c]))]
      /\ peer' = peer /\ asked' = asked /\ answers' = answers
  BY DEF Take, Reading, clients
<1>2. HungUp' = HungUp
  BY <1>1, NobodyHungUp DEF DInv, CInv, Where
<1>3. Listening' = Listening
  BY <1>1 DEF Listening
<1>4. /\ Promised!Idle(c) /\ Promised!HasNext(c)
      /\ Promised!NextCommand(c) = FrameBody(buf[c])
  BY <1>1, FrameIsNext
<1>5. Promised!Take(c)
  BY <1>1, <1>2, <1>3, <1>4 DEF Promised!Take, Listening, HungUp
<1>6. QED
  BY <1>5 DEF Promised!Next

(* An answer is the answer to the command taken up last.                   *)
LEMMA ReplyMaps ==
    ASSUME DInv, NEW c \in Connection, Reply(c)
    PROVE  Promised!Next
<1>1. /\ task[c] = "reply" /\ task' = [task EXCEPT ![c] = "read"]
      /\ answers' = [answers EXCEPT ![c] = Append(@, <<command[c], output[c]>>)]
      /\ peer' = peer /\ asked' = asked /\ taken' = taken
  BY DEF Reply, Deliver, clients
<1>2. HungUp' = HungUp
  BY <1>1, NobodyHungUp DEF DInv, CInv, Where
<1>3. Listening' = Listening
  BY <1>1 DEF Listening
<1>4. /\ Len(taken[c]) = Len(answers[c]) + 1 /\ command[c] = taken[c][Len(taken[c])]
      /\ output[c] \in {"ok", "error"}
  BY <1>1 DEF DInv, TurnInv
<1>5. HungUp[c] = FALSE
  BY <1>1 DEF HungUp
<1>6. Promised!Answer(c)
  BY <1>1, <1>2, <1>3, <1>4, <1>5 DEF Promised!Answer, Listening, HungUp
<1>7. QED
  BY <1>6 DEF Promised!Next

(* A task ends with its client's "exit", or because the client has         *)
(* finished or left: a size overflows only in a stream that is finished.   *)
LEMMA EndMaps ==
    ASSUME DInv, NEW c \in Connection, Exit(c) \/ DecodePanics(c) \/ Eof(c) \/ ReplyFails(c)
    PROVE  Promised!Next
<1>1. /\ task[c] \in {"read", "reply"} /\ task' = [task EXCEPT ![c] = "ended"]
      /\ peer' = peer /\ asked' = asked /\ taken' = taken /\ answers' = answers
  BY DEF Exit, DecodePanics, Eof, ReplyFails, AtEof, Reading, End, clients
<1>2. HungUp' = [HungUp EXCEPT ![c] = TRUE]
  BY <1>1, OneHungUp DEF DInv, CInv
<1>3. Listening' = Listening
  BY <1>1 DEF Listening
<1>4. HungUp[c] = FALSE
  BY <1>1 DEF HungUp
<1>5. \/ Listening[c] = FALSE
      \/ /\ Promised!Idle(c) /\ Promised!HasNext(c)
         /\ Meaning(Promised!NextCommand(c)) = "exit"
  <2>1. CASE Exit(c)
    <3>1. task[c] = "read" /\ HasFrame(buf[c]) /\ Meaning(FrameBody(buf[c])) = "exit"
      BY <2>1 DEF Exit, Reading
    <3>2. /\ Promised!Idle(c) /\ Promised!HasNext(c)
          /\ Promised!NextCommand(c) = FrameBody(buf[c])
      BY <3>1, FrameIsNext
    <3>3. QED
      BY <3>1, <3>2
  <2>2. CASE DecodePanics(c)
    <3>1. task[c] = "read" /\ Overflows(buf[c])
      BY <2>2 DEF DecodePanics, Reading
    <3>2. PICK more, last, lost :
             /\ Flows(buf[c], wire[c], more, last, lost)
             /\ peer[c] \in {"away", "open"} => last = <<>>
      BY <3>1 DEF DInv, StreamInv
    <3>3. peer[c] \notin {"away", "open"}
      BY <3>1, <3>2, FlowFits
    <3>4. QED
      BY <3>3, NotListening
  <2>3. CASE Eof(c) \/ ReplyFails(c)
    <3>1. peer[c] \notin {"away", "open"}
      BY <2>3 DEF Eof, ReplyFails, AtEof
    <3>2. QED
      BY <3>1, NotListening
  <2>4. QED
    BY <2>1, <2>2, <2>3
<1>6. Promised!HangUp(c)
  BY <1>1, <1>2, <1>3, <1>4, <1>5 DEF Promised!HangUp, Listening, HungUp
<1>7. QED
  BY <1>6 DEF Promised!Next

(* A stream that broke off may get the notice before it is closed.         *)
LEMMA NoticeMaps ==
    ASSUME DInv, NEW c \in Connection, SendNotice(c)
    PROVE  Promised!Next
<1>1. /\ task[c] = "notice" /\ task' = [task EXCEPT ![c] = "ended"]
      /\ peer' = peer /\ asked' = asked /\ taken' = taken
      /\ answers' = answers \/ answers' = [answers EXCEPT ![c] = Append(@, Notice)]
  BY DEF SendNotice, Deliver, End, clients
<1>2. HungUp' = [HungUp EXCEPT ![c] = TRUE]
  BY <1>1, OneHungUp DEF DInv, CInv
<1>3. Listening' = Listening
  BY <1>1 DEF Listening
<1>4. HungUp[c] = FALSE
  BY <1>1 DEF HungUp
<1>5. Len(taken[c]) = Len(answers[c]) /\ peer[c] \in {"finished", "gone"}
  BY <1>1 DEF DInv, TurnInv
<1>6. Listening[c] = FALSE
  <2>1. peer[c] \notin {"away", "open"}
    BY <1>5
  <2>2. QED
    BY <2>1, NotListening
<1>7. Promised!Idle(c)
  BY <1>4, <1>5 DEF Promised!Idle, HungUp
<1>8. Promised!HangUp(c)
  BY <1>1, <1>2, <1>3, <1>4, <1>6, <1>7 DEF Promised!HangUp, Listening, HungUp
<1>9. QED
  BY <1>8 DEF Promised!Next

(* The other steps are invisible to the clients of the dialogue.           *)
LEMMA HiddenMaps ==
    ASSUME DInv, NEW c \in Connection,
           Receive(c) \/ EofInside(c) \/ ReadFails(c) \/ PlanFails(c) \/ Plan(c)
             \/ Execute(c) \/ ExecutePanics(c) \/ Connect(c) \/ ReadAnswer(c)
    PROVE  UNCHANGED Promised!dialogueVars
<1>1. asked' = asked /\ taken' = taken /\ answers' = answers
  BY DEF Receive, EofInside, ReadFails, PlanFails, Plan, Execute, ExecutePanics, Connect,
         ReadAnswer, clients
<1>2. HungUp' = HungUp
  <2>1. \/ task' = task
        \/ /\ task[c] # "ended"
           /\ \E w \in {"notice", "reply", "run"} : task' = [task EXCEPT ![c] = w]
    BY DEF Receive, EofInside, ReadFails, PlanFails, Plan, Execute, ExecutePanics, Connect,
           ReadAnswer, AtEof, Reading, Finished, tasks
  <2>2. CASE task' = task
    BY <2>2 DEF HungUp
  <2>3. QED
    BY <2>1, <2>2, NobodyHungUp DEF DInv, CInv, Where
<1>3. Listening' = Listening
  <2>1. CASE peer' = peer
    BY <2>1 DEF Listening
  <2>2. CASE Connect(c)
    <3>1. \A d \in Connection :
             (peer'[d] \in {"away", "open"}) = (peer[d] \in {"away", "open"})
      BY <2>2 DEF Connect, DInv, CInv, ControlOK
    <3>2. QED
      BY <3>1 DEF Listening
  <2>3. QED
    BY <2>1, <2>2 DEF Receive, EofInside, ReadFails, PlanFails, Plan, Execute,
       ExecutePanics, ReadAnswer, clients
<1>4. QED
  BY <1>1, <1>2, <1>3 DEF Promised!dialogueVars, Listening, HungUp

(* Neither does a dialogue see that it is accepted.                        *)
LEMMA AcceptMaps ==
    ASSUME DInv, Accept
    PROVE  UNCHANGED Promised!dialogueVars
<1>1. /\ peer' = peer /\ asked' = asked /\ taken' = taken /\ answers' = answers
      /\ task' = [task EXCEPT ![Head(backlog)] = "read"] /\ backlog # <<>>
  BY DEF Accept, clients
<1>2. Head(backlog) \in Connection /\ task[Head(backlog)] = "none"
  <2>1. backlog \in Seq(Connection)
    BY DEF DInv, CInv, BacklogInv
  <2>2. /\ Head(backlog) \in Connection /\ 1 \in 1..Len(backlog)
        /\ Head(backlog) = backlog[1]
    BY <1>1, <2>1, HeadTailProperties, EmptySeq
  <2>3. QED
    BY <2>2 DEF DInv, CInv, BacklogInv
<1>3. HungUp' = HungUp
  BY <1>1, <1>2, NobodyHungUp DEF DInv, CInv, Where
<1>4. Listening' = Listening
  BY <1>1 DEF Listening
<1>5. QED
  BY <1>1, <1>3, <1>4 DEF Promised!dialogueVars, Listening, HungUp

(* And what touches no connection.                                         *)
LEMMA StillMaps ==
    ASSUME UNCHANGED <<tasks, clients, taken, answers>>
    PROVE  UNCHANGED Promised!dialogueVars
BY DEF tasks, clients, Promised!dialogueVars

(* Whatever the cuts of the stream, every connection is a dialogue: the    *)
(* commands are taken up as they were asked, one after the other, each is  *)
(* answered before the next, and nobody who stays is hung up on            *)
(* (handle_connection, src/src/lib.rs:91; decode, src/src/                 *)
(* tcp_io_parser.rs).                                                      *)
THEOREM StreamsAreDialogues == Spec => ImplementsDialogue
<1>1. DInv /\ [Next]_vars => [Promised!Next]_(Promised!dialogueVars)
  <2> SUFFICES ASSUME DInv, [Next]_vars
               PROVE  Promised!Next \/ UNCHANGED Promised!dialogueVars
    OBVIOUS
  <2>1. CASE UNCHANGED vars
    BY <2>1, StillMaps DEF vars
  <2>2. CASE Acquire \/ AcceptFails
    BY <2>2, StillMaps DEF Acquire, AcceptFails
  <2>3. CASE Accept
    BY <2>3, AcceptMaps
  <2>4. CASE \E c \in Connection : Task(c) \/ ReadFails(c)
    BY <2>4, TakeMaps, EndMaps, NoticeMaps, ReplyMaps, HiddenMaps DEF Task, Polled, Blocking
  <2>5. CASE \E c \in Connection :
                Connect(c) \/ Ask(c) \/ Finish(c) \/ Leave(c) \/ ReadAnswer(c)
    BY <2>5, AskMaps, StopMaps, HiddenMaps
  <2>6. QED
    BY <2>1, <2>2, <2>3, <2>4, <2>5 DEF Next
<1>2. QED
  BY <1>1, PromisedInitial, DialogueInvariance, PTL
     DEF Spec, ImplementsDialogue, Promised!Spec
=============================================================================
