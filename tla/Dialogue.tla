------------------------------ MODULE Dialogue ------------------------------
(***************************************************************************)
(* What a connection promises its client.  Commands are taken up in the    *)
(* order in which they were asked, each at most once and one at a time;    *)
(* every answer is the answer to the command taken up last; and the server *)
(* hangs up only on a client that said "exit", finished or left.  Bytes,   *)
(* frames, permits and threads do not exist here.                          *)
(***************************************************************************)
EXTENDS Naturals, Sequences

CONSTANTS
    Connection,
    Command,         \* what a client may ask
    IsExit(_),       \* the command that only asks the server to hang up
    Result,          \* what a command may be answered with
    Notice           \* the answer to a stream that ends inside a command

VARIABLES
    asked,       \* commands of each client
    taken,       \* commands taken up
    answers,     \* answers sent: pairs of a command and its result
    listening,   \* the client may still ask
    hungUp

dialogueVars == <<asked, taken, answers, listening, hungUp>>

Init ==
    /\ asked = [c \in Connection |-> <<>>]
    /\ taken = [c \in Connection |-> <<>>]
    /\ answers = [c \in Connection |-> <<>>]
    /\ listening = [c \in Connection |-> TRUE]
    /\ hungUp = [c \in Connection |-> FALSE]

Ask(c) ==
    /\ listening[c]
    /\ \E b \in Command : asked' = [asked EXCEPT ![c] = Append(@, b)]
    /\ UNCHANGED <<taken, answers, listening, hungUp>>

StopAsking(c) ==
    /\ listening' = [listening EXCEPT ![c] = FALSE]
    /\ UNCHANGED <<asked, taken, answers, hungUp>>

Idle(c) == ~hungUp[c] /\ Len(taken[c]) = Len(answers[c])
HasNext(c) == Len(taken[c]) < Len(asked[c])
NextCommand(c) == asked[c][Len(taken[c]) + 1]

Take(c) ==
    /\ Idle(c) /\ HasNext(c) /\ ~IsExit(NextCommand(c))
    /\ taken' = [taken EXCEPT ![c] = Append(@, NextCommand(c))]
    /\ UNCHANGED <<asked, answers, listening, hungUp>>

Answer(c) ==
    /\ ~hungUp[c] /\ Len(taken[c]) = Len(answers[c]) + 1
    /\ \E r \in Result :
          answers' = [answers EXCEPT ![c] =
                        Append(@, <<taken[c][Len(taken[c])], r>>)]
    /\ UNCHANGED <<asked, taken, listening, hungUp>>

(* The server hangs up, a stream that was cut perhaps with a last notice;  *)
(* a command whose answer cannot be delivered stays without one.           *)
HangUp(c) ==
    /\ ~hungUp[c]
    /\ \/ ~listening[c]
       \/ Idle(c) /\ HasNext(c) /\ IsExit(NextCommand(c))
    /\ hungUp' = [hungUp EXCEPT ![c] = TRUE]
    /\ \/ UNCHANGED answers
       \/ /\ Idle(c) /\ ~listening[c]
          /\ answers' = [answers EXCEPT ![c] = Append(@, Notice)]
    /\ UNCHANGED <<asked, taken, listening>>

Next == \E c \in Connection : \/ Ask(c) \/ StopAsking(c) \/ Take(c)
                              \/ Answer(c) \/ HangUp(c)

Spec == Init /\ [][Next]_dialogueVars
=============================================================================
