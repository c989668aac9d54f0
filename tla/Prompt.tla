------------------------------- MODULE Prompt -------------------------------
(***************************************************************************)
(* The prompt of intHandler() in src/src/main.c: on SIGINT it asks whether *)
(* to quit and reads the answer from the terminal, one character for the   *)
(* answer and one for the end of the line.                                 *)
(*                                                                         *)
(* SIGINT goes to any thread that does not block it.  signal() blocks it   *)
(* in the thread that handles it, and nowhere else: once the handler is    *)
(* installed again, or before it is taken out, another thread may enter it *)
(* too.  A SIGINT that finds SIG_IGN is lost; one that finds every thread  *)
(* blocking it is no different from one that comes later.                  *)
(*                                                                         *)
(* cliInit() (src/src/cli/cli.c) forks a child for each connection, with   *)
(* one thread, which inherits the handler, or SIG_IGN, and the buffer of   *)
(* the standard input.  It is interrupted from the same terminal and       *)
(* prompts there like the program.                                         *)
(*                                                                         *)
(* The terminal delivers whole lines, and the user types one when a        *)
(* process waits for it; which of them gets it nobody knows.  What the     *)
(* program does between two interrupts, and the teardown before it exits,  *)
(* are in DeviceTable, the children's sessions in Cli.                     *)
(***************************************************************************)
EXTENDS Sequences, Naturals

CONSTANTS
    Program,    \* the process that main() runs in
    Threads,    \* its threads that do not block SIGINT
    cliThread,  \* the one of them that runs cliInit()
    Children,   \* the processes cliInit() forks
    Answers,    \* the lines the user types, each a sequence of characters
    Newline     \* the character that ends a line

ASSUME TasksAssumption ==
    /\ Program \notin Children
    /\ cliThread \in Threads
    /\ Threads \cap Children = {}

\* Characters are strings, but for the end of the line.
ASSUME AnswersAssumption ==
    \A a \in Answers : a \in Seq(STRING \cup {Newline}) /\ a # <<>> /\ a[Len(a)] = Newline

Processes == {Program} \cup Children

\* A child has one thread, named like it.
Tasks == Threads \cup Children
Of(t) == IF t \in Threads THEN Program ELSE t
TasksOf(p) == {t \in Tasks : Of(t) = p}

VARIABLES
    life,         \* of each process: "unborn", "running", "over"
    disposition,  \* what SIGINT does to each: "handler", "ignored", or "inherited": ignored
                  \* since before it was forked
    pc,           \* of each thread: "away" from the handler, or its position in it
    input,        \* typed and not yet read, in the buffer of each process
    reply,        \* the line each got since its last prompt, <<>> if none
    orderly,      \* so far each had one thread at a time in the handler, answers of one
                  \* letter, and nothing left over from the process it was forked from
    closed        \* no more input will come: getchar() returns EOF

vars == <<life, disposition, pc, input, reply, orderly, closed>>

Positions == {"away", "entered", "answer", "rearm", "newline", "quit"}

Init ==
    /\ life = [p \in Processes |-> IF p = Program THEN "running" ELSE "unborn"]
    /\ disposition = [p \in Processes |-> "handler"]
    /\ pc = [t \in Tasks |-> "away"]
    /\ input = [p \in Processes |-> <<>>]
    /\ reply = [p \in Processes |-> <<>>]
    /\ orderly = [p \in Processes |-> TRUE]
    /\ closed = FALSE

Go(t, from, to) ==
    life[Of(t)] = "running" /\ pc[t] = from /\ pc' = [pc EXCEPT ![t] = to]

-----------------------------------------------------------------------------
(* The terminal and the user. *)

OneLetter(answer) == Len(answer) = 2 /\ answer[1] # Newline

Type(p) ==
    /\ life[p] = "running" /\ ~closed /\ input[p] = <<>>
    /\ \E t \in TasksOf(p) : pc[t] \in {"answer", "newline"}
    /\ \E a \in Answers :
        /\ input' = [input EXCEPT ![p] = a] /\ reply' = [reply EXCEPT ![p] = a]
        /\ orderly' = [orderly EXCEPT ![p] =
            @ /\ OneLetter(a) /\ \A t \in TasksOf(p) : pc[t] # "newline"]
    /\ UNCHANGED <<life, disposition, pc, closed>>

CloseInput ==
    /\ ~closed /\ closed' = TRUE
    /\ UNCHANGED <<life, disposition, pc, input, reply, orderly>>

\* getchar() waits for a character or the end of the input, which it reports every time.
Readable(p) == input[p] # <<>> \/ closed
Read(p) ==
    /\ Readable(p)
    /\ input' = [input EXCEPT ![p] = IF @ = <<>> THEN <<>> ELSE Tail(@)]

-----------------------------------------------------------------------------
(* Processes. *)

\* fork(): the child has the disposition and the buffer its parent has at this moment.
Fork(c) ==
    /\ life[Program] = "running" /\ pc[cliThread] = "away" /\ life[c] = "unborn"
    /\ life' = [life EXCEPT ![c] = "running"]
    /\ disposition' = [disposition EXCEPT ![c] =
        IF disposition[Program] = "handler" THEN "handler" ELSE "inherited"]
    /\ input' = [input EXCEPT ![c] = input[Program]]
    /\ orderly' = [orderly EXCEPT ![c] = orderly[Program] /\ input[Program] = <<>>]
    /\ UNCHANGED <<pc, reply, closed>>

\* main() returns, or the session of a child ends.
End(p) ==
    /\ life[p] = "running"
    /\ \E t \in TasksOf(p) : pc[t] = "away"
    /\ life' = [life EXCEPT ![p] = "over"]
    /\ UNCHANGED <<disposition, pc, input, reply, orderly, closed>>

-----------------------------------------------------------------------------
(* The handler. *)

Interrupt(t) ==
    /\ disposition[Of(t)] = "handler"
    /\ Go(t, "away", "entered")
    /\ orderly' = [orderly EXCEPT ![Of(t)] = @ /\ \A u \in TasksOf(Of(t)) : pc[u] = "away"]
    /\ UNCHANGED <<life, disposition, input, reply, closed>>

\* SIG_IGN, and the prompt.
Ignore(t) ==
    /\ Go(t, "entered", "answer")
    /\ disposition' = [disposition EXCEPT ![Of(t)] = "ignored"]
    /\ reply' = [reply EXCEPT ![Of(t)] = <<>>]
    /\ UNCHANGED <<life, input, orderly, closed>>

Confirms_Lower(c) == c = "y"
Confirms(c) == c \in {"y", "Y"}
Confirmed(p) == input[p] # <<>> /\ Confirms(input[p][1])

Answer_WholeLine(t) ==
    /\ Go(t, "answer", IF Confirmed(Of(t)) THEN "quit" ELSE "rearm")
    /\ Readable(Of(t)) /\ input' = [input EXCEPT ![Of(t)] = <<>>]
    /\ UNCHANGED <<life, disposition, reply, orderly, closed>>
Answer(t) ==
    /\ Go(t, "answer", IF Confirmed(Of(t)) THEN "quit" ELSE "rearm")
    /\ Read(Of(t))
    /\ UNCHANGED <<life, disposition, reply, orderly, closed>>

Rearm_Default(t) ==
    /\ Go(t, "rearm", "newline")
    /\ disposition' = [disposition EXCEPT ![Of(t)] = "default"]
    /\ UNCHANGED <<life, input, reply, orderly, closed>>
Rearm_Forgotten(t) ==
    /\ Go(t, "rearm", "newline")
    /\ UNCHANGED <<life, disposition, input, reply, orderly, closed>>
Rearm(t) ==
    /\ Go(t, "rearm", "newline")
    /\ disposition' = [disposition EXCEPT ![Of(t)] = "handler"]
    /\ UNCHANGED <<life, input, reply, orderly, closed>>

GetNewline(t) ==
    /\ Go(t, "newline", "away")
    /\ Read(Of(t))
    /\ UNCHANGED <<life, disposition, reply, orderly, closed>>

Exit(t) ==
    /\ life[Of(t)] = "running" /\ pc[t] = "quit"
    /\ life' = [life EXCEPT ![Of(t)] = "over"]
    /\ UNCHANGED <<disposition, pc, input, reply, orderly, closed>>

Handle(t) == Ignore(t) \/ Answer(t) \/ Rearm(t) \/ GetNewline(t) \/ Exit(t)

Next ==
    \/ CloseInput
    \/ \E p \in Processes : Type(p) \/ End(p)
    \/ \E c \in Children : Fork(c)
    \/ \E t \in Tasks : Interrupt(t) \/ Handle(t)

Spec == Init /\ [][Next]_vars

\* A thread in the handler goes on unless it waits for input.  Nobody has to interrupt a
\* process, or to answer it.
FairSpec == Spec /\ \A t \in Tasks : WF_vars(Handle(t))

-----------------------------------------------------------------------------
(* Properties. *)

TypeOK ==
    /\ life \in [Processes -> {"unborn", "running", "over"}]
    /\ disposition \in [Processes -> {"handler", "ignored", "inherited"}]
    /\ pc \in [Tasks -> Positions]
    /\ input \in [Processes -> Seq(STRING \cup {Newline})]
    /\ reply \in [Processes -> Answers \cup {<<>>}]
    /\ orderly \in [Processes -> BOOLEAN]
    /\ closed \in BOOLEAN

\* A process ignores SIGINT only while one of its threads has a question open or is about to
\* quit, however many are in the handler: no order of main.c:27 and 44 leaves it ignored for
\* good.  The one exception is a child forked while the program's question was open: it has
\* SIG_IGN from its parent, and a child that has the handler never gets there.
NeverDeaf ==
    \A p \in Processes :
        /\ disposition[p] = "ignored" =>
            \E t \in TasksOf(p) : pc[t] \in {"answer", "rearm", "quit"}
        /\ disposition[p] = "inherited" => p # Program /\ \A t \in TasksOf(p) : pc[t] = "away"

Agreed(p) == reply[p] # <<>> /\ reply[p][1] \in {"y", "Y"}

\* main.c:28 "Do you really want to quit? [y/n]": a process quits on a yes to its own prompt,
\* never on a character left over from an earlier answer, or on the answer to another...
QuitIsConfirmed(t) == pc[t] = "quit" => Agreed(Of(t))

\* ... and a yes is never taken for a no, or for the end of another line (main.c:45).
YesIsHeard(t) == pc[t] \in {"rearm", "newline"} => ~Agreed(Of(t))

ReplyDecides == \A t \in Tasks : orderly[Of(t)] => QuitIsConfirmed(t) /\ YesIsHeard(t)

\* A line typed at the prompt, or the end of the input, lets the process go on or end: the
\* handler does not wait for a second line.
ReplyEndsPrompt ==
    \A t \in Tasks :
        (orderly[Of(t)] /\ pc[t] = "answer" /\ Readable(Of(t)))
            ~> (life[Of(t)] = "over" \/ ~orderly[Of(t)] \/ pc[t] = "away")

\* main.c:28 again, for any answers and any number of threads.
QuitIsAlwaysConfirmed == \A t \in Tasks : QuitIsConfirmed(t)
=============================================================================
