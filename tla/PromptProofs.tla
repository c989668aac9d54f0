---------------------------- MODULE PromptProofs ----------------------------
(***************************************************************************)
(* Proofs, for any number of threads and children and any answers, of the  *)
(* properties of Prompt.  As long as one thread of a process handles one   *)
(* interrupt at a time and each answer has one letter, what is left of the *)
(* input of the process follows from the position of that thread.          *)
(***************************************************************************)
EXTENDS Prompt, SequenceTheorems, TLAPS

\* One thread in the handler, and between two prompts nothing left to read.
AloneInv(p) ==
    /\ \A t, u \in TasksOf(p) : pc[t] # "away" /\ pc[u] # "away" => t = u
    /\ (\A t \in TasksOf(p) : pc[t] \in {"away", "entered"}) => input[p] = <<>>

\* At the first getchar() the whole reply is there or none of it, ...
AtAnswer(p) ==
    \/ input[p] = <<>> /\ reply[p] = <<>>
    \/ input[p] = reply[p] /\ reply[p] \in Answers /\ OneLetter(reply[p])

\* ... at the second only its newline.
AtNewline(p) ==
    \/ input[p] = <<>> /\ reply[p] = <<>> /\ closed
    \/ Len(input[p]) = 1 /\ input[p][1] = Newline /\ ~Agreed(p)

PositionInv(p, t) ==
    /\ pc[t] = "answer" => AtAnswer(p)
    /\ pc[t] \in {"rearm", "newline"} => AtNewline(p)
    /\ pc[t] = "quit" => Agreed(p)

ProcessInv(p) == AloneInv(p) /\ \A t \in TasksOf(p) : PositionInv(p, t)
OrderlyInv == \A p \in Processes : orderly[p] => ProcessInv(p)

\* Nobody has interrupted a child that was not forked yet.
UnbornInv == \A c \in Children : life[c] = "unborn" => pc[c] = "away"

IInv == TypeOK /\ UnbornInv /\ NeverDeaf /\ OrderlyInv

-----------------------------------------------------------------------------
(* Tasks, lines and reading. *)

LEMMA TasksOfProcesses ==
  /\ \A t \in Tasks : Of(t) \in Processes /\ t \in TasksOf(Of(t))
  /\ \A p \in Processes : \A t \in TasksOf(p) : t \in Tasks /\ Of(t) = p
  /\ \A c \in Children : c \in Processes /\ c # Program /\ TasksOf(c) = {c}
  /\ Program \in Processes /\ cliThread \in TasksOf(Program)
BY TasksAssumption DEF Tasks, Of, TasksOf, Processes

LEMMA TypedIsText ==
  ASSUME NEW a \in Answers
  PROVE  a \in Seq(STRING \cup {Newline}) /\ a # <<>> /\ a[Len(a)] = Newline
BY AnswersAssumption

LEMMA ReadKeepsText ==
  ASSUME TypeOK, NEW p \in Processes, Read(p)
  PROVE  input' \in [Processes -> Seq(STRING \cup {Newline})]
<1>1. input[p] # <<>> => Tail(input[p]) \in Seq(STRING \cup {Newline})
  BY HeadTailProperties DEF TypeOK
<1>. QED  BY <1>1, EmptySeq DEF TypeOK, Read

\* Reading the letter of a one-letter answer leaves its newline.
LEMMA ReadLetter ==
  ASSUME TypeOK, NEW p \in Processes, NEW a \in Answers, OneLetter(a), input[p] = a, Read(p)
  PROVE  Len(input'[p]) = 1 /\ input'[p][1] = Newline
<1>1. /\ a \in Seq(STRING \cup {Newline}) /\ a # <<>>
      /\ a[2] = Newline /\ Len(a) = 2
  BY TypedIsText DEF OneLetter
<1>2. input'[p] = Tail(a)
  BY <1>1 DEF Read, TypeOK
<1>3. Len(Tail(a)) = Len(a) - 1 /\ \A k \in 1 .. Len(Tail(a)) : Tail(a)[k] = a[k + 1]
  BY <1>1, HeadTailProperties
<1>4. Len(Tail(a)) = 1
  BY <1>1, <1>3
<1>5. Tail(a)[1] = a[1 + 1]
  BY <1>3, <1>4
<1>6. 1 + 1 = 2
  OBVIOUS
<1>7. Tail(a)[1] = Newline
  BY <1>1, <1>5, <1>6, Zenon
<1>. QED  BY <1>2, <1>4, <1>7, Zenon

\* Reading the newline leaves nothing.
LEMMA ReadLast ==
  ASSUME TypeOK, NEW p \in Processes, Len(input[p]) = 1, Read(p)
  PROVE  input'[p] = <<>>
<1>1. input[p] \in Seq(STRING \cup {Newline}) /\ input[p] # <<>>
  <2>1. Len(<<>>) = 0
    BY EmptySeq
  <2>2. 0 # 1
    OBVIOUS
  <2>3. input[p] # <<>>
    BY <2>1, <2>2, Zenon
  <2>. QED  BY <2>3 DEF TypeOK
<1>2. /\ Tail(input[p]) \in Seq(STRING \cup {Newline})
      /\ Len(Tail(input[p])) = Len(input[p]) - 1
  BY <1>1, HeadTailProperties
<1>3. Len(Tail(input[p])) \notin Nat \ {0}
  BY <1>2
<1>4. Tail(input[p]) = <<>>
  BY <1>2, <1>3, EmptySeq
<1>. QED  BY <1>1, <1>4 DEF Read, TypeOK

-----------------------------------------------------------------------------
(* Types, children not forked yet, and the disposition of SIGINT. *)

LEMMA InitIInv == Init => IInv
<1>. SUFFICES ASSUME Init  PROVE IInv
  OBVIOUS
<1>1. TypeOK
  BY EmptySeq DEF Init, TypeOK, Positions
<1>2. UnbornInv /\ NeverDeaf
  BY TasksOfProcesses DEF Init, UnbornInv, NeverDeaf, Tasks
<1>3. OrderlyInv
  BY TasksOfProcesses DEF Init, OrderlyInv, ProcessInv, AloneInv, PositionInv
<1>. QED  BY <1>1, <1>2, <1>3 DEF IInv

LEMMA NextTypeOK == TypeOK /\ [Next]_vars => TypeOK'
<1>. SUFFICES ASSUME TypeOK, [Next]_vars  PROVE TypeOK'
  OBVIOUS
<1>1. ASSUME NEW p \in Processes, Type(p)  PROVE TypeOK'
  BY <1>1, TypedIsText DEF Type, TypeOK
<1>2. CASE CloseInput
  BY <1>2 DEF CloseInput, TypeOK
<1>3. ASSUME NEW t \in Tasks, Interrupt(t)  PROVE TypeOK'
  BY <1>3, TasksOfProcesses DEF Interrupt, Go, TypeOK, Positions
<1>4. ASSUME NEW t \in Tasks, Ignore(t)  PROVE TypeOK'
  BY <1>4, TasksOfProcesses DEF Ignore, Go, TypeOK, Positions
<1>5. ASSUME NEW t \in Tasks, Answer(t)  PROVE TypeOK'
  <2>1. input' \in [Processes -> Seq(STRING \cup {Newline})]
    BY <1>5, ReadKeepsText, TasksOfProcesses DEF Answer
  <2>. QED  BY <1>5, <2>1 DEF Answer, Go, TypeOK, Positions
<1>6. ASSUME NEW t \in Tasks, Rearm(t)  PROVE TypeOK'
  BY <1>6, TasksOfProcesses DEF Rearm, Go, TypeOK, Positions
<1>7. ASSUME NEW t \in Tasks, GetNewline(t)  PROVE TypeOK'
  <2>1. input' \in [Processes -> Seq(STRING \cup {Newline})]
    BY <1>7, ReadKeepsText, TasksOfProcesses DEF GetNewline
  <2>. QED  BY <1>7, <2>1 DEF GetNewline, Go, TypeOK, Positions
<1>8. ASSUME NEW t \in Tasks, Exit(t)  PROVE TypeOK'
  BY <1>8, TasksOfProcesses DEF Exit, TypeOK
<1>9. ASSUME NEW p \in Processes, End(p)  PROVE TypeOK'
  BY <1>9 DEF End, TypeOK
<1>10. ASSUME NEW c \in Children, Fork(c)  PROVE TypeOK'
  BY <1>10, TasksOfProcesses DEF Fork, TypeOK
<1>11. CASE UNCHANGED vars
  BY <1>11 DEF vars, TypeOK
<1>. QED
  BY <1>1, <1>2, <1>3, <1>4, <1>5, <1>6, <1>7, <1>8, <1>9, <1>10, <1>11 DEF Next, Handle

LEMMA NextUnbornInv == TypeOK /\ UnbornInv /\ [Next]_vars => UnbornInv'
<1>. SUFFICES ASSUME TypeOK, UnbornInv, [Next]_vars, NEW c \in Children, life'[c] = "unborn"
              PROVE  pc'[c] = "away"
  BY DEF UnbornInv
<1>. USE DEF TypeOK
<1>1. c \in Tasks /\ Of(c) = c /\ c \in Processes
  BY TasksAssumption DEF Tasks, Of, Processes
<1>2. CASE CloseInput \/ UNCHANGED vars
  BY <1>1, <1>2 DEF CloseInput, vars, UnbornInv
<1>3. ASSUME NEW p \in Processes, Type(p) \/ End(p)  PROVE pc'[c] = "away"
  BY <1>1, <1>3 DEF Type, End, UnbornInv
<1>4. ASSUME NEW d \in Children, Fork(d)  PROVE pc'[c] = "away"
  BY <1>1, <1>4 DEF Fork, UnbornInv
<1>5. ASSUME NEW t \in Tasks, Interrupt(t) \/ Handle(t)  PROVE pc'[c] = "away"
  <2>1. CASE Exit(t)
    BY <1>1, <2>1, TasksOfProcesses DEF Exit, UnbornInv
  <2>2. CASE ~Exit(t)
    <3>1. life' = life /\ life[Of(t)] = "running" /\ \E to : pc' = [pc EXCEPT ![t] = to]
      BY <1>5, <2>2 DEF Interrupt, Handle, Ignore, Answer, Rearm, GetNewline, Go
    <3>. QED  BY <1>1, <3>1 DEF UnbornInv
  <2>. QED  BY <2>1, <2>2
<1>. QED  BY <1>2, <1>3, <1>4, <1>5 DEF Next

\* Whoever ignored SIGINT last has not yet armed it again.
LEMMA NextNeverDeaf == TypeOK /\ UnbornInv /\ NeverDeaf /\ [Next]_vars => NeverDeaf'
<1>. DEFINE Open(p) == \E t \in TasksOf(p) : pc[t] \in {"answer", "rearm", "quit"}
            Quiet(p) == p # Program /\ \A t \in TasksOf(p) : pc[t] = "away"
            Hears(p) == /\ disposition[p] = "ignored" => Open(p)
                        /\ disposition[p] = "inherited" => Quiet(p)
<1>. SUFFICES ASSUME TypeOK, UnbornInv, \A q \in Processes : Hears(q), [Next]_vars,
                     NEW p \in Processes
              PROVE  Hears(p)'
  BY DEF NeverDeaf
<1>1. ASSUME UNCHANGED <<disposition, pc>>  PROVE Hears(p)'
  BY <1>1
<1>2. ASSUME NEW t \in Tasks, NEW to \in Positions, pc' = [pc EXCEPT ![t] = to],
             Of(t) # p, disposition'[p] = disposition[p]
      PROVE  Hears(p)'
  <2>1. \A u \in TasksOf(p) : pc'[u] = pc[u]
    BY <1>2, TasksOfProcesses DEF TypeOK
  <2>. QED  BY <1>2, <2>1
<1>3. ASSUME NEW t \in Tasks, Interrupt(t)  PROVE Hears(p)'
  <2>1. CASE Of(t) = p
    BY <1>3, <2>1 DEF Interrupt
  <2>2. CASE Of(t) # p
    BY <1>2, <1>3, <2>2 DEF Interrupt, Go, Positions
  <2>. QED  BY <2>1, <2>2
<1>4. ASSUME NEW t \in Tasks, Ignore(t)  PROVE Hears(p)'
  <2>1. CASE Of(t) = p
    <3>1. disposition'[p] = "ignored" /\ t \in TasksOf(p) /\ pc'[t] = "answer"
      BY <1>4, <2>1, TasksOfProcesses DEF Ignore, Go, TypeOK
    <3>. QED  BY <3>1
  <2>2. CASE Of(t) # p
    BY <1>2, <1>4, <2>2, TasksOfProcesses DEF Ignore, Go, TypeOK, Positions
  <2>. QED  BY <2>1, <2>2
<1>5. ASSUME NEW t \in Tasks, Answer(t)  PROVE Hears(p)'
  <2>1. CASE Of(t) = p
    <3>1. /\ disposition' = disposition /\ t \in TasksOf(p)
          /\ pc[t] = "answer" /\ pc'[t] \in {"quit", "rearm"}
      BY <1>5, <2>1, TasksOfProcesses DEF Answer, Go, TypeOK
    <3>. QED  BY <3>1
  <2>2. CASE Of(t) # p
    BY <1>2, <1>5, <2>2 DEF Answer, Go, Positions
  <2>. QED  BY <2>1, <2>2
<1>6. ASSUME NEW t \in Tasks, Rearm(t)  PROVE Hears(p)'
  <2>1. CASE Of(t) = p
    BY <1>6, <2>1, TasksOfProcesses DEF Rearm, TypeOK
  <2>2. CASE Of(t) # p
    BY <1>2, <1>6, <2>2, TasksOfProcesses DEF Rearm, Go, TypeOK, Positions
  <2>. QED  BY <2>1, <2>2
<1>7. ASSUME NEW t \in Tasks, GetNewline(t)  PROVE Hears(p)'
  <2>1. CASE Of(t) = p
    <3>1. disposition' = disposition /\ t \in TasksOf(p) /\ pc[t] = "newline"
      BY <1>7, <2>1, TasksOfProcesses DEF GetNewline, Go
    <3>2. \A u \in TasksOf(p) : u # t => pc'[u] = pc[u]
      BY <1>7, TasksOfProcesses DEF GetNewline, Go, TypeOK
    <3>. QED  BY <3>1, <3>2
  <2>2. CASE Of(t) # p
    BY <1>2, <1>7, <2>2 DEF GetNewline, Go, Positions
  <2>. QED  BY <2>1, <2>2
<1>8. ASSUME NEW t \in Tasks, Exit(t)  PROVE Hears(p)'
  BY <1>1, <1>8 DEF Exit
<1>9. ASSUME NEW c \in Children, Fork(c)  PROVE Hears(p)'
  <2>1. CASE p = c
    <3>1. disposition'[p] \in {"handler", "inherited"}
      BY <1>9, <2>1, TasksOfProcesses DEF Fork, TypeOK
    <3>2. p # Program /\ \A t \in TasksOf(p) : pc'[t] = "away"
      BY <1>9, <2>1, TasksOfProcesses DEF Fork, UnbornInv
    <3>. QED  BY <3>1, <3>2
  <2>2. CASE p # c
    BY <1>9, <2>2 DEF Fork, TypeOK
  <2>. QED  BY <2>1, <2>2
<1>10. ASSUME NEW q \in Processes, Type(q) \/ End(q)  PROVE Hears(p)'
  BY <1>1, <1>10 DEF Type, End
<1>11. CASE CloseInput \/ UNCHANGED vars
  BY <1>1, <1>11 DEF CloseInput, vars
<1>. QED  BY <1>3, <1>4, <1>5, <1>6, <1>7, <1>8, <1>9, <1>10, <1>11 DEF Next, Handle

-----------------------------------------------------------------------------
(* One thread at a time, answers of one letter. *)

\* What other processes do is nothing to this one.
LEMMA Unaffected ==
  ASSUME NEW p \in Processes, orderly[p] => ProcessInv(p),
         input'[p] = input[p], reply'[p] = reply[p], orderly'[p] = orderly[p],
         \A t \in TasksOf(p) : pc'[t] = pc[t], closed => closed'
  PROVE  (orderly[p] => ProcessInv(p))'
BY DEF ProcessInv, AloneInv, PositionInv, AtAnswer, AtNewline, Agreed

\* The thread that moves is the only one in the handler.
LEMMA OnlyOneMoves ==
  ASSUME TypeOK, NEW p \in Processes, ProcessInv(p), NEW u \in TasksOf(p), pc[u] # "away",
         NEW to \in Positions \ {"entered"}, pc' = [pc EXCEPT ![u] = to],
         to = "away" => input'[p] = <<>>, PositionInv(p, u)'
  PROVE  ProcessInv(p)'
<1>1. \A t \in TasksOf(p) : t # u => pc[t] = "away" /\ pc'[t] = "away"
  BY TasksOfProcesses DEF ProcessInv, AloneInv, TypeOK
<1>2. pc'[u] = to
  BY TasksOfProcesses DEF TypeOK
<1>3. AloneInv(p)'
  BY <1>1, <1>2 DEF AloneInv, Positions
<1>. QED  BY <1>1, <1>3 DEF ProcessInv, PositionInv

\* The first getchar(): the letter decides, and the newline is left.
LEMMA AnswerKeepsProcessInv ==
  ASSUME TypeOK, NEW p \in Processes, ProcessInv(p), NEW u \in TasksOf(p), Answer(u)
  PROVE  ProcessInv(p)'
<1>1. /\ AtAnswer(p) /\ pc[u] = "answer" /\ Read(p) /\ reply' = reply /\ closed' = closed
      /\ Of(u) = p /\ u \in Tasks
  BY TasksOfProcesses DEF Answer, Go, ProcessInv, PositionInv
<1>2. CASE input[p] = <<>> /\ reply[p] = <<>>
  <2>1. closed /\ input'[p] = <<>> /\ ~Confirmed(p)
    BY <1>1, <1>2 DEF Read, Readable, Confirmed, TypeOK
  <2>2. pc' = [pc EXCEPT ![u] = "rearm"]
    BY <1>1, <2>1 DEF Answer, Go
  <2>3. PositionInv(p, u)'
    BY <1>1, <1>2, <2>1, <2>2 DEF PositionInv, AtNewline, TypeOK
  <2>. QED  BY <1>1, <2>2, <2>3, OnlyOneMoves DEF Positions
<1>3. CASE input[p] = reply[p] /\ reply[p] \in Answers /\ OneLetter(reply[p])
  <2>1. Len(input'[p]) = 1 /\ input'[p][1] = Newline
    BY <1>1, <1>3, ReadLetter
  <2>2. reply[p] # <<>> /\ (Confirmed(p) <=> Agreed(p)) /\ (Agreed(p)' <=> Agreed(p))
    BY <1>1, <1>3, TypedIsText DEF Confirmed, Confirms, Agreed
  <2>3. CASE Confirmed(p)
    <3>1. pc' = [pc EXCEPT ![u] = "quit"]
      BY <1>1, <2>3 DEF Answer, Go
    <3>2. PositionInv(p, u)'
      BY <1>1, <2>2, <2>3, <3>1 DEF PositionInv, TypeOK
    <3>. QED  BY <1>1, <3>1, <3>2, OnlyOneMoves DEF Positions
  <2>4. CASE ~Confirmed(p)
    <3>1. pc' = [pc EXCEPT ![u] = "rearm"]
      BY <1>1, <2>4 DEF Answer, Go
    <3>2. PositionInv(p, u)'
      BY <1>1, <2>1, <2>2, <2>4, <3>1 DEF PositionInv, AtNewline, TypeOK
    <3>. QED  BY <1>1, <3>1, <3>2, OnlyOneMoves DEF Positions
  <2>. QED  BY <2>3, <2>4
<1>. QED  BY <1>1, <1>2, <1>3 DEF AtAnswer

\* Every other step of a thread.
LEMMA HandleKeepsProcessInv ==
  ASSUME TypeOK, NEW p \in Processes, ProcessInv(p), NEW u \in TasksOf(p), Handle(u)
  PROVE  ProcessInv(p)'
<1>0. Of(u) = p /\ u \in Tasks
  BY TasksOfProcesses
<1>1. CASE Ignore(u)
  <2>1. \A t \in TasksOf(p) : pc[t] \in {"away", "entered"}
    BY <1>0, <1>1 DEF Ignore, Go, ProcessInv, AloneInv
  <2>2. input[p] = <<>>
    BY <2>1 DEF ProcessInv, AloneInv
  <2>3. PositionInv(p, u)'
    BY <1>0, <1>1, <2>2 DEF Ignore, Go, PositionInv, AtAnswer, TypeOK
  <2>. QED  BY <1>1, <2>3, OnlyOneMoves DEF Ignore, Go, Positions
<1>2. CASE Answer(u)
  BY <1>2, AnswerKeepsProcessInv
<1>3. CASE Rearm(u)
  <2>1. PositionInv(p, u)'
    BY <1>0, <1>3 DEF Rearm, Go, ProcessInv, PositionInv, AtNewline, Agreed, TypeOK
  <2>. QED  BY <1>3, <2>1, OnlyOneMoves DEF Rearm, Go, Positions
<1>4. CASE GetNewline(u)
  <2>1. AtNewline(p) /\ Read(p)
    BY <1>0, <1>4 DEF GetNewline, Go, ProcessInv, PositionInv
  <2>2. input'[p] = <<>>
    BY <2>1, ReadLast DEF AtNewline, Read, TypeOK
  <2>3. PositionInv(p, u)'
    BY <1>0, <1>4 DEF GetNewline, Go, PositionInv, TypeOK
  <2>. QED  BY <1>4, <2>2, <2>3, OnlyOneMoves DEF GetNewline, Go, Positions
<1>5. CASE Exit(u)
  BY <1>5 DEF Exit, ProcessInv, AloneInv, PositionInv, AtAnswer, AtNewline, Agreed
<1>. QED  BY <1>1, <1>2, <1>3, <1>4, <1>5 DEF Handle

\* A line typed for a process whose one thread waits at the first getchar().
LEMMA TypeKeepsProcessInv ==
  ASSUME TypeOK, NEW p \in Processes, ProcessInv(p), Type(p), orderly'[p]
  PROVE  ProcessInv(p)'
<1>1. PICK a \in Answers : input'[p] = a /\ reply'[p] = a /\ OneLetter(a)
  BY DEF Type, TypeOK
<1>2. PICK u \in TasksOf(p) : pc[u] = "answer"
  BY DEF Type, TypeOK
<1>3. \A t \in TasksOf(p) : t # u => pc[t] = "away"
  BY <1>2 DEF ProcessInv, AloneInv
<1>4. AloneInv(p)'
  BY <1>2 DEF ProcessInv, AloneInv, Type
<1>. QED  BY <1>1, <1>2, <1>3, <1>4 DEF Type, ProcessInv, PositionInv, AtAnswer, OneLetter

LEMMA NextOrderlyInv ==
  ASSUME TypeOK, UnbornInv, OrderlyInv, [Next]_vars
  PROVE  OrderlyInv'
<1>. SUFFICES ASSUME NEW p \in Processes  PROVE (orderly[p] => ProcessInv(p))'
  BY DEF OrderlyInv
<1>0. orderly[p] => ProcessInv(p)
  BY DEF OrderlyInv
<1>1. ASSUME NEW q \in Processes, Type(q)  PROVE (orderly[p] => ProcessInv(p))'
  <2>1. CASE p = q
    BY <1>0, <1>1, <2>1, TypeKeepsProcessInv DEF Type, TypeOK
  <2>2. CASE p # q
    <3>1. /\ input'[p] = input[p] /\ reply'[p] = reply[p] /\ orderly'[p] = orderly[p]
          /\ pc' = pc /\ closed' = closed
      BY <1>1, <2>2 DEF Type, TypeOK
    <3>. QED  BY <1>0, <3>1, Unaffected
  <2>. QED  BY <2>1, <2>2
<1>2. CASE CloseInput
  BY <1>0, <1>2, Unaffected DEF CloseInput
<1>3. ASSUME NEW t \in Tasks, Interrupt(t)  PROVE (orderly[p] => ProcessInv(p))'
  <2>1. CASE Of(t) = p
    <3>1. /\ orderly'[p] => orderly[p] /\ \A u \in TasksOf(p) : pc[u] = "away"
          /\ \A u \in TasksOf(p) : pc'[u] = IF u = t THEN "entered" ELSE pc[u]
          /\ UNCHANGED <<input, reply, closed>>
      BY <1>3, <2>1, TasksOfProcesses DEF Interrupt, Go, TypeOK
    <3>. QED  BY <1>0, <3>1 DEF ProcessInv, AloneInv, PositionInv
  <2>2. CASE Of(t) # p
    <3>1. /\ orderly'[p] = orderly[p]
          /\ \A u \in TasksOf(p) : pc'[u] = pc[u]
          /\ UNCHANGED <<input, reply, closed>>
      BY <1>3, <2>2, TasksOfProcesses DEF Interrupt, Go, TypeOK
    <3>. QED  BY <1>0, <3>1, Unaffected
  <2>. QED  BY <2>1, <2>2
<1>4. ASSUME NEW t \in Tasks, Handle(t)  PROVE (orderly[p] => ProcessInv(p))'
  <2>1. orderly' = orderly /\ closed' = closed
    BY <1>4 DEF Handle, Ignore, Answer, Rearm, GetNewline, Exit
  <2>2. CASE Of(t) = p
    BY <1>0, <1>4, <2>1, <2>2, HandleKeepsProcessInv, TasksOfProcesses
  <2>3. CASE Of(t) # p
    <3>1. \A u \in TasksOf(p) : pc'[u] = pc[u]
      BY <1>4, <2>3, TasksOfProcesses
         DEF Handle, Ignore, Answer, Rearm, GetNewline, Exit, Go, TypeOK
    <3>2. input'[p] = input[p] /\ reply'[p] = reply[p]
      BY <1>4, <2>3, TasksOfProcesses
         DEF Handle, Ignore, Answer, Rearm, GetNewline, Exit, Read, TypeOK
    <3>. QED  BY <1>0, <2>1, <3>1, <3>2, Unaffected
  <2>. QED  BY <2>2, <2>3
<1>5. ASSUME NEW c \in Children, Fork(c)  PROVE (orderly[p] => ProcessInv(p))'
  <2>1. CASE p = c
    <3>1. orderly'[p] => input'[p] = <<>>
      BY <1>5, <2>1, TasksOfProcesses DEF Fork, TypeOK
    <3>2. \A t \in TasksOf(p) : pc'[t] = "away"
      BY <1>5, <2>1, TasksOfProcesses DEF Fork, UnbornInv
    <3>. QED  BY <3>1, <3>2 DEF ProcessInv, AloneInv, PositionInv
  <2>2. CASE p # c
    <3>1. /\ input'[p] = input[p] /\ orderly'[p] = orderly[p]
          /\ UNCHANGED <<pc, reply, closed>>
      BY <1>5, <2>2 DEF Fork, TypeOK
    <3>. QED  BY <1>0, <3>1, Unaffected
  <2>. QED  BY <2>1, <2>2
<1>6. ASSUME NEW q \in Processes, End(q)  PROVE (orderly[p] => ProcessInv(p))'
  BY <1>0, <1>6, Unaffected DEF End
<1>7. CASE UNCHANGED vars
  BY <1>0, <1>7, Unaffected DEF vars
<1>. QED  BY <1>1, <1>2, <1>3, <1>4, <1>5, <1>6, <1>7 DEF Next

LEMMA IInvInvariant == Spec => []IInv
<1>1. IInv /\ [Next]_vars => IInv'
  BY NextTypeOK, NextUnbornInv, NextNeverDeaf, NextOrderlyInv DEF IInv
<1>. QED  BY <1>1, InitIInv, PTL DEF Spec

-----------------------------------------------------------------------------
(* Results. *)

\* Every variable keeps its type; input stays text and reply one of the lines.
THEOREM TypeCorrect == Spec => []TypeOK
BY IInvInvariant, PTL DEF IInv

\* However many threads handle SIGINT at once, a process ignores it only while one of them
\* has a question open or is about to quit (main.c:27, main.c:44), or because it was forked
\* while its parent ignored it (cli.c:75).
THEOREM SigintComesBack == Spec => []NeverDeaf
BY IInvInvariant, PTL DEF IInv

\* With one thread at a time, answers of one letter and nothing left over from its parent, a
\* process quits on a yes to its own prompt and goes on after anything else (main.c:29-45).
THEOREM RepliesDecide == Spec => []ReplyDecides
<1>1. ASSUME IInv  PROVE ReplyDecides
  <2>1. SUFFICES ASSUME NEW t \in Tasks, orderly[Of(t)]
                 PROVE  QuitIsConfirmed(t) /\ YesIsHeard(t)
    BY DEF ReplyDecides
  <2>2. PositionInv(Of(t), t)
    BY <1>1, <2>1, TasksOfProcesses DEF IInv, OrderlyInv, ProcessInv
  <2>. QED  BY <2>2 DEF PositionInv, AtNewline, Agreed, QuitIsConfirmed, YesIsHeard
<1>. QED  BY <1>1, IInvInvariant, PTL
=============================================================================
