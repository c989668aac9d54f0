----------------------------- MODULE CliProofs -----------------------------
(***************************************************************************)
(* Proofs, for any number of clients, of the safety properties of Cli.     *)
(* The invariant says who has which descriptor: a child exactly the one of *)
(* its connection while it lives, the listening socket only until it       *)
(* serves, and the server no connection but the last one it accepted.      *)
(***************************************************************************)
EXTENDS Cli, SequenceTheorems, TLAPS

\* Children and their connections, which those of an error do not have.
ChildInv ==
    /\ \A c \in Clients :
        /\ holders[c] \subseteq {Server, c}
        /\ c \in holders[c] <=> child[c] \in {"forked", "serving"}
        /\ child[c] = "exited" => client[c] = "gone"
    /\ \A p \in Children : p \in listeners => child[p] = "forked"

\* The server and its connection.
ServerInv ==
    /\ \A c \in Clients : Server \in holders[c] => c = x /\ pc \in {"fork", "close", "ended"}
    /\ pc = "fork" /\ x # None => holders[x] = {Server} /\ child[x] = "none"
    /\ pc = "close" /\ x # None => child[x] # "none"
    /\ pc \in {"setup", "exited"} => Server \notin listeners

\* Connections in the queue have not been accepted, and are there once.
Fresh(c) == child[c] = "none" /\ holders[c] = {} /\ client[c] # "away"
QueueInv ==
    /\ \A n \in 1 .. Len(queue) : Fresh(queue[n])
    /\ \A m, n \in 1 .. Len(queue) : queue[m] = queue[n] => m = n
    /\ \A c \in Clients :
        client[c] \in {"away", "waiting"} => child[c] = "none" /\ holders[c] = {}

IInv == TypeOK /\ ChildInv /\ ServerInv /\ QueueInv /\ ConnectedIsHeld

LEMMA ServerIsNoChild == Clients \subseteq Children /\ Server \notin Children
BY ConstantsAssumption DEF Children

LEMMA InitIInv == Init => IInv
BY EmptySeq, ConstantsAssumption, ServerIsNoChild
   DEF Init, IInv, TypeOK, ChildInv, ServerInv, QueueInv, ConnectedIsHeld

-----------------------------------------------------------------------------
(* The queue. *)

LEMMA QueueElements ==
  ASSUME TypeOK
  PROVE  /\ Len(queue) \in Nat
         /\ \A n \in 1 .. Len(queue) : queue[n] \in Clients
BY LenProperties DEF TypeOK

LEMMA QueueHead ==
  ASSUME TypeOK, QueueInv, queue # <<>>
  PROVE  /\ Head(queue) \in Clients /\ Fresh(Head(queue))
         /\ Tail(queue) \in Seq(Clients) /\ Len(Tail(queue)) \in Nat
         /\ \A n \in 1 .. Len(Tail(queue)) :
                Tail(queue)[n] # Head(queue) /\ Fresh(Tail(queue)[n])
         /\ \A m, n \in 1 .. Len(Tail(queue)) : Tail(queue)[m] = Tail(queue)[n] => m = n
<1>1. /\ Len(queue) \in Nat \ {0} /\ Head(queue) = queue[1] /\ Head(queue) \in Clients
      /\ Tail(queue) \in Seq(Clients) /\ Len(Tail(queue)) = Len(queue) - 1
      /\ \A n \in 1 .. Len(Tail(queue)) : Tail(queue)[n] = queue[n + 1]
  BY HeadTailProperties, EmptySeq DEF TypeOK
<1>2. /\ 1 \in 1 .. Len(queue)
      /\ \A n \in 1 .. Len(Tail(queue)) : n + 1 \in 1 .. Len(queue) /\ n + 1 # 1
  BY <1>1
<1>3. \A m, n \in 1 .. Len(Tail(queue)) : m + 1 = n + 1 => m = n
  BY <1>1
<1>4. \A n \in 1 .. Len(Tail(queue)) : Tail(queue)[n] # Head(queue) /\ Fresh(Tail(queue)[n])
  BY <1>1, <1>2 DEF QueueInv
<1>5. \A m, n \in 1 .. Len(Tail(queue)) : Tail(queue)[m] = Tail(queue)[n] => m = n
  BY <1>1, <1>2, <1>3 DEF QueueInv
<1>6. Fresh(Head(queue))
  BY <1>1, <1>2 DEF QueueInv
<1>. QED  BY <1>1, <1>4, <1>5, <1>6

\* A step that leaves the queue alone and touches no connection in it keeps its invariant.
LEMMA QueueKept ==
  ASSUME TypeOK, QueueInv, queue' = queue,
         \A c \in Clients : Fresh(c) => Fresh(c)',
         \A c \in Clients : client'[c] \in {"away", "waiting"} =>
            /\ client[c] \in {"away", "waiting"}
            /\ child[c] = "none" /\ holders[c] = {} => child'[c] = "none" /\ holders'[c] = {}
  PROVE  QueueInv'
<1>1. \A n \in 1 .. Len(queue) : queue[n] \in Clients
  BY QueueElements
<1>. QED  BY <1>1 DEF QueueInv

-----------------------------------------------------------------------------
(* Clients. *)

LEMMA DialIInv == ASSUME IInv, NEW c \in Clients, Dial(c)  PROVE IInv'
<1>1. /\ queue \in Seq(Clients) /\ queue' = Append(queue, c)
      /\ client' = [client EXCEPT ![c] = "waiting"] /\ client[c] = "away"
      /\ UNCHANGED <<pc, x, listeners, holders, lingering, child>>
  BY DEF IInv, TypeOK, Dial
<1>2. /\ queue' \in Seq(Clients) /\ Len(queue) \in Nat /\ Len(queue') = Len(queue) + 1
      /\ \A n \in 1 .. Len(queue) : queue'[n] = queue[n] /\ queue[n] \in Clients
      /\ queue'[Len(queue) + 1] = c
  BY <1>1, AppendProperties, QueueElements DEF IInv
<1>3. TypeOK' /\ ChildInv' /\ ServerInv'
  BY <1>1, <1>2 DEF IInv, TypeOK, ChildInv, ServerInv
<1>4. ConnectedIsHeld'
  BY <1>1 DEF IInv, TypeOK, ConnectedIsHeld
<1>5. \A n \in 1 .. Len(queue') : n \in 1 .. Len(queue) \/ n = Len(queue) + 1
  BY <1>2
<1>6. child[c] = "none" /\ holders[c] = {} /\ client'[c] = "waiting"
  BY <1>1 DEF IInv, TypeOK, QueueInv
<1>7. \A n \in 1 .. Len(queue) : Fresh(queue[n])' /\ queue[n] # c
  BY <1>1, <1>2 DEF IInv, TypeOK, QueueInv, Fresh
<1>8. ASSUME NEW n \in 1 .. Len(queue')
      PROVE  child'[queue'[n]] = "none" /\ holders'[queue'[n]] = {} /\ client'[queue'[n]] # "away"
  <2>1. CASE n \in 1 .. Len(queue)
    <3>1. queue'[n] = queue[n]
      BY <1>2, <2>1
    <3>. QED  BY <1>7, <2>1, <3>1 DEF Fresh
  <2>2. CASE n = Len(queue) + 1
    <3>1. queue'[n] = c
      BY <1>2, <2>2
    <3>. QED  BY <1>1, <1>6, <3>1
  <2>. QED  BY <1>5, <2>1, <2>2
<1>9. \A m, n \in 1 .. Len(queue') : queue'[m] = queue'[n] => m = n
  BY <1>2, <1>5, <1>7 DEF IInv, QueueInv
<1>10. \A d \in Clients :
         client'[d] \in {"away", "waiting"} => child'[d] = "none" /\ holders'[d] = {}
  BY <1>1, <1>6 DEF IInv, TypeOK, QueueInv
<1>11. QueueInv'
  BY <1>8, <1>9, <1>10 DEF QueueInv, Fresh
<1>. QED  BY <1>3, <1>4, <1>11 DEF IInv

LEMMA HangUpIInv == ASSUME IInv, NEW c \in Clients, HangUp(c)  PROVE IInv'
<1>1. /\ client' = [client EXCEPT ![c] = "gone"] /\ client[c] \in {"waiting", "connected"}
      /\ UNCHANGED <<pc, x, queue, listeners, holders, lingering, child>>
  BY DEF HangUp
<1>2. TypeOK' /\ ChildInv' /\ ServerInv' /\ ConnectedIsHeld'
  BY <1>1 DEF IInv, TypeOK, ChildInv, ServerInv, ConnectedIsHeld
<1>3. QueueInv'
  BY <1>1, QueueKept DEF IInv, TypeOK, Fresh
<1>. QED  BY <1>2, <1>3 DEF IInv

-----------------------------------------------------------------------------
(* The server. *)

LEMMA AcceptIInv == ASSUME IInv, Accept  PROVE IInv'
<1>1. /\ pc = "accept" /\ pc' = "fork" /\ queue # <<>>
      /\ x' = Head(queue) /\ queue' = Tail(queue)
      /\ holders' = [holders EXCEPT ![x'] = {Server}]
      /\ client' = [client EXCEPT ![x'] = IF @ = "waiting" THEN "connected" ELSE @]
      /\ UNCHANGED <<listeners, lingering, child>>
  BY DEF Accept
<1>2. /\ x' \in Clients /\ Fresh(x')
      /\ queue' \in Seq(Clients) /\ Len(queue') \in Nat
      /\ \A n \in 1 .. Len(queue') : queue'[n] # x' /\ Fresh(queue'[n])
      /\ \A m, n \in 1 .. Len(queue') : queue'[m] = queue'[n] => m = n
      /\ \A n \in 1 .. Len(queue') : queue'[n] \in Clients
  <2>1. \A n \in 1 .. Len(queue') : queue'[n] \in Clients
    BY <1>1, QueueHead, LenProperties DEF IInv
  <2>. QED  BY <1>1, <2>1, QueueHead DEF IInv
<1>3. TypeOK'
  BY <1>1, <1>2 DEF IInv, TypeOK
<1>4. /\ \A c \in Clients : c # x' => holders'[c] = holders[c] /\ client'[c] = client[c]
      /\ holders'[x'] = {Server} /\ child'[x'] = "none"
      /\ client'[x'] \notin {"away", "waiting"}
  BY <1>1, <1>2 DEF IInv, TypeOK, Fresh
<1>5. ChildInv'
  BY <1>1, <1>2, <1>4, ConstantsAssumption DEF IInv, ChildInv
<1>6. ServerInv'
  BY <1>1, <1>2, <1>4 DEF IInv, ServerInv
<1>7. QueueInv'
  BY <1>1, <1>2, <1>4 DEF IInv, QueueInv, Fresh
<1>8. ConnectedIsHeld'
  BY <1>1, <1>4 DEF IInv, ConnectedIsHeld
<1>. QED  BY <1>3, <1>5, <1>6, <1>7, <1>8 DEF IInv

LEMMA ForkIInv == ASSUME IInv, Fork  PROVE IInv'
<1>1. CASE x = None
  <2>1. pc = "fork" /\ pc' = "close" /\ UNCHANGED <<x, client, queue, lingering>>
    BY DEF Fork
  <2>2. PICK spare \in Spares :
          /\ child' = [child EXCEPT ![spare] = "forked"]
          /\ listeners' = listeners \cup {spare}
          /\ holders' = [c \in Clients |->
                          IF Server \in holders[c] THEN holders[c] \cup {spare} ELSE holders[c]]
    BY <1>1 DEF Fork
  <2>3. \A c \in Clients : Server \notin holders[c]
    BY <1>1, <2>1, ConstantsAssumption DEF IInv, ServerInv
  <2>4. holders' = holders
    BY <2>2, <2>3 DEF IInv, TypeOK
  <2>5. spare \in Children /\ \A c \in Clients : c # spare /\ child'[c] = child[c]
    BY <2>2, ConstantsAssumption DEF Children, IInv, TypeOK
  <2>6. TypeOK'
    BY <2>1, <2>2, <2>4, <2>5 DEF IInv, TypeOK
  <2>7. ChildInv'
    BY <2>1, <2>2, <2>4, <2>5 DEF IInv, TypeOK, ChildInv
  <2>8. ServerInv' /\ ConnectedIsHeld'
    BY <1>1, <2>1, <2>4 DEF IInv, ServerInv, ConnectedIsHeld
  <2>9. QueueInv'
    BY <2>1, <2>4, <2>5, QueueKept DEF IInv, Fresh
  <2>. QED  BY <2>6, <2>7, <2>8, <2>9 DEF IInv
<1>2. CASE x # None
  <2>1. /\ pc = "fork" /\ pc' = "close" /\ UNCHANGED <<x, client, queue, lingering>>
        /\ child' = [child EXCEPT ![x] = "forked"] /\ listeners' = listeners \cup {x}
        /\ x \in Clients /\ x \in Children /\ holders[x] = {Server} /\ child[x] = "none"
    BY <1>2 DEF Fork, IInv, TypeOK, ServerInv, Children
  <2>2. \A c \in Clients : Server \in holders[c] <=> c = x
    BY <2>1 DEF IInv, ServerInv
  <2>3. holders' = [c \in Clients |-> IF c = x THEN {Server, x} ELSE holders[c]]
    BY <1>2, <2>1, <2>2 DEF Fork
  <2>4. TypeOK'
    BY <2>1, <2>3 DEF IInv, TypeOK
  <2>5. ChildInv' /\ ServerInv' /\ ConnectedIsHeld'
    BY <2>1, <2>2, <2>3, ConstantsAssumption
       DEF IInv, TypeOK, ChildInv, ServerInv, ConnectedIsHeld
  <2>6. QueueInv'
    <3>1. client[x] \notin {"away", "waiting"}
      BY <2>1 DEF IInv, QueueInv
    <3>. QED  BY <2>1, <2>3, <3>1, QueueKept DEF IInv, TypeOK, Fresh
  <2>. QED  BY <2>4, <2>5, <2>6 DEF IInv
<1>. QED  BY <1>1, <1>2

LEMMA CloseIInv == ASSUME IInv, Close  PROVE IInv'
<1>1. /\ pc = "close" /\ pc' = "accept" /\ UNCHANGED <<x, client, queue, listeners, lingering, child>>
      /\ holders' = [c \in Clients |-> IF c = x THEN holders[c] \ {Server} ELSE holders[c]]
  BY DEF Close
<1>2. TypeOK' /\ ChildInv' /\ ServerInv'
  BY <1>1, ConstantsAssumption DEF IInv, TypeOK, ChildInv, ServerInv
<1>3. ASSUME NEW c \in Clients, client[c] = "connected"  PROVE holders'[c] # {}
  <2>1. CASE c = x
    <3>1. child[c] # "none" /\ child[c] # "exited"
      BY <1>1, <1>3, <2>1, ConstantsAssumption DEF IInv, ServerInv, ChildInv
    <3>2. c \in holders[c] /\ c # Server
      BY <3>1, ConstantsAssumption, ServerIsNoChild DEF IInv, TypeOK, ChildInv
    <3>. QED  BY <1>1, <3>2
  <2>2. CASE c # x
    BY <1>1, <1>3, <2>2 DEF IInv, ConnectedIsHeld
  <2>. QED  BY <2>1, <2>2
<1>4. QueueInv'
  BY <1>1, QueueKept DEF IInv, Fresh
<1>. QED  BY <1>1, <1>2, <1>3, <1>4 DEF IInv, ConnectedIsHeld

\* The other steps of the thread, and a new start, change no descriptor of a connection.
LEMMA ServerIInv ==
  ASSUME IInv, Listen \/ CannotListen \/ AcceptFails \/ ForkFails \/ Restart
  PROVE  IInv'
<1>1. UNCHANGED <<client, queue, holders, child>>
  BY DEF Listen, CannotListen, AcceptFails, ForkFails, Restart
<1>2. TypeOK' /\ ChildInv' /\ ServerInv' /\ ConnectedIsHeld'
  BY ConstantsAssumption, ServerIsNoChild
     DEF IInv, TypeOK, ChildInv, ServerInv, ConnectedIsHeld,
     Listen, CannotListen, AcceptFails, ForkFails, Restart
<1>3. QueueInv'
  BY <1>1, QueueKept DEF IInv, Fresh
<1>. QED  BY <1>2, <1>3 DEF IInv

\* Closing the listening socket empties the queue or leaves it, and hangs up on clients.
LEMMA ListeningClosed ==
  ASSUME IInv, NEW p, NEW dropped \in SUBSET Clients, CloseListening(p, dropped)
  PROVE  /\ listeners' = listeners \ {p}
         /\ queue' \in {<<>>, queue} /\ queue' \in Seq(Clients)
         /\ client' \in [Clients -> {"away", "waiting", "connected", "gone"}]
         /\ \A c \in Clients : client'[c] \in {client[c], "gone"}
         /\ \A c \in dropped : client'[c] = "gone"
BY EmptySeq DEF IInv, TypeOK, CloseListening

LEMMA QueueClosed ==
  ASSUME IInv, NEW p, NEW dropped \in SUBSET Clients, CloseListening(p, dropped),
         \A c \in Clients :
            child[c] = "none" /\ holders[c] = {} => child'[c] = "none" /\ holders'[c] = {}
  PROVE  QueueInv'
<1>1. CASE queue' = <<>>
  BY <1>1, ListeningClosed, EmptySeq DEF IInv, QueueInv
<1>2. CASE queue' = queue
  <2>1. \A c \in Clients : Fresh(c) => Fresh(c)'
    BY ListeningClosed DEF Fresh
  <2>2. \A c \in Clients :
          client'[c] \in {"away", "waiting"} => client[c] \in {"away", "waiting"}
    BY ListeningClosed
  <2>. QED  BY <1>2, <2>1, <2>2, QueueKept DEF IInv
<1>. QED  BY <1>1, <1>2, ListeningClosed

LEMMA ExitIInv == ASSUME IInv, Exit  PROVE IInv'
<1>. DEFINE dropped == {c \in Clients : client[c] = "connected" /\ holders[c] = {Server}}
<1>1. /\ pc' = "exited"
      /\ holders' = [c \in Clients |-> holders[c] \ {Server}]
      /\ CloseListening(Server, dropped)
      /\ UNCHANGED <<x, child>>
  BY DEF Exit
<1>2. lingering' \subseteq Clients
  BY DEF Exit, MayLinger, IInv, TypeOK
<1>3. dropped \in SUBSET Clients
  OBVIOUS
<1>4. /\ listeners' = listeners \ {Server}
      /\ queue' \in Seq(Clients)
      /\ client' \in [Clients -> {"away", "waiting", "connected", "gone"}]
      /\ \A c \in Clients : client'[c] \in {client[c], "gone"}
      /\ \A c \in dropped : client'[c] = "gone"
  BY <1>1, <1>3, ListeningClosed
<1>5. TypeOK' /\ ChildInv' /\ ServerInv'
  BY <1>1, <1>2, <1>4, ConstantsAssumption DEF IInv, TypeOK, ChildInv, ServerInv
<1>6. ASSUME NEW c \in Clients, client'[c] = "connected"  PROVE holders'[c] # {}
  <2>1. client[c] = "connected" /\ holders[c] # {Server}
    BY <1>4, <1>6
  <2>2. c \in holders[c] /\ c # Server
    BY <2>1, ConstantsAssumption DEF IInv, ConnectedIsHeld, ChildInv
  <2>. QED  BY <1>1, <2>2
<1>7. QueueInv'
  BY <1>1, <1>3, QueueClosed
<1>. QED  BY <1>5, <1>6, <1>7 DEF IInv, ConnectedIsHeld

-----------------------------------------------------------------------------
(* Children. *)

LEMMA ServeIInv == ASSUME IInv, NEW p \in Children, Serve(p)  PROVE IInv'
<1>1. /\ child[p] = "forked" /\ child' = [child EXCEPT ![p] = "serving"]
      /\ CloseListening(p, {})
      /\ UNCHANGED <<pc, x, holders, lingering>>
  BY DEF Serve
<1>2. /\ listeners' = listeners \ {p}
      /\ queue' \in Seq(Clients)
      /\ client' \in [Clients -> {"away", "waiting", "connected", "gone"}]
      /\ \A d \in Clients : client'[d] \in {client[d], "gone"}
  BY <1>1, ListeningClosed
<1>3. TypeOK'
  BY <1>1, <1>2 DEF IInv, TypeOK
<1>4. ChildInv'
  BY <1>1, <1>2 DEF IInv, TypeOK, ChildInv
<1>5. ServerInv'
  BY <1>1, <1>2 DEF IInv, TypeOK, ServerInv
<1>6. ConnectedIsHeld'
  BY <1>1, <1>2 DEF IInv, ConnectedIsHeld
<1>7. QueueInv'
  BY <1>1, QueueClosed, ServerIsNoChild DEF IInv, TypeOK
<1>. QED  BY <1>3, <1>4, <1>5, <1>6, <1>7 DEF IInv

LEMMA LeaveIInv == ASSUME IInv, NEW c \in Clients, Leave(c)  PROVE IInv'
<1>1. /\ child[c] = "serving" /\ child' = [child EXCEPT ![c] = "exited"]
      /\ CloseListening(c, {c})
      /\ holders' = [d \in Clients |-> holders[d] \ {c}]
      /\ UNCHANGED <<pc, x>>
  BY DEF Leave
<1>2. \A d \in Clients : d # c => c \notin holders[d]
  BY ConstantsAssumption DEF IInv, ChildInv
<1>3. \A d \in Clients : holders'[d] = IF d = c THEN holders[c] \ {c} ELSE holders[d]
  BY <1>1, <1>2
<1>4. lingering' \subseteq Clients
  BY DEF Leave, MayLinger, IInv, TypeOK
<1>5. /\ listeners' = listeners \ {c}
      /\ queue' \in Seq(Clients)
      /\ client' \in [Clients -> {"away", "waiting", "connected", "gone"}]
      /\ \A d \in Clients : client'[d] \in {client[d], "gone"}
      /\ client'[c] = "gone"
  BY <1>1, ListeningClosed
<1>6. TypeOK'
  BY <1>1, <1>4, <1>5 DEF IInv, TypeOK
<1>7. ChildInv' /\ ServerInv' /\ ConnectedIsHeld'
  BY <1>1, <1>3, <1>5, ConstantsAssumption
     DEF IInv, TypeOK, ChildInv, ServerInv, ConnectedIsHeld
<1>8. QueueInv'
  BY <1>1, <1>3, QueueClosed DEF IInv, TypeOK
<1>. QED  BY <1>6, <1>7, <1>8 DEF IInv

\* The kernel's part.
LEMMA ExpireIInv == ASSUME IInv, NEW c \in Clients, Expire(c)  PROVE IInv'
<1>1. UNCHANGED <<pc, x, client, queue, listeners, holders, child>> /\ lingering' \subseteq lingering
  BY DEF Expire
<1>2. TypeOK' /\ ChildInv' /\ ServerInv' /\ ConnectedIsHeld'
  BY <1>1 DEF IInv, TypeOK, ChildInv, ServerInv, ConnectedIsHeld
<1>3. QueueInv'
  BY <1>1, QueueKept DEF IInv, Fresh
<1>. QED  BY <1>2, <1>3 DEF IInv

LEMMA StutterIInv == ASSUME IInv, UNCHANGED vars  PROVE IInv'
<1>1. UNCHANGED <<pc, x, client, queue, listeners, holders, lingering, child>>
  BY DEF vars
<1>2. TypeOK' /\ ChildInv' /\ ServerInv' /\ ConnectedIsHeld'
  BY <1>1 DEF IInv, TypeOK, ChildInv, ServerInv, ConnectedIsHeld
<1>3. QueueInv'
  BY <1>1, QueueKept DEF IInv, Fresh
<1>. QED  BY <1>2, <1>3 DEF IInv

LEMMA IInvInvariant == Spec => []IInv
<1>1. ASSUME IInv, [Next]_vars  PROVE IInv'
  BY <1>1, DialIInv, HangUpIInv, AcceptIInv, ForkIInv, CloseIInv, ServerIInv, ExitIInv,
     ServeIInv, LeaveIInv, ExpireIInv, StutterIInv DEF Next, ServerStep
<1>. QED  BY <1>1, InitIInv, PTL DEF Spec

-----------------------------------------------------------------------------
(* Results. *)

\* Every variable keeps its type.
THEOREM TypeCorrect == Spec => []TypeOK
BY IInvInvariant, PTL DEF IInv

\* Over any number of runs of the program, a connected client has a process that has its
\* connection, and no child has another client's (cli.c:82-94).
THEOREM SessionsStaySafe == Spec => []SessionsAreSafe
<1>1. IInv => SessionsAreSafe
  BY DEF IInv, ChildInv, SessionsAreSeparate, SessionsAreSafe
<1>. QED  BY <1>1, IInvInvariant, PTL

\* The server keeps no connection when it waits for the next (cli.c:88-89).
THEOREM NoConnectionIsKept == Spec => []NothingKept
<1>1. ASSUME IInv, pc = "accept", NEW c \in Clients
      PROVE  Server \notin holders[c] /\ (child[c] = "exited" => holders[c] = {})
  <2>1. Server \notin holders[c] /\ holders[c] \subseteq {Server, c}
    BY <1>1 DEF IInv, ServerInv, ChildInv
  <2>2. child[c] = "exited" => c \notin holders[c]
    BY <1>1 DEF IInv, ChildInv
  <2>. QED  BY <2>1, <2>2
<1>2. IInv => NothingKept
  BY <1>1 DEF NothingKept
<1>. QED  BY <1>2, IInvInvariant, PTL

\* Nobody listens once the program has ended, or is about to bind(), and the children serve
\* or have exited (cli.c:93).
THEOREM PortIsFreed == Spec => []ExitFreesThePort
<1>1. IInv => ExitFreesThePort
  BY DEF IInv, TypeOK, ChildInv, ServerInv, ExitFreesThePort
<1>. QED  BY <1>1, IInvInvariant, PTL
=============================================================================
