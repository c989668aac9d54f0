-------------------------------- MODULE Cli --------------------------------
(***************************************************************************)
(* The command line server: the thread running cliInit() of                *)
(* src/src/cli/cli.c listens on port 8000 and forks a child for every      *)
(* connection it accepts.  The child closes the listening socket, serves   *)
(* its connection and exits; the parent closes the connection and goes on. *)
(*                                                                         *)
(* A descriptor is a property of a process, and a socket is closed when    *)
(* the last process that has it closes it: the model keeps, for the        *)
(* listening socket and for every connection, the processes that have it.  *)
(* Processes are the server and the children, which are named by their     *)
(* connections, or Spares if they have none.                               *)
(*                                                                         *)
(* The program may end and be started again.  SO_REUSEADDR is given        *)
(* socketOptionsForCLI, which is 0, so that bind() fails while anything of *)
(* the port is left: a listening socket, a session, or a connection that   *)
(* the program's side has closed first and the kernel keeps for a while.   *)
(*                                                                         *)
(* accept() returns -1 on an error, which the loop takes for a connection  *)
(* and forks for: that child inherits the listening socket, closes it and  *)
(* finds nothing to serve.  accept() returns 0 only where descriptor 0 is  *)
(* closed, which the prompt of the program needs; this is left out.        *)
(***************************************************************************)
EXTENDS Naturals, Sequences, FiniteSets

CONSTANTS
    Clients,  \* one connection each
    Server,   \* the process of the server thread
    Spares,   \* children without a connection that have the listening socket, at a time
    None,     \* no connection: nothing accepted, or an error
    BACKLOG   \* connections that wait to be accepted: 50

ASSUME ConstantsAssumption ==
    /\ BACKLOG \in Nat \ {0}
    /\ Server \notin Clients \cup Spares /\ None \notin Clients \cup {Server}
    /\ Clients \cap Spares = {}

Children == Clients \cup Spares

VARIABLES
    pc,         \* of the server: "setup", "accept", "fork", "close", "ended", "exited"
    x,          \* the connection accepted last
    client,     \* of each client: "away", "waiting", "connected", "gone"
    queue,      \* connections not yet accepted
    listeners,  \* processes that have the listening socket
    holders,    \* of each connection, the processes that have it
    lingering,  \* connections the kernel keeps after the last close
    child       \* of each child: "none", "forked", "serving", "exited"

vars == <<pc, x, client, queue, listeners, holders, lingering, child>>

Init ==
    /\ pc = "setup" /\ x = None
    /\ client = [c \in Clients |-> "away"]
    /\ queue = <<>>
    /\ listeners = {}
    /\ holders = [c \in Clients |-> {}]
    /\ lingering = {}
    /\ child = [p \in Children |-> "none"]

\* bind() needs all of this.
PortFree == listeners = {} /\ lingering = {} /\ \A c \in Clients : holders[c] = {}

\* Process p closes the listening socket, and hangs up on some clients.  The last process
\* to close it takes the connections nobody has accepted with it.
CloseListening(p, dropped) ==
    /\ listeners' = listeners \ {p}
    /\ queue' = IF listeners' = {} THEN <<>> ELSE queue
    /\ client' = [c \in Clients |->
                    IF c \in dropped \/ (listeners' = {} /\ client[c] = "waiting") THEN "gone"
                    ELSE client[c]]

\* Closed by this side first, a connection lingers, unless there was something left to read.
MayLinger(dropped) == \E kept \in SUBSET dropped : lingering' = lingering \cup kept

-----------------------------------------------------------------------------
(* Clients. *)

\* The kernel takes the connection as long as some process listens.
Dial(c) ==
    /\ client[c] = "away" /\ listeners # {} /\ Len(queue) < BACKLOG
    /\ client' = [client EXCEPT ![c] = "waiting"]
    /\ queue' = Append(queue, c)
    /\ UNCHANGED <<pc, x, listeners, holders, lingering, child>>

\* A client leaves at any time; what it has sent before stays to be accepted.
HangUp(c) ==
    /\ client[c] \in {"waiting", "connected"}
    /\ client' = [client EXCEPT ![c] = "gone"]
    /\ UNCHANGED <<pc, x, queue, listeners, holders, lingering, child>>

-----------------------------------------------------------------------------
(* The server. *)

Listen ==
    /\ pc = "setup" /\ PortFree
    /\ listeners' = {Server}
    /\ pc' = "accept"
    /\ UNCHANGED <<x, client, queue, holders, lingering, child>>

\* socket(), bind() or listen() fails, for the port or for want of something else: the
\* program goes on without a command line.
CannotListen ==
    /\ pc = "setup"
    /\ pc' = "ended"
    /\ UNCHANGED <<x, client, queue, listeners, holders, lingering, child>>

Accept_Dropped ==
    /\ pc = "accept" /\ queue # <<>>
    /\ x' = Head(queue) /\ queue' = Tail(queue)
    /\ client' = [client EXCEPT ![x'] = IF @ = "waiting" THEN "connected" ELSE @]
    /\ pc' = "fork"
    /\ UNCHANGED <<listeners, holders, lingering, child>>
Accept ==
    /\ pc = "accept" /\ queue # <<>>
    /\ x' = Head(queue) /\ queue' = Tail(queue)
    /\ holders' = [holders EXCEPT ![x'] = {Server}]
    /\ client' = [client EXCEPT ![x'] = IF @ = "waiting" THEN "connected" ELSE @]
    /\ pc' = "fork"
    /\ UNCHANGED <<listeners, lingering, child>>

AcceptFails ==
    /\ pc = "accept"
    /\ x' = None
    /\ pc' = "fork"
    /\ UNCHANGED <<client, queue, listeners, holders, lingering, child>>

\* The child has whatever the server has.
Fork ==
    /\ pc = "fork"
    /\ pc' = "close"
    /\ \E p \in IF x = None THEN {spare \in Spares : child[spare] # "forked"} ELSE {x} :
          /\ child' = [child EXCEPT ![p] = "forked"]
          /\ listeners' = listeners \cup {p}
          /\ holders' = [c \in Clients |->
                          IF Server \in holders[c] THEN holders[c] \cup {p} ELSE holders[c]]
    /\ UNCHANGED <<x, client, queue, lingering>>

\* The thread ends, and closes nothing.
ForkFails ==
    /\ pc = "fork"
    /\ pc' = "ended"
    /\ UNCHANGED <<x, client, queue, listeners, holders, lingering, child>>

Close_Skipped ==
    /\ pc = "close"
    /\ pc' = "accept"
    /\ UNCHANGED <<x, client, queue, listeners, holders, lingering, child>>
Close_Clears ==
    /\ pc = "close"
    /\ x' = 0
    /\ holders' = [c \in Clients |-> IF c = x THEN holders[c] \ {Server} ELSE holders[c]]
    /\ pc' = "accept"
    /\ UNCHANGED <<client, queue, listeners, lingering, child>>
Close ==
    /\ pc = "close"
    /\ holders' = [c \in Clients |-> IF c = x THEN holders[c] \ {Server} ELSE holders[c]]
    /\ pc' = "accept"
    /\ UNCHANGED <<x, client, queue, listeners, lingering, child>>

\* The program ends, in whatever position this thread is.  Children live on.
Exit ==
    /\ pc # "exited"
    /\ pc' = "exited"
    /\ holders' = [c \in Clients |-> holders[c] \ {Server}]
    /\ LET dropped == {c \in Clients : client[c] = "connected" /\ holders[c] = {Server}}
       IN  CloseListening(Server, dropped) /\ MayLinger(dropped)
    /\ UNCHANGED <<x, child>>

\* It is started again.
Restart ==
    /\ pc = "exited"
    /\ pc' = "setup" /\ x' = None
    /\ UNCHANGED <<client, queue, listeners, holders, lingering, child>>

ServerStep == Listen \/ CannotListen \/ Accept \/ AcceptFails \/ Fork \/ ForkFails \/ Close

-----------------------------------------------------------------------------
(* Children. *)

Serve_KeepsListening(p) ==
    /\ child[p] = "forked"
    /\ child' = [child EXCEPT ![p] = "serving"]
    /\ UNCHANGED <<pc, x, client, queue, listeners, holders, lingering>>
Serve(p) ==
    /\ child[p] = "forked"
    /\ CloseListening(p, {})
    /\ child' = [child EXCEPT ![p] = "serving"]
    /\ UNCHANGED <<pc, x, holders, lingering>>

Leave(c) ==
    /\ child[c] = "serving"
    /\ child' = [child EXCEPT ![c] = "exited"]
    /\ CloseListening(c, {c})
    /\ holders' = [d \in Clients |-> holders[d] \ {c}]
    /\ MayLinger({c} \cap {d \in Clients : client[d] = "connected"})
    /\ UNCHANGED <<pc, x>>

\* The kernel forgets a connection.
Expire(c) ==
    /\ c \in lingering
    /\ lingering' = lingering \ {c}
    /\ UNCHANGED <<pc, x, client, queue, listeners, holders, child>>

Next ==
    \/ ServerStep \/ Exit \/ Restart
    \/ \E c \in Clients : Dial(c) \/ HangUp(c) \/ Leave(c) \/ Expire(c)
    \/ \E p \in Children : Serve(p)

Spec == Init /\ [][Next]_vars

\* Threads and processes that can go on do, and the kernel keeps a connection for a limited
\* time.  Nobody has to dial, to leave, to end the program or to start it again, and nothing
\* says that a session ends while its client stays.
FairSpec ==
    /\ Spec
    /\ WF_vars(ServerStep)
    /\ \A c \in Clients : WF_vars(Leave(c) /\ client[c] = "gone") /\ WF_vars(Expire(c))
    /\ \A p \in Children : WF_vars(Serve(p))

-----------------------------------------------------------------------------
(* Properties. *)

TypeOK ==
    /\ pc \in {"setup", "accept", "fork", "close", "ended", "exited"}
    /\ x \in Clients \cup {None}
    /\ client \in [Clients -> {"away", "waiting", "connected", "gone"}]
    /\ queue \in Seq(Clients)
    /\ listeners \subseteq Children \cup {Server}
    /\ holders \in [Clients -> SUBSET (Children \cup {Server})]
    /\ lingering \subseteq Clients
    /\ child \in [Children -> {"none", "forked", "serving", "exited"}]

\* A client that is connected has a process that has its connection: it is never dropped
\* between the server and the child, in whichever order they close their descriptors, ...
ConnectedIsHeld ==
    \A c \in Clients : client[c] = "connected" => holders[c] # {}

\* ... and its session is private: no other child has the connection.
SessionsAreSeparate ==
    \A c \in Clients : holders[c] \subseteq {Server, c}

\* cli.c:82-94: both, over any number of runs of the program.
SessionsAreSafe == ConnectedIsHeld /\ SessionsAreSeparate

\* The server waits for the next connection without keeping an earlier one, so that a
\* connection ends with its session.
NothingKept ==
    pc = "accept" =>
        \A c \in Clients :
            Server \notin holders[c] /\ (child[c] = "exited" => holders[c] = {})

\* Once the program has ended, or is about to bind(), nobody listens as soon as every child,
\* those forked for an error of accept() included, has closed the socket it inherited: a
\* session that goes on takes no connections nobody would accept.
ExitFreesThePort ==
    pc \in {"exited", "setup"} /\ (\A p \in Children : child[p] # "forked") => listeners = {}


=============================================================================
