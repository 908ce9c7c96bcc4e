---------------------------- MODULE PortManager ----------------------------
(***************************************************************************)
(* The ports of a worker.  An owner (a transport or a WebRtcServer) opens  *)
(* the sockets of its listening addresses one by one in its constructor,   *)
(* on a port of the worker's range or on a given one, and gives them back  *)
(* when it is closed or when its constructor throws.  PortManager marks    *)
(* the ports of the range it handed out; other processes bind and release  *)
(* ports at any time, between two sockets of one owner as well.            *)
(***************************************************************************)
EXTENDS Integers, Sequences, FiniteSets, FiniteSetsExt

CONSTANTS
    Owners,
    Wishes,         \* for each owner, the sockets it opens, in order
    Ips,
    AnyIp,          \* the wildcard address, one of Ips
    MinPort, MaxPort,
    PortWord,       \* 2^16: the number of ports is a uint16_t
    MaxOthers       \* bound: sockets of other processes at a time

NoPort == -1
Protocols == {"udp", "tcp"}

ASSUME PortAssumption ==
    /\ {MinPort, MaxPort, PortWord, MaxOthers} \subseteq Nat
    /\ MinPort <= MaxPort /\ MaxPort < PortWord
    /\ AnyIp \in Ips
    /\ "none" \notin Owners
    /\ Wishes \in [Owners -> Seq([t : Protocols, ip : Ips, port : {NoPort} \cup 0..(PortWord - 1)])]

VARIABLES
    marked,     \* mapUdpIpPorts and mapTcpIpPorts: the entries that are true
    sockets,    \* the sockets of this worker
    alive,      \* the owners that exist
    building,   \* the owner whose constructor runs and what it has still to open
    others,     \* the sockets of other processes
    leaked      \* history: marks whose socket never came to be

portVars == <<marked, sockets, alive, building, others, leaked>>

Idle == [owner |-> "none", todo |-> << >>]

PortInit ==
    /\ marked = {} /\ sockets = {} /\ leaked = {} /\ others = {}
    /\ alive = {}
    /\ building = Idle

-----------------------------------------------------------------------------
(* The operating system refuses a bind to a port in use on that address.   *)

Conflict(s, t, ip, port) ==
    s.t = t /\ s.port = port /\ (s.ip = ip \/ AnyIp \in {s.ip, ip})

InUse(t, ip, port) == \E s \in sockets \cup others : Conflict(s, t, ip, port)

-----------------------------------------------------------------------------
(* PortManager.                                                            *)

NumPorts == (MaxPort - MinPort + 1) % PortWord

\* The random index from which the ports are tried.
Starts == IF NumPorts = 0 THEN {0} ELSE 0..(NumPorts - 1)

PortTried(start, attempt) == MinPort + ((start + attempt) % NumPorts)

\* The attempts that would succeed.
Attempts(t, ip, start) ==
    {k \in 1..NumPorts : /\ <<t, ip, PortTried(start, k)>> \notin marked
                         /\ ~InUse(t, ip, PortTried(start, k))}

\* Bind() without a port: the first port that can be bound, NoPort if it throws
\* "no more available ports".
BindPort(t, ip, start) ==
    LET attempts == Attempts(t, ip, start)
    IN  IF attempts = {} THEN NoPort ELSE PortTried(start, Min(attempts))

Mark(s) == <<s.t, s.ip, s.port>>

Socket(w, port) ==
    [t |-> w.t, ip |-> w.ip, port |-> port, fixed |-> w.port # NoPort, owner |-> building.owner]

-----------------------------------------------------------------------------
(* The constructors and destructors of the owners.                         *)

\* ~UdpSocket() and ~TcpServer() unbind what PortManager chose.
Unbound(S) == {Mark(s) : s \in {x \in S : ~x.fixed}}

SocketsOf(o) == {s \in sockets : s.owner = o}

DeleteSockets(o) ==
    /\ sockets' = sockets \ SocketsOf(o)
    /\ marked' = marked \ Unbound(SocketsOf(o))

\* Mutant: what was opened is not deleted.
Throw_KeepSockets ==
    /\ UNCHANGED <<sockets, marked>>
    /\ building' = Idle

\* The catch clause of a constructor: delete what was opened, throw again.
Throw ==
    /\ DeleteSockets(building.owner)
    /\ building' = Idle

Wish == Head(building.todo)

CreateOwner(o) ==
    /\ building = Idle /\ o \notin alive
    /\ building' = [owner |-> o, todo |-> Wishes[o]]
    /\ UNCHANGED <<marked, sockets, alive, others, leaked>>

Opened(s) ==
    /\ sockets' = sockets \cup {s}
    /\ marked' = IF s.fixed THEN marked ELSE marked \cup {Mark(s)}
    /\ building' = [building EXCEPT !.todo = Tail(@)]

BindRandom ==
    /\ building.todo # << >> /\ Wish.port = NoPort
    /\ \E start \in Starts :
          LET port == BindPort(Wish.t, Wish.ip, start)
          IN  port # NoPort /\ Opened(Socket(Wish, port))
    /\ UNCHANGED <<alive, others, leaked>>

BindFixed ==
    /\ building.todo # << >> /\ Wish.port # NoPort
    /\ ~InUse(Wish.t, Wish.ip, Wish.port)
    /\ Opened(Socket(Wish, Wish.port))
    /\ UNCHANGED <<alive, others, leaked>>

\* No port is available, or the given one is in use.
BindRefused ==
    /\ building.todo # << >>
    /\ IF Wish.port = NoPort
       THEN \E start \in Starts : BindPort(Wish.t, Wish.ip, start) = NoPort
       ELSE InUse(Wish.t, Wish.ip, Wish.port)
    /\ Throw
    /\ UNCHANGED <<alive, others, leaked>>

\* Too many open files, or the address is not one of the host.
BindFails ==
    /\ building.todo # << >>
    /\ Throw
    /\ UNCHANGED <<alive, others, leaked>>

\* Bind() succeeds and then the constructor of UdpSocketHandler or
\* TcpServerHandler throws: the handle is closed, and ~UdpSocket() or
\* ~TcpServer(), which would unbind the port, does not run.
StartFails ==
    /\ building.todo # << >> /\ Wish.port = NoPort
    /\ \E start \in Starts :
          LET port == BindPort(Wish.t, Wish.ip, start)
              mark == Mark(Socket(Wish, port))
          IN  /\ port # NoPort
              /\ sockets' = sockets \ SocketsOf(building.owner)
              /\ marked' = (marked \ Unbound(SocketsOf(building.owner))) \cup {mark}
              /\ leaked' = leaked \cup {mark}
    /\ building' = Idle
    /\ UNCHANGED <<alive, others>>

\* All sockets are open: the owner registers for requests.
Register ==
    /\ building # Idle /\ building.todo = << >>
    /\ alive' = alive \cup {building.owner}
    /\ building' = Idle
    /\ UNCHANGED <<marked, sockets, others, leaked>>

RegisterFails ==
    /\ building # Idle /\ building.todo = << >>
    /\ Throw
    /\ UNCHANGED <<alive, others, leaked>>

CloseOwner(o) ==
    /\ building = Idle /\ o \in alive
    /\ alive' = alive \ {o}
    /\ DeleteSockets(o)
    /\ UNCHANGED <<building, others, leaked>>

OtherBinds(t, ip, port) ==
    /\ Cardinality(others) < MaxOthers
    /\ ~InUse(t, ip, port)
    /\ others' = others \cup {[t |-> t, ip |-> ip, port |-> port]}
    /\ UNCHANGED <<marked, sockets, alive, building, leaked>>

OtherReleases(s) ==
    /\ others' = others \ {s}
    /\ UNCHANGED <<marked, sockets, alive, building, leaked>>

PortNext ==
    \/ \E o \in Owners : CreateOwner(o) \/ CloseOwner(o)
    \/ BindRandom \/ BindFixed \/ BindRefused \/ BindFails \/ StartFails
    \/ Register \/ RegisterFails
    \/ \E t \in Protocols, ip \in Ips, port \in MinPort..MaxPort : OtherBinds(t, ip, port)
    \/ \E s \in others : OtherReleases(s)

PortSpec == PortInit /\ [][PortNext]_portVars

-----------------------------------------------------------------------------
(* Properties.                                                             *)

\* Marks and sockets are on ports of the range, or on the port that was asked for.
PortTypeOK ==
    /\ marked \subseteq Protocols \X Ips \X (MinPort..MaxPort)
    /\ \A s \in sockets :
          /\ s.owner \in Owners
          /\ s.fixed \/ Mark(s) \in Protocols \X Ips \X (MinPort..MaxPort)
    /\ alive \subseteq Owners /\ building.owner \in Owners \cup {Idle.owner}
    /\ leaked \subseteq marked

\* PortManager::Unbind() and the constructors' catch clauses: whatever order
\* sockets are opened, fail and are closed in, a port is marked exactly while
\* a socket has it that PortManager chose a port for.  The only other marks
\* are those of sockets that failed to start.  In particular a socket on a
\* given port inside the range never clears the mark of another.
MarksExact ==
    LET chosen == {Mark(s) : s \in {x \in sockets : ~x.fixed}}
    IN  marked = chosen \cup leaked /\ chosen \cap leaked = {}

\* The constructors of transports and of WebRtcServer: an owner that exists has
\* all its sockets, and one whose constructor threw or that was closed has none.
AllOrNothing ==
    \A o \in Owners :
        Cardinality(SocketsOf(o)) =
            IF o \in alive THEN Len(Wishes[o])
            ELSE IF building.owner = o THEN Len(Wishes[o]) - Len(building.todo)
            ELSE 0

\* PortManager::Bind(): it throws "no more available ports" only when every
\* port of the range is marked or in use, whichever index it starts from.
BindFindsPort ==
    \A t \in Protocols, ip \in Ips, start \in Starts :
        BindPort(t, ip, start) = NoPort =>
            \A port \in MinPort..MaxPort : <<t, ip, port>> \in marked \/ InUse(t, ip, port)

\* An owner has all of its sockets or none, their ports are marked and no others, and a
\* port is found whenever one is free.  (PortManager.cpp Bind(), Unbind().)
PortsExact == PortTypeOK /\ MarksExact /\ AllOrNothing /\ BindFindsPort
=============================================================================
