------------------------------ MODULE Listener ------------------------------
(***************************************************************************)
(* The long-running listener: accept_loop's slots, one blocking handler    *)
(* for each connection, shutdown and drain, and the directory of the       *)
(* pre-receive hook.  Init is the state in which serve_async enters the    *)
(* loop.                                                                   *)
(*                                                                         *)
(* A handler authenticates its peer chunk by chunk, spawns receive-pack    *)
(* and wires it to the socket; what follows is one step here, as Exchange  *)
(* models it and shows that it ends.                                       *)
(***************************************************************************)
EXTENDS Naturals, Sequences, FiniteSets

CONSTANTS
    Conns,           \* connections peers may open, each once
    MaxConnections,  \* config.max_connections
    Token,           \* TRUE: pushes must present the shared secret
    Preamble,        \* reads the preamble takes (header, payload, in pieces)
    MaxErrors        \* bound: how often accept may fail

ASSUME ListenerAssumption ==
    /\ IsFiniteSet(Conns)
    /\ MaxConnections \in Nat \ {0}
    /\ Token \in BOOLEAN
    /\ Preamble \in Nat \ {0}
    /\ MaxErrors \in Nat

VARIABLES
    loop,      \* accept_loop: waiting for a slot, for a peer, draining, gone
    shutdown,  \* the shutdown future has resolved
    permits,   \* the semaphore's free permits
    backlog,   \* peers the kernel has connected, in order
    conn,      \* where a connection is
    left,      \* reads its preamble still needs
    child,     \* its receive-pack: wired to the socket, cut off from it
    hooks,     \* the hooks directory exists
    errors     \* failed accepts so far

vars == <<loop, shutdown, permits, backlog, conn, left, child, hooks, errors>>

Handling == {"auth", "refuse", "spawn", "wire", "exchange", "returned"}

\* A connection whose task is in the JoinSet.
Busy(c) == conn[c] \in Handling

TypeOK ==
    /\ loop \in {"slot", "accept", "drain", "gone"}
    /\ shutdown \in BOOLEAN
    /\ permits \in 0 .. MaxConnections
    /\ backlog \in Seq(Conns)
    /\ conn \in [Conns -> {"away", "backlog", "ended"} \cup Handling]
    /\ left \in [Conns -> 0 .. Preamble]
    /\ child \in [Conns -> {"none", "wired", "cut", "gone"}]
    /\ hooks \in BOOLEAN
    /\ errors \in Nat

Init ==
    /\ loop = "slot"
    /\ shutdown = FALSE
    /\ permits = MaxConnections
    /\ backlog = <<>>
    /\ conn = [c \in Conns |-> "away"]
    /\ left = [c \in Conns |-> Preamble]
    /\ child = [c \in Conns |-> "none"]
    /\ hooks = TRUE
    /\ errors = 0

-----------------------------------------------------------------------------
(* Peers and signals.                                                      *)

Connect(c) ==
    /\ loop # "gone"
    /\ conn[c] = "away"
    /\ conn' = [conn EXCEPT ![c] = "backlog"]
    /\ backlog' = Append(backlog, c)
    /\ UNCHANGED <<loop, shutdown, permits, left, child, hooks, errors>>

ShutdownSignal ==
    /\ ~shutdown
    /\ shutdown' = TRUE
    /\ UNCHANGED <<loop, permits, backlog, conn, left, child, hooks, errors>>

-----------------------------------------------------------------------------
(* accept_loop.  Both selects are biased to the shutdown.                  *)

\* Mutant: the loop goes on without a permit.
AcquireNothing ==
    /\ loop = "slot"
    /\ ~shutdown
    /\ permits' = permits - 1
    /\ loop' = "accept"
    /\ UNCHANGED <<shutdown, backlog, conn, left, child, hooks, errors>>

AcquirePermit ==
    /\ loop = "slot"
    /\ ~shutdown
    /\ permits > 0
    /\ permits' = permits - 1
    /\ loop' = "accept"
    /\ UNCHANGED <<shutdown, backlog, conn, left, child, hooks, errors>>

Accept ==
    /\ loop = "accept"
    /\ ~shutdown
    /\ backlog # <<>>
    /\ backlog' = Tail(backlog)
    /\ conn' = [conn EXCEPT ![Head(backlog)] = IF Token THEN "auth" ELSE "spawn"]
    /\ loop' = "slot"
    /\ UNCHANGED <<shutdown, permits, left, child, hooks, errors>>

\* Mutant: the permit in hand is forgotten when accept fails.
AcceptFailsLeakingPermit ==
    /\ loop = "accept"
    /\ ~shutdown
    /\ errors < MaxErrors
    /\ errors' = errors + 1
    /\ loop' = "slot"
    /\ UNCHANGED <<shutdown, permits, backlog, conn, left, child, hooks>>

AcceptFails ==
    /\ loop = "accept"
    /\ ~shutdown
    /\ errors < MaxErrors
    /\ errors' = errors + 1
    /\ permits' = permits + 1
    /\ loop' = "slot"
    /\ UNCHANGED <<shutdown, backlog, conn, left, child, hooks>>

\* Mutant: only the wait for a permit races the shutdown.
BreakAtSlot ==
    /\ loop = "slot"
    /\ shutdown
    /\ loop' = "drain"
    /\ UNCHANGED <<shutdown, permits, backlog, conn, left, child, hooks, errors>>

Break ==
    /\ loop \in {"slot", "accept"}
    /\ shutdown
    /\ loop' = "drain"
    /\ permits' = IF loop = "accept" THEN permits + 1 ELSE permits
    /\ UNCHANGED <<shutdown, backlog, conn, left, child, hooks, errors>>

\* Mutant: the loop returns without draining.
ReturnUndrained ==
    /\ loop = "drain"
    /\ loop' = "gone"
    /\ hooks' = FALSE
    /\ UNCHANGED <<shutdown, permits, backlog, conn, left, child, errors>>

\* Every task has been joined: the loop returns, its listener closes, and
\* serve_async drops the hooks.
Return ==
    /\ loop = "drain"
    /\ \A c \in Conns : ~Busy(c)
    /\ loop' = "gone"
    /\ hooks' = FALSE
    /\ UNCHANGED <<shutdown, permits, backlog, conn, left, child, errors>>

-----------------------------------------------------------------------------
(* One connection's task and handler.                                      *)

Advance(c, from, to) ==
    /\ conn[c] = from
    /\ conn' = [conn EXCEPT ![c] = to]
    /\ UNCHANGED <<loop, shutdown, permits, backlog, hooks, errors>>

\* The socket cannot be prepared, or the handler's first calls fail.
TaskFails(c) ==
    /\ \/ left[c] = Preamble /\ Advance(c, "auth", "returned")
       \/ Advance(c, "spawn", "returned")
    /\ UNCHANGED <<left, child>>

\* read_exact: another piece arrives before the read deadline.
ReadPiece(c) ==
    /\ left[c] > 1
    /\ Advance(c, "auth", "auth")
    /\ left' = [left EXCEPT ![c] = @ - 1]
    /\ UNCHANGED child

\* The last piece arrives, and the token is the expected one.
TokenMatches(c) ==
    /\ left[c] = 1
    /\ Advance(c, "auth", "spawn")
    /\ left' = [left EXCEPT ![c] = 0]
    /\ UNCHANGED child

\* The peer hangs up, is silent for the length of the deadline, or sends what
\* is no preamble or not the token.
AuthFails(c) ==
    /\ Advance(c, "auth", "refuse")
    /\ UNCHANGED <<left, child>>

\* The ERR pkt-line and the shutdown, both best effort.
Refuse(c) ==
    /\ Advance(c, "refuse", "returned")
    /\ UNCHANGED <<left, child>>

SpawnReceivePack(c) ==
    /\ Advance(c, "spawn", "wire")
    /\ child' = [child EXCEPT ![c] = "cut"]
    /\ UNCHANGED left

\* A socket cannot be cloned, or a thread not started: the handler is gone,
\* and the child is left with nobody to read its advertisement, so that no
\* command ever reaches it.
WireFails(c) ==
    /\ Advance(c, "wire", "returned")
    /\ UNCHANGED <<left, child>>

Wire(c) ==
    /\ Advance(c, "wire", "exchange")
    /\ child' = [child EXCEPT ![c] = "wired"]
    /\ UNCHANGED left

\* The child is waited for and both pumps are joined (module Exchange).
ExchangeEnds(c) ==
    /\ Advance(c, "exchange", "returned")
    /\ child' = [child EXCEPT ![c] = "gone"]
    /\ UNCHANGED left

\* A child that was cut off from the socket finds its pipes closed.
OrphanExits(c) ==
    /\ child[c] = "cut"
    /\ conn[c] \in {"returned", "ended"}
    /\ child' = [child EXCEPT ![c] = "gone"]
    /\ UNCHANGED <<loop, shutdown, permits, backlog, conn, left, hooks, errors>>

\* The task awakes, drops its permit and leaves the JoinSet.
Release(c) ==
    /\ conn[c] = "returned"
    /\ conn' = [conn EXCEPT ![c] = "ended"]
    /\ permits' = permits + 1
    /\ UNCHANGED <<loop, shutdown, backlog, left, child, hooks, errors>>

-----------------------------------------------------------------------------
Handle(c) ==
    \/ ReadPiece(c) \/ TokenMatches(c) \/ AuthFails(c) \/ Refuse(c)
    \/ SpawnReceivePack(c) \/ Wire(c) \/ ExchangeEnds(c) \/ Release(c)
    \/ TaskFails(c) \/ WireFails(c)

AcceptLoop == AcquirePermit \/ Accept \/ Break \/ Return

Next ==
    \/ AcceptLoop \/ AcceptFails \/ ShutdownSignal
    \/ \E c \in Conns : Connect(c) \/ Handle(c) \/ OrphanExits(c)

Spec == Init /\ [][Next]_vars

\* The runtime schedules the loop and every handler; a blocked preamble read
\* ends with a piece, an end of stream or its deadline, an exchange as
\* Exchange shows, with the watchdog if need be.
FairSpec ==
    /\ Spec
    /\ WF_vars(AcceptLoop)
    /\ \A c \in Conns : WF_vars(Handle(c))
-----------------------------------------------------------------------------
(* Properties.                                                             *)

\* Every permit is free, in the loop's hand, or with exactly one task: no way
\* through the loop or a handler leaks a slot or frees one twice.
PermitsConserved ==
    permits + (IF loop = "accept" THEN 1 ELSE 0)
            + Cardinality({c \in Conns : Busy(c)}) = MaxConnections

\* The hook that confines a push to the namespace is on disk for as long as a
\* receive-pack that a peer can talk to runs; without it every ref would be
\* accepted.
HooksWhileWired ==
    \A c \in Conns : child[c] = "wired" => hooks

\* A shutdown is seen wherever the loop waits, and everything drains: the
\* listener stops.
ShutdownCompletes == shutdown ~> loop = "gone"

\* However many peers queue at the cap, fail or fall silent, a connection is
\* taken up unless the listener shuts down first.
BacklogServed ==
    \A c \in Conns : conn[c] = "backlog" ~> conn[c] # "backlog" \/ shutdown
=============================================================================
