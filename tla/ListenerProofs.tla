---------------------------- MODULE ListenerProofs ----------------------------
(***************************************************************************)
(* Theorems about Listener, for any finite set of connections and any      *)
(* number of slots: no slot is leaked or freed twice, and the hook is in   *)
(* place while a receive-pack that a peer can talk to runs.                *)
(***************************************************************************)
EXTENDS Listener, FiniteSetTheorems, SequenceTheorems, TLAPS

BusyConns == {c \in Conns : Busy(c)}

InHand == IF loop = "accept" THEN 1 ELSE 0

\* The types but for the upper bound on the permits, which the count gives.
ShapeOK ==
    /\ loop \in {"slot", "accept", "drain", "gone"}
    /\ shutdown \in BOOLEAN
    /\ permits \in Nat
    /\ backlog \in Seq(Conns)
    /\ conn \in [Conns -> {"away", "backlog", "ended"} \cup Handling]
    /\ left \in [Conns -> 0 .. Preamble]
    /\ child \in [Conns -> {"none", "wired", "cut", "gone"}]
    /\ hooks \in BOOLEAN
    /\ errors \in Nat

\* A connection is queued at most once, and only before it is accepted.
BacklogInv ==
    /\ \A i \in 1 .. Len(backlog) : conn[backlog[i]] = "backlog"
    /\ \A i, j \in 1 .. Len(backlog) : backlog[i] = backlog[j] => i = j

\* The hooks go last, after every task; a wired child has its handler.
HookInv ==
    /\ loop # "gone" => hooks
    /\ loop = "gone" => BusyConns = {}
    /\ \A c \in Conns : child[c] = "wired" => conn[c] = "exchange"

Inv == ShapeOK /\ BacklogInv /\ HookInv /\ PermitsConserved

-----------------------------------------------------------------------------
(* Counting tasks.                                                         *)

\* There are finitely many tasks.
LEMMA BusyFinite == IsFiniteSet(BusyConns) /\ Cardinality(BusyConns) \in Nat
<1>1. IsFiniteSet(BusyConns)
  BY ListenerAssumption, FS_Subset DEF BusyConns
<1> QED
  BY <1>1, FS_CardinalityType

\* A task that starts is one more.
LEMMA OneMore ==
    ASSUME NEW c \in Conns, ~Busy(c), BusyConns' = BusyConns \cup {c}
    PROVE  Cardinality(BusyConns') = Cardinality(BusyConns) + 1
BY BusyFinite, FS_AddElement DEF BusyConns

\* A task that ends is one fewer.
LEMMA OneFewer ==
    ASSUME NEW c \in Conns, Busy(c), BusyConns' = BusyConns \ {c}
    PROVE  Cardinality(BusyConns') = Cardinality(BusyConns) - 1
BY BusyFinite, FS_RemoveElement DEF BusyConns

-----------------------------------------------------------------------------
\* The initial state.
LEMMA InitInv == ASSUME Init PROVE Inv
<1>1. ShapeOK
  <2>1. permits \in Nat /\ errors \in Nat /\ left \in [Conns -> 0 .. Preamble]
    BY ListenerAssumption DEF Init
  <2>2. backlog \in Seq(Conns)
    BY EmptySeq DEF Init
  <2>3. /\ conn \in [Conns -> {"away", "backlog", "ended"} \cup Handling]
        /\ child \in [Conns -> {"none", "wired", "cut", "gone"}]
    BY DEF Init
  <2>4. /\ loop \in {"slot", "accept", "drain", "gone"}
        /\ shutdown \in BOOLEAN /\ hooks \in BOOLEAN
    BY DEF Init
  <2> QED
    BY <2>1, <2>2, <2>3, <2>4 DEF ShapeOK
<1>2. BusyConns = {}
  BY DEF Init, BusyConns, Busy, Handling
<1>3. PermitsConserved
  <2>1. Cardinality(BusyConns) = 0
    BY <1>2, FS_EmptySet
  <2>2. loop = "slot" /\ permits = MaxConnections /\ MaxConnections \in Nat
    BY ListenerAssumption DEF Init
  <2> QED
    BY <2>1, <2>2 DEF PermitsConserved, BusyConns
<1> QED
  BY <1>1, <1>2, <1>3 DEF Init, Inv, BacklogInv, HookInv

\* Steps that leave every connection where it is, and the queue.
LEMMA LoopSteps ==
    ASSUME Inv,
           \/ ShutdownSignal \/ AcquirePermit \/ AcceptFails \/ Break \/ Return
    PROVE  Inv'
<1>1. UNCHANGED <<backlog, conn, left, child>>
  BY DEF ShutdownSignal, AcquirePermit, AcceptFails, Break, Return
<1>2. BusyConns' = BusyConns
  BY <1>1 DEF BusyConns, Busy
<1>3. ShapeOK'
  <2>1. permits' \in Nat /\ errors' \in Nat
    BY DEF Inv, ShapeOK, ShutdownSignal, AcquirePermit, AcceptFails, Break,
           Return
  <2>2. loop' \in {"slot", "accept", "drain", "gone"}
    BY DEF Inv, ShapeOK, ShutdownSignal, AcquirePermit, AcceptFails, Break,
           Return
  <2>3. shutdown' \in BOOLEAN /\ hooks' \in BOOLEAN
    BY DEF Inv, ShapeOK, ShutdownSignal, AcquirePermit, AcceptFails, Break,
           Return
  <2> QED
    BY <1>1, <2>1, <2>2, <2>3 DEF Inv, ShapeOK
<1>4. BacklogInv'
  BY <1>1 DEF Inv, BacklogInv
<1>5. HookInv'
  <2>1. Return => BusyConns = {}
    BY DEF Return, BusyConns
  <2>2. Return \/ (loop' # "gone" /\ hooks' = hooks /\ loop # "gone")
               \/ (loop' = loop /\ hooks' = hooks)
    BY DEF ShutdownSignal, AcquirePermit, AcceptFails, Break
  <2> QED
    BY <1>1, <1>2, <2>1, <2>2 DEF Inv, HookInv, Return
<1>6. permits' + InHand' = permits + InHand
  BY DEF Inv, ShapeOK, InHand, ShutdownSignal, AcquirePermit, AcceptFails,
         Break, Return
<1>7. PermitsConserved'
  <2>1. PermitsConserved <=>
            permits + InHand + Cardinality(BusyConns) = MaxConnections
    BY DEF PermitsConserved, InHand, BusyConns
  <2>2. PermitsConserved' <=>
            permits' + InHand' + Cardinality(BusyConns') = MaxConnections
    BY DEF PermitsConserved, InHand, BusyConns
  <2> QED
    BY <1>2, <1>6, <2>1, <2>2 DEF Inv
<1> QED
  BY <1>3, <1>4, <1>5, <1>7 DEF Inv

\* A peer joins the end of the queue.
LEMMA ConnectStep ==
    ASSUME Inv, NEW c \in Conns, Connect(c)
    PROVE  Inv'
<1>1. /\ backlog \in Seq(Conns) /\ Len(backlog) \in Nat
      /\ backlog' = Append(backlog, c)
  BY LenProperties DEF Inv, ShapeOK, Connect
<1>2. /\ backlog' \in Seq(Conns)
      /\ Len(backlog') = Len(backlog) + 1
      /\ \A i \in 1 .. Len(backlog) : backlog'[i] = backlog[i]
      /\ backlog'[Len(backlog) + 1] = c
  BY <1>1, AppendProperties
<1>3. /\ conn \in [Conns -> {"away", "backlog", "ended"} \cup Handling]
      /\ conn' = [conn EXCEPT ![c] = "backlog"] /\ conn[c] = "away"
  BY DEF Inv, ShapeOK, Connect
<1>4. UNCHANGED <<loop, shutdown, permits, left, child, hooks, errors>>
  BY DEF Connect
<1>5. \A i \in 1 .. Len(backlog) : backlog[i] \in Conns /\ backlog[i] # c
  BY <1>1, <1>3, ElementOfSeq DEF Inv, BacklogInv
<1>6. ShapeOK'
  BY <1>2, <1>3, <1>4 DEF Inv, ShapeOK
<1>7. BacklogInv'
  <2>1. ASSUME NEW i \in 1 .. Len(backlog')
        PROVE  conn'[backlog'[i]] = "backlog"
    <3>1. CASE i \in 1 .. Len(backlog)
      BY <1>2, <1>3, <1>5, <3>1 DEF Inv, BacklogInv
    <3>2. CASE i = Len(backlog) + 1
      BY <1>2, <1>3, <3>2
    <3> QED
      BY <1>1, <1>2, <3>1, <3>2
  <2>2. ASSUME NEW i \in 1 .. Len(backlog'), NEW j \in 1 .. Len(backlog'),
               backlog'[i] = backlog'[j]
        PROVE  i = j
    <3>1. /\ i \in 1 .. Len(backlog) \/ i = Len(backlog) + 1
          /\ j \in 1 .. Len(backlog) \/ j = Len(backlog) + 1
      BY <1>1, <1>2
    <3> QED
      BY <1>2, <1>5, <2>2, <3>1 DEF Inv, BacklogInv
  <2> QED
    BY <2>1, <2>2 DEF BacklogInv
<1>8. BusyConns' = BusyConns
  BY <1>3 DEF BusyConns, Busy, Handling
<1>9. HookInv'
  BY <1>3, <1>4, <1>8 DEF Inv, HookInv
<1>10. PermitsConserved'
  BY <1>4, <1>8 DEF Inv, PermitsConserved, BusyConns
<1> QED
  BY <1>6, <1>7, <1>9, <1>10 DEF Inv

\* The permit in the loop's hand goes to the new task.
LEMMA AcceptStep ==
    ASSUME Inv, Accept
    PROVE  Inv'
<1> DEFINE c == Head(backlog)
<1>1. backlog \in Seq(Conns) /\ backlog # <<>>
  BY DEF Inv, ShapeOK, Accept
<1>2. /\ c = backlog[1] /\ c \in Conns
      /\ Tail(backlog) \in Seq(Conns)
      /\ Len(Tail(backlog)) = Len(backlog) - 1
      /\ \A i \in 1 .. Len(Tail(backlog)) : Tail(backlog)[i] = backlog[i + 1]
  BY <1>1, HeadTailProperties
<1>3. Len(backlog) \in Nat /\ Len(backlog) > 0
  BY <1>1, EmptySeq, LenProperties
<1>4. conn[c] = "backlog"
  BY <1>2, <1>3 DEF Inv, BacklogInv
<1>5. PICK s \in {"auth", "spawn"} : conn' = [conn EXCEPT ![c] = s]
  BY DEF Accept
<1>6. /\ loop = "accept" /\ loop' = "slot" /\ backlog' = Tail(backlog)
      /\ UNCHANGED <<shutdown, permits, left, child, hooks, errors>>
  BY DEF Accept
<1>7. ShapeOK'
  BY <1>2, <1>5, <1>6 DEF Inv, ShapeOK, Handling
<1>8. ~Busy(c) /\ BusyConns' = BusyConns \cup {c}
  BY <1>2, <1>4, <1>5 DEF Inv, ShapeOK, BusyConns, Busy, Handling
<1>9. BacklogInv'
  <2>1. ASSUME NEW i \in 1 .. Len(backlog')
        PROVE  /\ i + 1 \in 1 .. Len(backlog) /\ backlog'[i] = backlog[i + 1]
               /\ backlog'[i] \in Conns /\ backlog'[i] # c
    <3>1. i + 1 \in 1 .. Len(backlog) /\ backlog'[i] = backlog[i + 1]
      BY <1>2, <1>3, <1>6
    <3>2. backlog[i + 1] \in Conns
      BY <1>1, <3>1, ElementOfSeq
    <3>3. backlog[i + 1] # backlog[1]
      BY <1>3, <3>1 DEF Inv, BacklogInv
    <3> QED
      BY <1>2, <3>1, <3>2, <3>3
  <2>2. \A i \in 1 .. Len(backlog') : conn'[backlog'[i]] = "backlog"
    BY <1>5, <2>1 DEF Inv, ShapeOK, BacklogInv
  <2>3. ASSUME NEW i \in 1 .. Len(backlog'), NEW j \in 1 .. Len(backlog'),
               backlog'[i] = backlog'[j]
        PROVE  i = j
    <3>1. i + 1 = j + 1
      BY <2>1, <2>3 DEF Inv, BacklogInv
    <3> QED
      BY <3>1, <1>2, <1>3, <1>6
  <2> QED
    BY <2>2, <2>3 DEF BacklogInv
<1>10. HookInv'
  BY <1>2, <1>4, <1>5, <1>6 DEF Inv, ShapeOK, HookInv
<1>11. PermitsConserved'
  <2>1. Cardinality(BusyConns') = Cardinality(BusyConns) + 1
    BY <1>2, <1>8, OneMore
  <2>2. permits + 1 + Cardinality(BusyConns) = MaxConnections
    BY <1>6 DEF Inv, PermitsConserved, BusyConns
  <2>3. permits' + 0 + Cardinality(BusyConns') = MaxConnections
    BY <1>6, <2>1, <2>2, BusyFinite DEF Inv, ShapeOK
  <2> QED
    BY <1>6, <2>3 DEF PermitsConserved, BusyConns
<1> QED
  BY <1>7, <1>9, <1>10, <1>11 DEF Inv

-----------------------------------------------------------------------------
(* Tasks.                                                                  *)

\* What a step of a handler does short of its end: the connection stays a
\* task, and a child is wired only in the exchange.
HandlerMoves(c) ==
    /\ Busy(c)
    /\ \E to \in Handling :
          /\ conn' = [conn EXCEPT ![c] = to]
          /\ \A d \in Conns \ {c} : child'[d] = child[d]
          /\ child'[c] = "wired" => to = "exchange"
    /\ left' \in [Conns -> 0 .. Preamble]
    /\ child' \in [Conns -> {"none", "wired", "cut", "gone"}]
    /\ UNCHANGED <<loop, shutdown, permits, backlog, hooks, errors>>

\* Such a step keeps the invariant.
LEMMA HandlerMovesKeep ==
    ASSUME Inv, NEW c \in Conns, HandlerMoves(c)
    PROVE  Inv'
<1>1. PICK to \in Handling :
          /\ conn' = [conn EXCEPT ![c] = to]
          /\ \A d \in Conns \ {c} : child'[d] = child[d]
          /\ child'[c] = "wired" => to = "exchange"
  BY DEF HandlerMoves
<1>2. /\ Busy(c)
      /\ UNCHANGED <<loop, shutdown, permits, backlog, hooks, errors>>
      /\ conn \in [Conns -> {"away", "backlog", "ended"} \cup Handling]
  BY DEF HandlerMoves, Inv, ShapeOK
<1>3. ShapeOK'
  BY <1>1, <1>2 DEF HandlerMoves, Inv, ShapeOK
<1>4. BusyConns' = BusyConns
  BY <1>1, <1>2 DEF BusyConns, Busy
<1>5. BacklogInv'
  <2>1. \A i \in 1 .. Len(backlog) : backlog[i] # c
    BY <1>2 DEF Inv, BacklogInv, Busy, Handling
  <2>2. \A i \in 1 .. Len(backlog) : backlog[i] \in Conns
    BY ElementOfSeq DEF Inv, ShapeOK
  <2> QED
    BY <1>1, <1>2, <2>1, <2>2 DEF Inv, BacklogInv
<1>6. HookInv'
  BY <1>1, <1>2, <1>4 DEF Inv, HookInv
<1>7. PermitsConserved'
  BY <1>2, <1>4 DEF Inv, PermitsConserved, BusyConns
<1> QED
  BY <1>3, <1>5, <1>6, <1>7 DEF Inv

\* The handler's steps are such steps.
LEMMA HandlerSteps ==
    ASSUME Inv, NEW c \in Conns, Handle(c), ~Release(c)
    PROVE  Inv'
<1>0. /\ left \in [Conns -> 0 .. Preamble] /\ Preamble \in Nat \ {0}
      /\ child \in [Conns -> {"none", "wired", "cut", "gone"}]
      /\ child[c] = "wired" => conn[c] = "exchange"
  BY ListenerAssumption DEF Inv, ShapeOK, HookInv
<1>1. CASE ReadPiece(c)
  <2>1. left' \in [Conns -> 0 .. Preamble]
    BY <1>0, <1>1 DEF ReadPiece
  <2> QED
    BY <1>0, <1>1, <2>1, HandlerMovesKeep
       DEF ReadPiece, Advance, HandlerMoves, Busy, Handling
<1>2. CASE TokenMatches(c)
  <2>1. left' \in [Conns -> 0 .. Preamble]
    BY <1>0, <1>2 DEF TokenMatches
  <2> QED
    BY <1>0, <1>2, <2>1, HandlerMovesKeep
       DEF TokenMatches, Advance, HandlerMoves, Busy, Handling
<1>3. CASE AuthFails(c) \/ Refuse(c) \/ WireFails(c) \/ TaskFails(c)
  <2>1. /\ UNCHANGED <<left, child>>
        /\ \E from \in Handling \ {"exchange"}, to \in Handling :
              Advance(c, from, to)
    BY <1>3 DEF AuthFails, Refuse, WireFails, TaskFails, Handling
  <2> QED
    BY <1>0, <2>1, HandlerMovesKeep DEF Advance, HandlerMoves, Busy
<1>4. CASE SpawnReceivePack(c)
  BY <1>0, <1>4, HandlerMovesKeep
     DEF SpawnReceivePack, Advance, HandlerMoves, Busy, Handling
<1>5. CASE Wire(c)
  BY <1>0, <1>5, HandlerMovesKeep
     DEF Wire, Advance, HandlerMoves, Busy, Handling
<1>6. CASE ExchangeEnds(c)
  BY <1>0, <1>6, HandlerMovesKeep
     DEF ExchangeEnds, Advance, HandlerMoves, Busy, Handling
<1> QED
  BY <1>1, <1>2, <1>3, <1>4, <1>5, <1>6 DEF Handle

\* A task that ends gives its permit back.
LEMMA ReleaseStep ==
    ASSUME Inv, NEW c \in Conns, Release(c)
    PROVE  Inv'
<1>1. /\ conn[c] = "returned" /\ conn' = [conn EXCEPT ![c] = "ended"]
      /\ permits' = permits + 1
      /\ UNCHANGED <<loop, shutdown, backlog, left, child, hooks, errors>>
      /\ conn \in [Conns -> {"away", "backlog", "ended"} \cup Handling]
      /\ permits \in Nat
  BY DEF Release, Inv, ShapeOK
<1>2. Busy(c) /\ BusyConns' = BusyConns \ {c}
  BY <1>1 DEF BusyConns, Busy, Handling
<1>3. ShapeOK'
  BY <1>1 DEF Inv, ShapeOK
<1>4. BacklogInv'
  <2>1. \A i \in 1 .. Len(backlog) : backlog[i] # c
    BY <1>1 DEF Inv, BacklogInv
  <2>2. \A i \in 1 .. Len(backlog) : backlog[i] \in Conns
    BY ElementOfSeq DEF Inv, ShapeOK
  <2> QED
    BY <1>1, <2>1, <2>2 DEF Inv, BacklogInv
<1>5. HookInv'
  BY <1>1, <1>2 DEF Inv, HookInv
<1>6. PermitsConserved'
  <2>1. Cardinality(BusyConns') = Cardinality(BusyConns) - 1
    BY <1>2, OneFewer
  <2>2. permits + InHand + Cardinality(BusyConns) = MaxConnections
    BY DEF Inv, PermitsConserved, BusyConns, InHand
  <2>3. InHand' = InHand /\ InHand \in Nat
    BY <1>1 DEF InHand
  <2>4. permits' + InHand' + Cardinality(BusyConns') = MaxConnections
    BY <1>1, <2>1, <2>2, <2>3, BusyFinite
  <2> QED
    BY <2>4 DEF PermitsConserved, BusyConns, InHand
<1> QED
  BY <1>3, <1>4, <1>5, <1>6 DEF Inv

\* A child that was cut off ends on its own.
LEMMA OrphanStep ==
    ASSUME Inv, NEW c \in Conns, OrphanExits(c)
    PROVE  Inv'
<1>1. /\ child' = [child EXCEPT ![c] = "gone"]
      /\ UNCHANGED <<loop, shutdown, permits, backlog, conn, left, hooks, errors>>
  BY DEF OrphanExits
<1>2. BusyConns' = BusyConns
  BY <1>1 DEF BusyConns, Busy
<1> QED
  BY <1>1, <1>2
     DEF Inv, ShapeOK, BacklogInv, HookInv, PermitsConserved, BusyConns

\* The invariant holds.
LEMMA ListenerInv == Spec => []Inv
<1>1. Inv /\ [Next]_vars => Inv'
  <2> SUFFICES ASSUME Inv, [Next]_vars PROVE Inv'
    OBVIOUS
  <2>1. CASE UNCHANGED vars
    BY <2>1
       DEF vars, Inv, ShapeOK, BacklogInv, HookInv, PermitsConserved,
           BusyConns, Busy
  <2> QED
    BY <2>1, LoopSteps, AcceptStep, ConnectStep, HandlerSteps, ReleaseStep,
       OrphanStep
       DEF Next, AcceptLoop
<1> QED
  BY <1>1, InitInv, PTL DEF Spec

-----------------------------------------------------------------------------
\* accept_loop and its tasks conserve the permits: whatever fails, none is
\* leaked and none is freed twice.
THEOREM SlotsAreKept == Spec => []PermitsConserved
BY ListenerInv, PTL DEF Inv

\* Every variable keeps its type; in particular there are never more permits
\* than slots.
THEOREM TypeInvariant == Spec => []TypeOK
<1>1. Inv => TypeOK
  <2> SUFFICES ASSUME Inv PROVE TypeOK
    OBVIOUS
  <2>1. permits + InHand + Cardinality(BusyConns) = MaxConnections
    BY DEF Inv, PermitsConserved, BusyConns, InHand
  <2>2. InHand \in Nat /\ permits \in Nat
    BY DEF InHand, Inv, ShapeOK
  <2>3. permits \in 0 .. MaxConnections
    BY <2>1, <2>2, BusyFinite, ListenerAssumption
  <2> QED
    BY <2>3 DEF Inv, ShapeOK, TypeOK
<1> QED
  BY <1>1, ListenerInv, PTL

\* serve_async drops the hooks directory only after every task is joined, so
\* no receive-pack that a peer can talk to runs without the hook.
THEOREM HooksStay == Spec => []HooksWhileWired
<1>1. Inv => HooksWhileWired
  BY DEF Inv, HookInv, ShapeOK, HooksWhileWired, BusyConns, Busy, Handling
<1> QED
  BY <1>1, ListenerInv, PTL
=============================================================================
