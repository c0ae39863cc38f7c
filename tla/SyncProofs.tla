------------------------------ MODULE SyncProofs ------------------------------
(***************************************************************************)
(* Theorems about Sync, for every set of invocations, streams and commits: *)
(* first those that hold however syncs overlap, then what Sync promises a  *)
(* user who never overlaps two syncs of one stream, its safety properties  *)
(* and that it implements SyncedState.                                     *)
(***************************************************************************)
EXTENDS SyncRefinement, TLAPS

\* Moving one ref of a table of refs yields a table of refs.
LEMMA MoveRef ==
    ASSUME NEW T, NEW refs \in [Streams -> [Chains -> T]],
           NEW s \in Streams, NEW c \in Chains, NEW v \in T
    PROVE  [refs EXCEPT ![s][c] = v] \in [Streams -> [Chains -> T]]
OBVIOUS

\* The id of a commit just written is one no commit had.
LEMMA FreshId ==
    ASSUME NEW id \in FreshIds
    PROVE  id \in Commits /\ id \notin written
<1>1. PICK k \in Commits : k \notin written
  BY DEF FreshIds
<1>2. id = CHOOSE fresh \in Commits : fresh \notin written
  BY DEF FreshIds
<1> QED
  BY <1>1, <1>2

-----------------------------------------------------------------------------
(* Type correctness.                                                       *)

\* What an exchange's status says of the invocation that opened it.
StatusInv ==
    \A p \in Syncs :
        /\ phase[p] \in {"idle", "read", "write", "open", "advertise"} =>
              status[p] = "none"
        /\ phase[p] = "retain" => status[p] = "ok"
        /\ status[p] # "none" => phase[p] # "idle"

\* An encoder's read keeps the types.
LEMMA ReadTypes ==
    ASSUME TypeOK, StatusInv, NEW p \in Syncs, ReadCode(p) \/ ReadExtra(p)
    PROVE  TypeOK' /\ StatusInv'
<1>1. PICK c \in Chains, tip \in Ref : Read(p, c, tip)
  BY DEF ReadCode, ReadExtra, TypeOK, Chains, Ref, Read
<1> QED
  BY <1>1 DEF Read, TypeOK, StatusInv, Phases, clientVars, serverVars,
              observers

\* Writing a commit keeps the types.
LEMMA WriteTypes ==
    ASSUME TypeOK, StatusInv, NEW p \in Syncs, WriteCode(p) \/ WriteExtra(p)
    PROVE  TypeOK' /\ StatusInv'
<1>1. PICK c \in Chains, id \in FreshIds : WriteSynthCommit(p, c, id)
  BY DEF WriteCode, WriteExtra, Chains
<1>2. id \in Commits
  BY FreshId
<1>3. phase[p] = "write" /\ stream[p] \in Streams
  BY <1>1 DEF WriteSynthCommit, TypeOK
<1>4. history' \in [Commits -> SUBSET Commits]
  BY <1>1, <1>2 DEF WriteSynthCommit, TypeOK, Ref
<1>5. local' \in [Streams -> [Chains -> Ref]]
  BY <1>1, <1>2, <1>3, MoveRef DEF WriteSynthCommit, TypeOK, Ref
<1>6. own' \in [Syncs -> [Chains -> Ref]]
  BY <1>1, <1>2 DEF WriteSynthCommit, TypeOK, Ref
<1>7. /\ phase' \in [Syncs -> Phases]
      /\ chain' \in [Syncs -> Chains]
      /\ phase'[p] \in {"read", "open"}
      /\ \A q \in Syncs : q # p => phase'[q] = phase[q]
  BY DEF WriteCode, WriteExtra, TypeOK, Phases, Chains
<1>8. /\ written' \subseteq Commits
      /\ tree' \in [Commits -> Nat]
      /\ snap' \in [Syncs -> Nat]
      /\ parent' \in [Syncs -> Ref]
  BY <1>1, <1>2 DEF WriteSynthCommit, TypeOK, Ref
<1>9. UNCHANGED <<work, sent, stream, src, status, old, srv, received,
                  forgotten, acked>>
  BY <1>1 DEF WriteSynthCommit, serverVars, observers
<1>10. TypeOK'
  BY <1>3, <1>4, <1>5, <1>6, <1>7, <1>8, <1>9 DEF TypeOK
<1>11. StatusInv'
  BY <1>3, <1>7, <1>9 DEF StatusInv
<1> QED
  BY <1>10, <1>11

\* An invocation's end keeps the types of its locals.
LEMMA OverTypes ==
    ASSUME TypeOK, NEW p \in Syncs, Over(p)
    PROVE  /\ phase' \in [Syncs -> Phases]
           /\ phase'[p] = "over"
           /\ \A q \in Syncs : q # p => phase'[q] = phase[q]
           /\ stream' = stream
           /\ snap' \in [Syncs -> Nat]
           /\ parent' \in [Syncs -> Ref]
           /\ own' \in [Syncs -> [Chains -> Ref]]
<1>1. NoTips \in [Chains -> Ref]
  BY DEF NoTips, Ref
<1>2. own' \in [Syncs -> [Chains -> Ref]]
  BY <1>1 DEF Over, TypeOK
<1>3. phase' \in [Syncs -> Phases] /\ phase'[p] = "over"
  BY DEF Over, TypeOK, Phases
<1> QED
  BY <1>2, <1>3 DEF Over, TypeOK, Ref

\* The end of an exchange keeps the types of what it is about.
LEMMA CloseTypes ==
    ASSUME TypeOK, NEW p \in Syncs, CloseExchange(p)
    PROVE  /\ chain' \in [Syncs -> Chains]
           /\ src' \in [Syncs -> Ref]
           /\ old' \in [Syncs -> Ref]
           /\ status' \in [Syncs -> {"none", "sent", "ok", "refused"}]
           /\ status'[p] = "none"
           /\ \A q \in Syncs :
                 q # p => status'[q] = status[q] /\ src'[q] = src[q]
BY DEF CloseExchange, TypeOK, Ref, Chains

\* An invocation that ends with its exchange keeps the types.
LEMMA OverClosedTypes ==
    ASSUME TypeOK, StatusInv, NEW p \in Syncs, phase[p] # "idle",
           Over(p), CloseExchange(p),
           UNCHANGED <<clientVars, serverVars, observers>>
    PROVE  TypeOK' /\ StatusInv'
<1>1. /\ \A q \in Syncs : phase'[q] # "idle" => phase[q] # "idle"
      /\ \A q \in Syncs : phase'[q] = "advertise" => phase[q] = "advertise"
      /\ \A q \in Syncs : status'[q] = "sent" => status[q] = "sent"
      /\ phase'[p] = "over" /\ status'[p] = "none"
      /\ \A q \in Syncs :
            q # p => /\ phase'[q] = phase[q] /\ status'[q] = status[q]
                     /\ src'[q] = src[q]
  BY OverTypes, CloseTypes
<1>2. \A q \in Syncs :
          phase'[q] = "advertise" \/ status'[q] = "sent" => src'[q] \in Commits
  BY <1>1 DEF TypeOK
<1>3. \A q \in Syncs : phase'[q] # "idle" => stream'[q] \in Streams
  BY <1>1, OverTypes DEF TypeOK
<1>4. TypeOK'
  BY <1>2, <1>3, OverTypes, CloseTypes
     DEF TypeOK, clientVars, serverVars, observers
<1>5. StatusInv'
  <2> SUFFICES ASSUME NEW q \in Syncs
               PROVE  /\ phase'[q] \in {"idle", "read", "write", "open",
                                        "advertise"} => status'[q] = "none"
                      /\ phase'[q] = "retain" => status'[q] = "ok"
                      /\ status'[q] # "none" => phase'[q] # "idle"
    BY DEF StatusInv
  <2>1. CASE q = p
    BY <1>1, <2>1
  <2>2. CASE q # p
    BY <1>1, <2>2 DEF StatusInv
  <2> QED
    BY <2>1, <2>2
<1> QED
  BY <1>4, <1>5

\* The client's side of an exchange keeps the types.
LEMMA PushTypes ==
    ASSUME TypeOK, StatusInv, NEW p \in Syncs,
           \/ \E s \in Streams : Start(p, s)
           \/ OpenPush(p) \/ Advertise(p) \/ PushReturned(p) \/ Fail(p)
    PROVE  TypeOK' /\ StatusInv'
<1> USE DEF TypeOK, StatusInv, clientVars, serverVars, observers
<1>1. CASE \E s \in Streams : Start(p, s)
  BY <1>1 DEF Start, Phases
<1>2. CASE OpenPush(p)
  BY <1>2 DEF OpenPush, Ref, Phases
<1>3. CASE Advertise(p)
  <2>1. acked' \in [Streams -> [Chains -> BOOLEAN]]
    BY <1>3, MoveRef DEF Advertise
  <2>2. srv[stream[p]][chain[p]] \in Ref
    BY <1>3 DEF Advertise
  <2>3. /\ src[p] \in Commits
        /\ status[p] = "none"
    BY <1>3 DEF Advertise
  <2>4. /\ src' \in [Syncs -> Ref]
        /\ old' \in [Syncs -> Ref]
        /\ status' \in [Syncs -> {"none", "sent", "ok", "refused"}]
        /\ status'[p] = "sent" => src'[p] \in Commits
        /\ \A q \in Syncs :
              q # p => status'[q] = status[q] /\ src'[q] = src[q]
    BY <1>3, <2>2, <2>3 DEF Advertise, Ref
  <2>5. /\ phase' = [phase EXCEPT ![p] = "await"]
        /\ phase' \in [Syncs -> Phases]
    BY <1>3 DEF Advertise, Phases
  <2>6. UNCHANGED <<clientVars, stream, chain, snap, parent, own, serverVars,
                    forgotten>>
    BY <1>3 DEF Advertise
  <2>7. TypeOK'
    BY <2>1, <2>4, <2>5, <2>6, <1>3 DEF Advertise
  <2> QED
    BY <2>4, <2>5, <2>7
<1>4. CASE PushReturned(p)
  <2>1. CASE status[p] = "ok"
    BY <1>4, <2>1 DEF PushReturned, Phases
  <2>2. CASE status[p] = "refused"
    <3>1. Over(p) /\ CloseExchange(p) /\ phase[p] # "idle"
          /\ UNCHANGED <<clientVars, serverVars, observers>>
      BY <1>4, <2>2 DEF PushReturned
    <3> QED
      BY <3>1, OverClosedTypes
  <2> QED
    BY <1>4, <2>1, <2>2 DEF PushReturned
<1>5. CASE Fail(p)
  <2>1. Over(p) /\ phase[p] # "idle"
        /\ UNCHANGED <<clientVars, serverVars, observers>>
    BY <1>5 DEF Fail, Active
  <2>2. CASE UNCHANGED <<chain, src, status, old>>
    BY <2>1, <2>2, OverTypes
  <2>3. CASE CloseExchange(p)
    BY <2>1, <2>3, OverClosedTypes
  <2> QED
    BY <1>5, <2>2, <2>3 DEF Fail
<1> QED
  BY <1>1, <1>2, <1>3, <1>4, <1>5

\* Retaining a tip keeps the types.
LEMMA RetainTypes ==
    ASSUME TypeOK, StatusInv, NEW p \in Syncs, Retain(p)
    PROVE  TypeOK' /\ StatusInv'
<1>1. phase[p] = "retain" /\ stream[p] \in Streams /\ chain[p] \in Chains
  BY DEF Retain, TypeOK
<1>2. sent' \in [Streams -> [Chains -> Ref]]
  BY <1>1, MoveRef DEF Retain, TypeOK
<1>3. acked' \in [Streams -> [Chains -> BOOLEAN]]
  BY <1>1, MoveRef DEF Retain, TypeOK
<1>4. UNCHANGED <<work, written, tree, history, local, serverVars, forgotten>>
  BY DEF Retain
<1>5. CASE chain[p] = "code"
  <2>1. /\ chain' = [chain EXCEPT ![p] = "extra"]
        /\ own' = [own EXCEPT ![p]["code"] = None]
        /\ status' = [status EXCEPT ![p] = "none"]
        /\ phase' = [phase EXCEPT ![p] = "open"]
        /\ UNCHANGED <<stream, snap, parent, src, old>>
    BY <1>5 DEF Retain
  <2>2. own' \in [Syncs -> [Chains -> Ref]]
    BY <2>1 DEF TypeOK, Ref, Chains
  <2>3. chain' \in [Syncs -> Chains] /\ phase' \in [Syncs -> Phases]
    BY <2>1 DEF TypeOK, Chains, Phases
  <2> QED
    BY <1>1, <1>2, <1>3, <1>4, <2>1, <2>2, <2>3
       DEF TypeOK, StatusInv, serverVars
<1>6. CASE chain[p] = "extra"
  <2>1. Over(p) /\ CloseExchange(p)
    BY <1>6 DEF Retain
  <2> QED
    BY <1>1, <1>2, <1>3, <1>4, <2>1, OverTypes, CloseTypes
       DEF TypeOK, StatusInv, serverVars
<1> QED
  BY <1>1, <1>5, <1>6 DEF Chains

\* The server's side of an exchange keeps the types.
LEMMA ServerTypes ==
    ASSUME TypeOK, StatusInv, NEW p \in Syncs, ServerStep(p)
    PROVE  TypeOK' /\ StatusInv'
<1>1. /\ src[p] \in Commits /\ stream[p] \in Streams /\ chain[p] \in Chains
      /\ phase[p] \notin {"idle", "read", "write", "open", "advertise",
                          "retain"}
  BY DEF ServerStep, ReceivePack, RefuseStale, DropExchange, StatusInv, TypeOK
<1>2. history[src[p]] \subseteq Commits
  BY <1>1 DEF TypeOK
<1>3. \/ Answer(p, "ok") \/ Answer(p, "refused")
  BY DEF ServerStep, ReceivePack, Apply, RefuseStale, DropExchange
<1>4. /\ chain' \in [Syncs -> Chains]
      /\ src' \in [Syncs -> Ref]
      /\ status' \in [Syncs -> {"none", "sent", "ok", "refused"}]
      /\ old' \in [Syncs -> Ref]
      /\ status'[p] # "sent"
      /\ \A q \in Syncs :
            q # p => src'[q] = src[q] /\ status'[q] = status[q]
  BY <1>3 DEF Answer, CloseExchange, TypeOK, Ref, Chains
<1>5. UNCHANGED <<work, written, tree, history, local, sent, phase, stream,
                  snap, parent, own, forgotten, acked>>
  BY <1>3 DEF Answer, clientVars, observers
<1>6. srv' \in [Streams -> [Chains -> Ref]]
  <2>1. CASE ReceivePack(p)
    BY <1>1, <2>1, MoveRef DEF ReceivePack, Apply, TypeOK, Ref
  <2>2. CASE RefuseStale(p) \/ DropExchange(p)
    BY <2>2 DEF RefuseStale, DropExchange, TypeOK, serverVars
  <2> QED
    BY <2>1, <2>2 DEF ServerStep
<1>7. received' \subseteq Commits
  BY <1>2 DEF ServerStep, ReceivePack, Apply, RefuseStale, DropExchange,
              TypeOK, serverVars
<1>8. TypeOK'
  BY <1>1, <1>4, <1>5, <1>6, <1>7 DEF TypeOK
<1>9. StatusInv'
  BY <1>1, <1>4, <1>5 DEF StatusInv
<1> QED
  BY <1>8, <1>9

\* Forgetting a stream keeps the types.
LEMMA ForgetTypes ==
    ASSUME TypeOK, StatusInv, NEW s \in Streams, Forget(s)
    PROVE  TypeOK' /\ StatusInv'
<1> USE DEF TypeOK, StatusInv, clientVars, jobVars, serverVars, observers
<1>1. None \in Ref
  BY DEF Ref
<1>2. CASE ForgetRemote(s)
  <2>1. PICK c \in Chains : srv' = [srv EXCEPT ![s][c] = None]
    BY <1>2 DEF ForgetRemote
  <2>2. srv' \in [Streams -> [Chains -> Ref]]
    BY <1>1, <2>1, MoveRef
  <2> QED
    BY <1>2, <2>2 DEF ForgetRemote
<1>3. CASE ForgetLocal(s)
  <2>1. PICK c \in Chains :
            \/ /\ local' = [local EXCEPT ![s][c] = None]
               /\ UNCHANGED <<sent, acked>>
            \/ /\ sent' = [sent EXCEPT ![s][c] = None]
               /\ acked' = [acked EXCEPT ![s][c] = FALSE]
               /\ UNCHANGED local
    BY <1>3 DEF ForgetLocal
  <2>2. [local EXCEPT ![s][c] = None] \in [Streams -> [Chains -> Ref]]
    BY <1>1, MoveRef
  <2>3. [sent EXCEPT ![s][c] = None] \in [Streams -> [Chains -> Ref]]
    BY <1>1, MoveRef
  <2>4. [acked EXCEPT ![s][c] = FALSE] \in [Streams -> [Chains -> BOOLEAN]]
    BY MoveRef
  <2> QED
    BY <1>3, <2>1, <2>2, <2>3, <2>4 DEF ForgetLocal
<1> QED
  BY <1>2, <1>3 DEF Forget

\* Every step keeps the types.
LEMMA TypePreserved ==
    ASSUME TypeOK, StatusInv, [Next]_vars
    PROVE  TypeOK' /\ StatusInv'
<1>1. CASE Edit
  BY <1>1 DEF Edit, TypeOK, StatusInv, jobVars, serverVars, observers
<1>2. ASSUME NEW p \in Syncs, SyncStep(p) \/ ServerStep(p)
      PROVE  TypeOK' /\ StatusInv'
  BY <1>2, ReadTypes, WriteTypes, PushTypes, RetainTypes, ServerTypes
     DEF SyncStep
<1>3. ASSUME NEW s \in Streams, Forget(s)
      PROVE  TypeOK' /\ StatusInv'
  BY <1>3, ForgetTypes
<1>4. CASE UNCHANGED vars
  BY <1>4 DEF TypeOK, StatusInv, vars, clientVars, jobVars, serverVars,
              observers
<1> QED
  BY <1>1, <1>2, <1>3, <1>4 DEF Next

\* Every variable keeps its type.
THEOREM TypeInvariant == Spec => [](TypeOK /\ StatusInv)
<1>1. Init => TypeOK /\ StatusInv
  BY DEF Init, TypeOK, StatusInv, NoRefs, NoTips, Ref, Phases, Chains
<1>2. TypeOK /\ StatusInv /\ [Next]_vars => (TypeOK /\ StatusInv)'
  BY TypePreserved
<1> QED
  BY <1>1, <1>2, PTL DEF Spec

-----------------------------------------------------------------------------
(* `code` reaches the server before `extra`.                               *)

\* The server has had no reason to lose the stream's `code` ref.
HasCode(s) == forgotten[s] \/ srv[s]["code"] # None

\* An exchange of `code` that went well left the ref there, and one of
\* `extra` is opened only after that.
OrderOf(p) ==
    /\ chain[p] = "code" /\ status[p] = "ok" => HasCode(stream[p])
    /\ chain[p] = "extra"
       /\ (phase[p] \in {"open", "advertise", "await", "retain"}
           \/ status[p] # "none")
          => HasCode(stream[p])

OrderInv == \A p \in Syncs : OrderOf(p)

\* Two kinds of steps move the server's refs.
LEMMA ServerRefsMove ==
    ASSUME [Next]_vars
    PROVE  \/ \E p \in Syncs : ReceivePack(p)
           \/ \E s \in Streams : ForgetRemote(s)
           \/ UNCHANGED <<srv, forgotten>>
<1>1. ASSUME NEW p \in Syncs, SyncStep(p)
      PROVE  UNCHANGED <<srv, forgotten>>
  BY <1>1 DEF SyncStep, Start, ReadCode, ReadExtra, Read, WriteCode,
              WriteExtra, WriteSynthCommit, OpenPush, Advertise, PushReturned,
              Retain, Fail, Over, CloseExchange, serverVars, observers
<1>2. ASSUME NEW p \in Syncs, ServerStep(p)
      PROVE  ReceivePack(p) \/ UNCHANGED <<srv, forgotten>>
  BY <1>2 DEF ServerStep, RefuseStale, DropExchange, Answer, serverVars,
              observers
<1>3. ASSUME NEW s \in Streams, Forget(s)
      PROVE  ForgetRemote(s) \/ UNCHANGED <<srv, forgotten>>
  BY <1>3 DEF Forget, ForgetLocal, serverVars,
              observers
<1>4. CASE Edit \/ UNCHANGED vars
  BY <1>4 DEF Edit, vars, serverVars, observers
<1> QED
  BY <1>1, <1>2, <1>3, <1>4 DEF Next

\* A ref that is on the server stays there until the stream is forgotten.
LEMMA HasCodeStays ==
    ASSUME TypeOK, StatusInv, [Next]_vars, NEW s \in Streams, HasCode(s)
    PROVE  HasCode(s)'
<1> USE DEF HasCode
<1>1. CASE \E p \in Syncs : ReceivePack(p)
  <2>1. PICK p \in Syncs : ReceivePack(p)
    BY <1>1
  <2>2. src[p] \in Commits /\ stream[p] \in Streams /\ chain[p] \in Chains
    BY <2>1 DEF ReceivePack, StatusInv, TypeOK
  <2>3. src[p] # None
    BY <2>2, SyncAssumption
  <2>4. UNCHANGED forgotten /\ srv' = [srv EXCEPT ![stream[p]][chain[p]] = src[p]]
    BY <2>1 DEF ReceivePack, Apply, Answer, observers
  <2>5. srv'[s]["code"] = srv[s]["code"] \/ srv'[s]["code"] = src[p]
    BY <2>2, <2>4 DEF TypeOK, Chains
  <2> QED
    BY <2>3, <2>4, <2>5
<1>2. CASE \E q \in Streams : ForgetRemote(q)
  <2>1. PICK q \in Streams, c \in Chains :
            /\ srv' = [srv EXCEPT ![q][c] = None]
            /\ forgotten' = [forgotten EXCEPT ![q] = TRUE]
    BY <1>2 DEF ForgetRemote, TypeOK
  <2>2. CASE s = q
    BY <2>1, <2>2 DEF TypeOK
  <2>3. CASE s # q
    BY <2>1, <2>3 DEF TypeOK
  <2> QED
    BY <2>2, <2>3
<1>3. CASE UNCHANGED <<srv, forgotten>>
  BY <1>3
<1>4. \/ \E p \in Syncs : ReceivePack(p)
      \/ \E q \in Streams : ForgetRemote(q)
      \/ UNCHANGED <<srv, forgotten>>
  BY ServerRefsMove
<1> QED
  BY <1>1, <1>2, <1>3, <1>4

\* A step of one invocation, or of the server's side of its exchange, keeps
\* the order of its exchanges.
LEMMA StepKeepsOrder ==
    ASSUME TypeOK, StatusInv, OrderInv, NEW p \in Syncs,
           SyncStep(p) \/ ServerStep(p)
    PROVE  OrderInv'
<1>0. [Next]_vars
  BY DEF Next
<1>1. \A s \in Streams : HasCode(s) => HasCode(s)'
  BY <1>0, HasCodeStays
<1>2. \A q \in Syncs : q # p =>
          /\ phase'[q] = phase[q] /\ chain'[q] = chain[q]
          /\ status'[q] = status[q] /\ stream'[q] = stream[q]
  BY DEF SyncStep, ServerStep, Start, ReadCode, ReadExtra, Read, WriteCode,
         WriteExtra, WriteSynthCommit, OpenPush, Advertise, PushReturned,
         Retain, Fail, Over, CloseExchange, ReceivePack, Apply, RefuseStale,
         DropExchange, Answer, TypeOK
<1>3. OrderOf(p)'
  <2>0. /\ phase[p] \in {"idle", "read", "write", "open", "advertise"} =>
              status[p] = "none"
        /\ phase[p] = "retain" => status[p] = "ok"
        /\ status[p] # "none" => phase[p] # "idle"
        /\ phase[p] = "advertise" \/ status[p] = "sent" => src[p] \in Commits
        /\ phase[p] # "idle" => stream[p] \in Streams
        /\ OrderOf(p)
    BY DEF StatusInv, TypeOK, OrderInv
  <2> USE <1>1, <2>0 DEF OrderOf, TypeOK, clientVars, serverVars, observers
  <2>1. CASE \E s \in Streams : Start(p, s)
    BY <2>1 DEF Start
  <2>2. CASE ReadCode(p)
    BY <2>2 DEF ReadCode, Read
  <2>3. CASE WriteCode(p)
    BY <2>3 DEF WriteCode, WriteSynthCommit
  <2>4. CASE ReadExtra(p)
    BY <2>4 DEF ReadExtra, Read
  <2>5. CASE WriteExtra(p)
    BY <2>5 DEF WriteExtra, WriteSynthCommit
  <2>6. CASE OpenPush(p)
    BY <2>6 DEF OpenPush
  <2>7. CASE Advertise(p)
    <3>1. CASE status'[p] = "ok" /\ chain[p] = "code"
      <4>1. srv[stream[p]]["code"] = src[p] /\ src[p] \in Commits
        BY <2>7, <3>1 DEF Advertise
      <4> QED
        BY <2>7, <3>1, <4>1, SyncAssumption DEF Advertise, HasCode
    <3> QED
      BY <2>7, <3>1 DEF Advertise
  <2>8. CASE PushReturned(p)
    BY <2>8 DEF PushReturned, Over, CloseExchange
  <2>9. CASE Retain(p)
    BY <2>9 DEF Retain, Over, CloseExchange, Chains
  <2>10. CASE Fail(p)
    BY <2>10 DEF Fail, Active, Over, CloseExchange
  <2>11. CASE ReceivePack(p)
    <3>1. CASE chain[p] = "code"
      <4>1. srv'[stream[p]]["code"] = src[p] /\ src[p] # None
        BY <2>11, <3>1, SyncAssumption DEF ReceivePack, Apply
      <4> QED
        BY <2>11, <3>1, <4>1
           DEF ReceivePack, Apply, Answer, CloseExchange, HasCode
    <3> QED
      BY <2>11, <3>1 DEF ReceivePack, Apply, Answer, CloseExchange, Chains
  <2>12. CASE RefuseStale(p)
    BY <2>12 DEF RefuseStale, Answer, CloseExchange
  <2>13. CASE DropExchange(p)
    BY <2>13 DEF DropExchange, Answer, CloseExchange
  <2> QED
    BY <2>1, <2>2, <2>3, <2>4, <2>5, <2>6, <2>7, <2>8, <2>9, <2>10, <2>11, <2>12, <2>13
       DEF SyncStep, ServerStep
<1>4. ASSUME NEW q \in Syncs, q # p
      PROVE  OrderOf(q)'
  <2>1. status[q] # "none" \/ phase[q] # "idle" => stream[q] \in Streams
    BY DEF StatusInv, TypeOK
  <2>2. OrderOf(q)
    BY DEF OrderInv
  <2> QED
    BY <1>1, <1>2, <1>4, <2>1, <2>2 DEF OrderOf
<1> QED
  BY <1>3, <1>4 DEF OrderInv

\* Every step keeps the order of the exchanges.
LEMMA OrderPreserved ==
    ASSUME TypeOK, StatusInv, OrderInv, [Next]_vars
    PROVE  OrderInv'
<1>1. ASSUME NEW p \in Syncs, SyncStep(p) \/ ServerStep(p)
      PROVE  OrderInv'
  BY <1>1, StepKeepsOrder
<1>2. CASE UNCHANGED jobVars
  <2> SUFFICES ASSUME NEW p \in Syncs
               PROVE  OrderOf(p)'
    BY DEF OrderInv
  <2>1. status[p] # "none" \/ phase[p] # "idle" => stream[p] \in Streams
    BY DEF StatusInv, TypeOK
  <2>2. \A s \in Streams : HasCode(s) => HasCode(s)'
    BY HasCodeStays
  <2>3. OrderOf(p)
    BY DEF OrderInv
  <2> QED
    BY <1>2, <2>1, <2>2, <2>3 DEF OrderOf, jobVars
<1> QED
  BY <1>1, <1>2
     DEF Next, Edit, Forget, ForgetRemote, ForgetLocal, vars

\* What the exchanges' order is for: `extra` appears on the server only
\* where `code` is.
LEMMA CodeBeforeExtraPreserved ==
    ASSUME TypeOK, StatusInv, OrderInv, CodeBeforeExtra, [Next]_vars
    PROVE  CodeBeforeExtra'
<1> SUFFICES ASSUME NEW s \in Streams, ~forgotten'[s],
                    srv'[s]["extra"] # None
             PROVE  HasCode(s)'
  BY DEF CodeBeforeExtra, HasCode
<1>1. CASE HasCode(s)
  BY <1>1, HasCodeStays
<1>2. CASE \E p \in Syncs : ReceivePack(p)
  <2>1. PICK p \in Syncs : ReceivePack(p)
    BY <1>2
  <2>2. stream[p] \in Streams /\ chain[p] \in Chains /\ status[p] # "none"
    BY <2>1 DEF ReceivePack, StatusInv, TypeOK
  <2>3. CASE stream[p] = s /\ chain[p] = "extra"
    <3>1. HasCode(s)
      BY <2>2, <2>3 DEF OrderInv, OrderOf
    <3> QED
      BY <3>1, HasCodeStays
  <2>4. CASE ~(stream[p] = s /\ chain[p] = "extra")
    <3>1. srv'[s]["extra"] = srv[s]["extra"] /\ forgotten'[s] = forgotten[s]
      BY <2>1, <2>2, <2>4
         DEF ReceivePack, Apply, Answer, TypeOK, observers, Chains
    <3> QED
      BY <1>1, <3>1 DEF CodeBeforeExtra, HasCode
  <2> QED
    BY <2>3, <2>4
<1>3. CASE \E q \in Streams : ForgetRemote(q)
  <2>1. PICK q \in Streams, c \in Chains :
            /\ srv' = [srv EXCEPT ![q][c] = None]
            /\ forgotten' = [forgotten EXCEPT ![q] = TRUE]
    BY <1>3 DEF ForgetRemote, TypeOK
  <2>2. s # q /\ srv'[s] = srv[s] /\ forgotten'[s] = forgotten[s]
    BY <2>1 DEF TypeOK
  <2> QED
    BY <1>1, <2>2 DEF CodeBeforeExtra, HasCode
<1>4. CASE UNCHANGED <<srv, forgotten>>
  BY <1>4 DEF CodeBeforeExtra, HasCode
<1>5. \/ \E p \in Syncs : ReceivePack(p)
      \/ \E q \in Streams : ForgetRemote(q)
      \/ UNCHANGED <<srv, forgotten>>
  BY ServerRefsMove
<1> QED
  BY <1>2, <1>3, <1>4, <1>5

\* Even when syncs of one stream overlap, fail and leave late requests
\* behind, `extra` is on the server only where `code` is, until the stream
\* is forgotten.
THEOREM CodeComesFirst == Spec => []CodeBeforeExtra
<1>1. Init => OrderInv /\ CodeBeforeExtra
  BY DEF Init, NoRefs, NoTips, OrderInv, OrderOf, CodeBeforeExtra, Chains
<1>2. /\ TypeOK /\ StatusInv /\ OrderInv /\ CodeBeforeExtra /\ [Next]_vars
      => (OrderInv /\ CodeBeforeExtra)'
  BY OrderPreserved, CodeBeforeExtraPreserved
<1> QED
  BY <1>1, <1>2, TypeInvariant, PTL DEF Spec

-----------------------------------------------------------------------------
(* One sync of a stream at a time.  At most one invocation of a stream is  *)
(* active.  Of an earlier one there may be a request that the server has   *)
(* not answered yet, and the inductive invariant says what such a late     *)
(* request can still ask for.                                              *)

-----------------------------------------------------------------------------
(* The inductive invariant.                                                *)

Known == written \cup {None}

KnownOf(p) ==
    /\ parent[p] \in Known /\ src[p] \in Known /\ old[p] \in Known
    /\ \A c \in Chains : own[p][c] \in Known
    /\ snap[p] <= work

\* Every ref, and everything an invocation remembers, is a commit written to
\* the client's repository or absent; a commit is never newer than the
\* working tree.
KnownInv ==
    /\ \A id \in written :
          /\ id \in history[id]
          /\ tree[id] <= work
    /\ \A s \in Streams, c \in Chains :
          local[s][c] \in Known /\ sent[s][c] \in Known /\ srv[s][c] \in Known
    /\ \A p \in Syncs : KnownOf(p)

ReceivedOf(p) ==
    /\ parent[p] # None => history[parent[p]] \subseteq received
    /\ status[p] = "ok" => history[own[p][chain[p]]] \subseteq received

\* What a tip the client relies on needs is on the server.
ReceivedInv ==
    /\ \A s \in Streams, c \in Chains :
          /\ srv[s][c] # None => history[srv[s][c]] \subseteq received
          /\ sent[s][c] # None => history[sent[s][c]] \subseteq received
    /\ \A p \in Syncs : ReceivedOf(p)

OneAtATime ==
    \A p, q \in Syncs :
       p # q /\ Active(p) /\ Active(q) => stream[p] # stream[q]

\* The commits an active invocation has yet to retain are those its stream's
\* local refs name (if they are there), those it pushes, and, after a
\* successful push, those the server has; its `extra` commit descends from
\* the retained tip.
JobOf(p) ==
    /\ phase[p] = "idle" => chain[p] = "code"
    /\ ~Active(p) => \A c \in Chains : own[p][c] = None
    /\ status[p] \in {"ok", "refused"} => phase[p] \in {"await", "retain"}
    /\ phase[p] \in {"read", "write"} /\ chain[p] = "extra" =>
          own[p]["code"] # None
    /\ phase[p] \in {"open", "advertise", "await", "retain"} =>
          own[p]["extra"] # None /\ own[p][chain[p]] # None
    /\ \A c \in Chains : own[p][c] # None =>
          local[stream[p]][c] \in {None, own[p][c]}
    /\ phase[p] = "advertise" \/ (phase[p] = "await" /\ status[p] = "sent") =>
          src[p] = own[p][chain[p]]
    /\ phase[p] = "write" /\ chain[p] = "extra" =>
          sent[stream[p]]["extra"] \in {None, parent[p]}
    /\ own[p]["extra"] # None /\ sent[stream[p]]["extra"] # None =>
          sent[stream[p]]["extra"] \in history[own[p]["extra"]]
    /\ status[p] = "ok" /\ ~forgotten[stream[p]] =>
          srv[stream[p]][chain[p]] = own[p][chain[p]]

JobInv == \A p \in Syncs : JobOf(p)

\* A request of q and another invocation of its stream: the request is about
\* commits that are not the other's and not newer than the other's.
PairOf(p, q) ==
    p # q /\ stream[p] = stream[q] /\ status[q] = "sent" =>
        /\ own[p][chain[q]] # None =>
               /\ own[p][chain[q]] # src[q] /\ own[p][chain[q]] # old[q]
               /\ tree[src[q]] <= tree[own[p][chain[q]]]
        /\ phase[p] = "write" /\ chain[p] = chain[q] =>
               tree[src[q]] <= snap[p]
        /\ status[p] = "sent" /\ chain[p] = chain[q] =>
               src[q] # src[p] /\ src[q] # old[p]

PairInv == \A p, q \in Syncs : PairOf(p, q)

\* A request never asks for what is there, never for an older version than
\* it replaces, and one that can still be granted replaces no retained tip
\* of `code`-then-`extra` that it does not descend from.
RequestOf(q) ==
    status[q] = "sent" =>
        LET s == stream[q]
            c == chain[q]
        IN  /\ src[q] # srv[s][c]
            /\ acked[s][c] /\ ~forgotten[s] => old[q] # srv[s][c]
            /\ old[q] # None => tree[old[q]] <= tree[src[q]]
            /\ c = "extra" /\ ~forgotten[s] /\ sent[s][c] # None
               /\ old[q] = srv[s][c] => sent[s][c] \in history[src[q]]

RequestInv == \A q \in Syncs : RequestOf(q)

\* The server shows nothing newer than what an active invocation is about
\* to push.
NewestOf(p, c) ==
    stream[p] \in Streams /\ srv[stream[p]][c] # None =>
        /\ own[p][c] # None => tree[srv[stream[p]][c]] <= tree[own[p][c]]
        /\ phase[p] = "write" /\ chain[p] = c =>
              tree[srv[stream[p]][c]] <= snap[p]

NewestInv == \A p \in Syncs, c \in Chains : NewestOf(p, c)

Promises ==
    /\ ExtraParentsReceived
    /\ AckedTipIsServerTip
    /\ RetainedExtraIsServerAncestor

SerialInv ==
    /\ KnownInv
    /\ ReceivedInv
    /\ OneAtATime
    /\ JobInv
    /\ PairInv
    /\ RequestInv
    /\ NewestInv
    /\ Promises

-----------------------------------------------------------------------------
(* What the steps do, one invocation and one ref at a time.                *)

\* Nothing of an invocation changes.
Same(q) ==
    /\ phase'[q] = phase[q] /\ stream'[q] = stream[q] /\ chain'[q] = chain[q]
    /\ snap'[q] = snap[q] /\ parent'[q] = parent[q] /\ own'[q] = own[q]
    /\ src'[q] = src[q] /\ status'[q] = status[q] /\ old'[q] = old[q]

\* A step of one invocation, or of the server's side of its exchange, leaves
\* the others alone.
LEMMA OthersSame ==
    ASSUME TypeOK, NEW p \in Syncs, SyncStep(p) \/ ServerStep(p),
           NEW q \in Syncs, q # p
    PROVE  Same(q)
<1> USE DEF TypeOK, Same
<1>1. CASE \/ \E s \in Streams : Start(p, s)
           \/ ReadCode(p) \/ ReadExtra(p) \/ OpenPush(p) \/ Advertise(p)
  BY <1>1 DEF Start, ReadCode, ReadExtra, Read, OpenPush, Advertise
<1>2. CASE WriteCode(p) \/ WriteExtra(p)
  BY <1>2 DEF WriteCode, WriteExtra, WriteSynthCommit
<1>3. CASE PushReturned(p) \/ Retain(p) \/ Fail(p)
  BY <1>3 DEF PushReturned, Retain, Fail, Over, CloseExchange
<1>4. CASE ServerStep(p)
  BY <1>4 DEF ServerStep, ReceivePack, Apply, RefuseStale, DropExchange,
              Answer, CloseExchange
<1> QED
  BY <1>1, <1>2, <1>3, <1>4 DEF SyncStep

\* Moving one ref moves no other.
LEMMA MovedRef ==
    ASSUME NEW T, NEW refs \in [Streams -> [Chains -> T]],
           NEW s \in Streams, NEW c \in Chains, NEW v \in T,
           NEW t \in Streams, NEW d \in Chains
    PROVE  [refs EXCEPT ![s][c] = v][t][d] =
              IF t = s /\ d = c THEN v ELSE refs[t][d]
OBVIOUS

\* What writing a commit does.
WriteDoes(p, id) ==
    /\ phase[p] = "write" /\ stream[p] \in Streams
    /\ id \notin written
    /\ written' = written \cup {id}
    /\ \A k \in Commits :
          /\ tree'[k] = IF k = id THEN snap[p] ELSE tree[k]
          /\ k # id => history'[k] = history[k]
    /\ history'[id] = {id} \cup IF parent[p] = None THEN {}
                                ELSE history[parent[p]]
    /\ \A t \in Streams, d \in Chains :
          local'[t][d] = IF t = stream[p] /\ d = chain[p] THEN id
                         ELSE local[t][d]
    /\ \A d \in Chains : own'[p][d] = IF d = chain[p] THEN id ELSE own[p][d]
    /\ snap'[p] = 0 /\ parent'[p] = None
    /\ IF chain[p] = "code" THEN phase'[p] = "read" /\ chain'[p] = "extra"
                            ELSE phase'[p] = "open" /\ chain'[p] = "code"
    /\ UNCHANGED <<work, sent, stream, src, status, old, srv, received,
                   forgotten, acked>>

\* What writing a synthetic commit does, path by path.
LEMMA WriteEffect ==
    ASSUME TypeOK, NEW p \in Syncs, WriteCode(p) \/ WriteExtra(p)
    PROVE  \E id \in Commits : WriteDoes(p, id)
<1>1. PICK c \in Chains, id \in FreshIds : WriteSynthCommit(p, c, id)
  BY DEF WriteCode, WriteExtra, Chains
<1>2. id \in Commits /\ id \notin written
  BY <1>1, FreshId
<1>3. phase[p] = "write" /\ stream[p] \in Streams /\ chain[p] = c
  BY <1>1 DEF WriteSynthCommit, TypeOK
<1>4. \A t \in Streams, d \in Chains :
         local'[t][d] = IF t = stream[p] /\ d = chain[p] THEN id
                        ELSE local[t][d]
  BY <1>1, <1>2, <1>3, MovedRef DEF WriteSynthCommit, TypeOK, Ref
<1>5. \A d \in Chains :
         own'[p][d] = IF d = chain[p] THEN id ELSE own[p][d]
  BY <1>1, <1>2, <1>3 DEF WriteSynthCommit, TypeOK
<1>6. \A k \in Commits :
         /\ tree'[k] = IF k = id THEN snap[p] ELSE tree[k]
         /\ k # id => history'[k] = history[k]
  BY <1>1, <1>2 DEF WriteSynthCommit, TypeOK
<1>7. history'[id] = {id} \cup IF parent[p] = None THEN {}
                               ELSE history[parent[p]]
  BY <1>1, <1>2 DEF WriteSynthCommit, TypeOK
<1>8. IF chain[p] = "code"
      THEN phase'[p] = "read" /\ chain'[p] = "extra"
      ELSE phase'[p] = "open" /\ chain'[p] = "code"
  BY DEF WriteCode, WriteExtra, TypeOK, WriteSynthCommit
<1>9. snap'[p] = 0 /\ parent'[p] = None
  BY <1>1 DEF WriteSynthCommit, TypeOK
<1>10. written' = written \cup {id}
       /\ UNCHANGED <<work, sent, stream, src, status, old, srv, received,
                      forgotten, acked>>
  BY <1>1 DEF WriteSynthCommit, serverVars, observers
<1> QED
  BY <1>2, <1>3, <1>4, <1>5, <1>6, <1>7, <1>8, <1>9, <1>10
     DEF WriteDoes

\* Writing a commit keeps the invariant.
LEMMA WriteSerial ==
    ASSUME TypeOK, StatusInv, SerialInv, NEW p \in Syncs,
           WriteCode(p) \/ WriteExtra(p)
    PROVE  SerialInv'
<1>1. PICK id \in Commits : WriteDoes(p, id)
  BY WriteEffect
<1> USE DEF WriteDoes
<1>2. \A q \in Syncs : q # p => Same(q)
  BY OthersSame DEF SyncStep
<1>3. status[p] = "none" /\ chain[p] \in Chains
  BY <1>1 DEF StatusInv, TypeOK
<1>4. written \subseteq Commits /\ None \notin Commits
  BY SyncAssumption DEF TypeOK
<1>5. KnownInv'
  <2> USE DEF KnownInv, Known
  <2>1. KnownInv
    BY DEF SerialInv
  <2>2. \A k \in written' : k \in history'[k] /\ tree'[k] <= work'
    BY <1>1, <1>4, <2>1 DEF KnownOf
  <2>3. \A s \in Streams, c \in Chains :
            local'[s][c] \in Known' /\ sent'[s][c] \in Known'
            /\ srv'[s][c] \in Known'
    BY <1>1, <2>1
  <2>4. KnownOf(p)'
    <3>1. KnownOf(p) /\ snap'[p] <= work'
      BY <1>1, <2>1 DEF TypeOK
    <3> QED
      BY <1>1, <3>1 DEF KnownOf
  <2>5. \A q \in Syncs : q # p => KnownOf(q)'
    BY <1>1, <1>2, <2>1 DEF Same, KnownOf
  <2> QED
    BY <2>2, <2>3, <2>4, <2>5
<1>6. ReceivedInv'
  <2>1. \A k \in written : history'[k] = history[k]
    BY <1>1, <1>4
  <2>2. \A q \in Syncs : parent'[q] \in {None, parent[q]}
    BY <1>1, <1>2 DEF Same
  <2>3. \A q \in Syncs : status'[q] = "ok" =>
           /\ own'[q] = own[q] /\ chain'[q] = chain[q]
           /\ own[q][chain[q]] \in written
    BY <1>1, <1>2, <1>3
       DEF Same, SerialInv, JobInv, JobOf, KnownInv, KnownOf, Known, TypeOK
  <2> QED
    BY <2>1, <2>2, <2>3, <1>1
       DEF SerialInv, KnownInv, KnownOf, Known, ReceivedInv, ReceivedOf
<1>7. OneAtATime'
  BY <1>1, <1>2 DEF Same, SerialInv, OneAtATime, Active
<1>8. JobInv'
  <2>1. JobOf(p)'
    BY <1>1, <1>3, <1>4
       DEF SerialInv, JobInv, JobOf, KnownInv, KnownOf, Known, Active, TypeOK,
           Chains
  <2>2. ASSUME NEW q \in Syncs, q # p
        PROVE  JobOf(q)'
    <3>1. Same(q) /\ JobOf(q)
      BY <1>2, <2>2 DEF SerialInv, JobInv
    <3>2. Active(q) => stream[q] \in Streams /\ stream[q] # stream[p]
      BY <1>1, <2>2 DEF SerialInv, OneAtATime, Active, TypeOK
    <3>3. \A c \in Chains : own[q][c] # None =>
              Active(q) /\ own[q][c] \in written
      BY <3>1 DEF JobOf, SerialInv, KnownInv, KnownOf, Known
    <3>4. /\ \A k \in written : history'[k] = history[k]
          /\ "extra" \in Chains /\ chain[q] \in Chains
      BY <1>1, <1>4 DEF Chains, TypeOK
    <3>5. Active(q)' = Active(q)
      BY <3>1 DEF Active, Same
    <3> QED
      BY <1>1, <3>1, <3>2, <3>3, <3>4, <3>5 DEF JobOf, Same
  <2> QED
    BY <2>1, <2>2 DEF JobInv
<1>9. PairInv'
  <2> SUFFICES ASSUME NEW q \in Syncs, NEW r \in Syncs, r # q,
                      stream'[q] = stream'[r], status'[r] = "sent"
               PROVE  PairOf(q, r)'
    BY DEF PairInv, PairOf
  <2>1. r # p /\ Same(r)
    BY <1>1, <1>2, <1>3 DEF Same
  <2>2. /\ src[r] \in written /\ old[r] \in written \cup {None}
        /\ \A c \in Chains : own[q][c] \in written \cup {None}
        /\ chain[r] \in Chains /\ id \notin written /\ None \notin written
        /\ PairOf(q, r)
    BY <1>1, <1>4, <2>1
       DEF SerialInv, KnownInv, KnownOf, Known, PairInv, TypeOK, Same
  <2>3. \A k \in written : tree'[k] = tree[k]
    BY <1>1, <1>4
  <2>4. CASE q = p
    BY <1>1, <1>3, <1>4, <2>1, <2>2, <2>3, <2>4 DEF PairOf, Same, Chains, TypeOK
  <2>5. CASE q # p
    BY <1>1, <1>2, <1>4, <2>1, <2>2, <2>3, <2>5 DEF PairOf, Same
  <2> QED
    BY <2>4, <2>5
<1>10. RequestInv'
  <2> SUFFICES ASSUME NEW q \in Syncs, status'[q] = "sent"
               PROVE  RequestOf(q)'
    BY DEF RequestInv, RequestOf
  <2>1. q # p /\ Same(q) /\ RequestOf(q)
    BY <1>1, <1>2, <1>3 DEF Same, SerialInv, RequestInv
  <2>2. src[q] \in written /\ old[q] \in written \cup {None}
    BY <1>1, <1>4, <2>1 DEF SerialInv, KnownInv, KnownOf, Known, TypeOK, Same
  <2>3. \A k \in written : tree'[k] = tree[k] /\ history'[k] = history[k]
    BY <1>1, <1>4
  <2> QED
    BY <1>1, <2>1, <2>2, <2>3 DEF RequestOf, Same
<1>11. NewestInv'
  <2> SUFFICES ASSUME NEW q \in Syncs, NEW c \in Chains,
                      stream[q] \in Streams, srv[stream[q]][c] # None
               PROVE  NewestOf(q, c)'
    BY <1>1 DEF NewestInv, NewestOf
  <2>1. /\ srv[stream[q]][c] \in written /\ own[q][c] \in Known
        /\ NewestOf(q, c)
    BY DEF SerialInv, KnownInv, KnownOf, Known, NewestInv
  <2>2. \A k \in written : tree'[k] = tree[k]
    BY <1>1, <1>4
  <2>3. CASE q = p
    BY <1>1, <1>4, <2>1, <2>2, <2>3 DEF NewestOf, Known
  <2>4. CASE q # p
    BY <1>1, <1>2, <1>4, <2>1, <2>2, <2>4 DEF NewestOf, Known, Same
  <2> QED
    BY <2>3, <2>4
<1>12. Promises'
  <2>1. \A k \in written : history'[k] = history[k]
    BY <1>1, <1>4
  <2>2. history'[id] \ {id} \subseteq received
    BY <1>1 DEF SerialInv, ReceivedInv, ReceivedOf
  <2>3. ExtraParentsReceived'
    BY <1>1, <2>1, <2>2 DEF SerialInv, Promises, ExtraParentsReceived
  <2>4. AckedTipIsServerTip'
    BY <1>1 DEF SerialInv, Promises, AckedTipIsServerTip
  <2>5. RetainedExtraIsServerAncestor'
    BY <1>1, <2>1
       DEF SerialInv, Promises, RetainedExtraIsServerAncestor, KnownInv, Known,
           Chains
  <2> QED
    BY <2>3, <2>4, <2>5 DEF Promises
<1> QED
  BY <1>5, <1>6, <1>7, <1>8, <1>9, <1>10, <1>11, <1>12 DEF SerialInv

\* All the invariant says of one invocation.
About(p) ==
    /\ KnownOf(p)
    /\ ReceivedOf(p)
    /\ JobOf(p)
    /\ RequestOf(p)
    /\ \A c \in Chains : NewestOf(p, c)
    /\ \A q \in Syncs \ {p} :
          /\ PairOf(p, q)
          /\ PairOf(q, p)
          /\ Active(p) /\ Active(q) => stream[p] # stream[q]

\* The invariant, as what it says of one invocation.
LEMMA AboutEach ==
    ASSUME SerialInv, NEW p \in Syncs
    PROVE  About(p)
BY DEF SerialInv, KnownInv, ReceivedInv, JobInv, RequestInv, NewestInv,
       PairInv, OneAtATime, About

\* A step that moves no ref keeps the invariant if it keeps what it says of
\* the one invocation the step is about.
LEMMA JobStep ==
    ASSUME TypeOK, StatusInv, SerialInv, NEW p \in Syncs, About(p)',
           \A q \in Syncs : q # p => Same(q),
           UNCHANGED <<work, written, tree, history, local, sent, srv,
                       forgotten>>,
           received \subseteq received',
           \A s \in Streams, c \in Chains : acked'[s][c] => acked[s][c]
    PROVE  SerialInv'
<1>1. KnownInv'
  <2>1. \A q \in Syncs : q # p => KnownOf(q)'
    BY DEF SerialInv, KnownInv, KnownOf, Known, Same
  <2> QED
    BY <2>1 DEF SerialInv, KnownInv, Known, About
<1>2. ReceivedInv'
  <2>1. \A q \in Syncs : q # p => ReceivedOf(q)'
    BY DEF SerialInv, ReceivedInv, ReceivedOf, Same
  <2> QED
    BY <2>1 DEF SerialInv, ReceivedInv, About
<1>3. OneAtATime'
  BY DEF SerialInv, OneAtATime, Same, About, Active
<1>4. JobInv'
  <2> SUFFICES ASSUME NEW q \in Syncs, q # p
               PROVE  JobOf(q)'
    BY DEF JobInv, About
  <2>1. Same(q) /\ JobOf(q)
    BY DEF SerialInv, JobInv
  <2>2. Active(q)' = Active(q)
    BY <2>1 DEF Active, Same
  <2> QED
    BY <2>1, <2>2 DEF JobOf, Same
<1>5. PairInv'
  <2> SUFFICES ASSUME NEW q \in Syncs, NEW r \in Syncs, q # p, r # p
               PROVE  PairOf(q, r)'
    BY DEF PairInv, About, PairOf
  <2>1. Same(q) /\ Same(r) /\ PairOf(q, r)
    BY DEF SerialInv, PairInv
  <2> QED
    BY <2>1 DEF PairOf, Same
<1>6. RequestInv'
  <2> SUFFICES ASSUME NEW q \in Syncs, q # p, status[q] = "sent"
               PROVE  RequestOf(q)'
    BY DEF RequestInv, About, RequestOf, Same
  <2>1. /\ Same(q) /\ RequestOf(q)
        /\ stream[q] \in Streams /\ chain[q] \in Chains
    BY DEF SerialInv, RequestInv, TypeOK, StatusInv
  <2> QED
    BY <2>1 DEF RequestOf, Same
<1>7. NewestInv'
  <2> SUFFICES ASSUME NEW q \in Syncs, NEW c \in Chains, q # p
               PROVE  NewestOf(q, c)'
    BY DEF NewestInv, About
  <2>1. Same(q) /\ NewestOf(q, c)
    BY DEF SerialInv, NewestInv
  <2> QED
    BY <2>1 DEF NewestOf, Same
<1>8. Promises'
  BY DEF SerialInv, Promises, ExtraParentsReceived, AckedTipIsServerTip,
         RetainedExtraIsServerAncestor
<1> QED
  BY <1>1, <1>2, <1>3, <1>4, <1>5, <1>6, <1>7, <1>8 DEF SerialInv

\* The working tree changes.
LEMMA EditSerial ==
    ASSUME TypeOK, SerialInv, Edit
    PROVE  SerialInv'
<1> USE DEF Edit, clientVars, jobVars, serverVars, observers
<1>1. KnownInv'
  <2>1. \A n \in Nat : n <= work => n <= work'
    BY DEF TypeOK
  <2>2. \A q \in Syncs : KnownOf(q)'
    BY <2>1 DEF SerialInv, KnownInv, KnownOf, Known, TypeOK
  <2> QED
    BY <2>1, <2>2 DEF SerialInv, KnownInv, Known, TypeOK
<1>2. UNCHANGED <<written, tree, history, local, sent, srv, received, phase,
                  stream, chain, snap, parent, own, src, status, old,
                  forgotten, acked>>
  OBVIOUS
<1> HIDE DEF Edit, clientVars, jobVars, serverVars, observers
<1>3. ReceivedInv' /\ Promises'
  BY <1>2 DEF SerialInv, ReceivedInv, ReceivedOf, Promises,
              ExtraParentsReceived, AckedTipIsServerTip,
              RetainedExtraIsServerAncestor
<1>4. OneAtATime' /\ JobInv'
  BY <1>2 DEF SerialInv, OneAtATime, JobInv, JobOf, Active
<1>5. PairInv' /\ RequestInv' /\ NewestInv'
  BY <1>2 DEF SerialInv, PairInv, PairOf, RequestInv, RequestOf, NewestInv,
              NewestOf
<1> QED
  BY <1>1, <1>3, <1>4, <1>5 DEF SerialInv

\* The start of an invocation.
LEMMA StartSerial ==
    ASSUME Serialised, TypeOK, StatusInv, SerialInv, NEW p \in Syncs,
           NEW s \in Streams, Start(p, s)
    PROVE  SerialInv'
<1>1. /\ phase[p] = "idle" /\ phase'[p] = "read"
      /\ stream'[p] = s
      /\ \A q \in Syncs : Active(q) => stream[q] # s
      /\ UNCHANGED <<clientVars, chain, snap, parent, own, src, status, old,
                     serverVars, observers>>
  BY DEF Start, TypeOK
<1>2. \A q \in Syncs : q # p => Same(q)
  BY OthersSame DEF SyncStep
<1>3. About(p) /\ status[p] = "none" /\ \A c \in Chains : own[p][c] = None
  BY <1>1, AboutEach DEF StatusInv, About, JobOf, Active
<1>4. UNCHANGED <<work, written, tree, history, local, sent, srv, received,
                  forgotten, acked>>
  BY <1>1 DEF clientVars, serverVars, observers
<1>5. KnownOf(p)' /\ ReceivedOf(p)' /\ RequestOf(p)'
  BY <1>1, <1>3, <1>4 DEF About, KnownOf, Known, ReceivedOf, RequestOf
<1>6. JobOf(p)'
  BY <1>1, <1>3, <1>4 DEF About, JobOf, Active, Chains
<1>7. \A c \in Chains : NewestOf(p, c)'
  BY <1>1, <1>3, <1>4 DEF NewestOf
<1>8. ASSUME NEW q \in Syncs, q # p
      PROVE  PairOf(p, q)' /\ PairOf(q, p)'
             /\ (Active(p)' /\ Active(q)' => stream'[p] # stream'[q])
  <2>1. Same(q) /\ chain[q] \in Chains
    BY <1>2, <1>8 DEF TypeOK
  <2> QED
    BY <1>1, <1>3, <1>4, <2>1 DEF PairOf, Same, Active
<1>9. About(p)'
  BY <1>5, <1>6, <1>7, <1>8 DEF About
<1> QED
  BY <1>2, <1>4, <1>9, JobStep

\* An encoder's read.
LEMMA ReadSerial ==
    ASSUME TypeOK, StatusInv, SerialInv, NEW p \in Syncs,
           ReadCode(p) \/ ReadExtra(p)
    PROVE  SerialInv'
<1>1. /\ phase[p] = "read" /\ phase'[p] = "write"
      /\ snap'[p] = work
      /\ parent'[p] = IF chain[p] = "code" THEN None
                      ELSE sent[stream[p]]["extra"]
      /\ UNCHANGED <<clientVars, stream, chain, own, src, status, old,
                     serverVars, observers>>
  BY DEF ReadCode, ReadExtra, Read, TypeOK, Ref
<1>2. \A q \in Syncs : q # p => Same(q)
  BY OthersSame DEF SyncStep
<1>3. /\ About(p) /\ KnownInv /\ ReceivedInv
      /\ status[p] = "none" /\ stream[p] \in Streams /\ "extra" \in Chains
  BY <1>1, AboutEach DEF StatusInv, TypeOK, SerialInv, Chains
<1>4. UNCHANGED <<work, written, tree, history, local, sent, srv, received,
                  forgotten, acked>>
  BY <1>1 DEF clientVars, serverVars, observers
<1>5. KnownOf(p)' /\ ReceivedOf(p)' /\ RequestOf(p)'
  <2>1. work <= work
    BY DEF TypeOK
  <2> QED
    BY <1>1, <1>3, <1>4, <2>1
       DEF About, KnownOf, KnownInv, Known, ReceivedOf, ReceivedInv, RequestOf
<1>6. JobOf(p)'
  BY <1>1, <1>3, <1>4 DEF About, JobOf, Active, Chains, TypeOK
<1>7. \A c \in Chains : NewestOf(p, c)'
  <2> SUFFICES ASSUME NEW c \in Chains, srv[stream[p]][c] # None
               PROVE  NewestOf(p, c)'
    BY <1>1, <1>4 DEF NewestOf
  <2>1. tree[srv[stream[p]][c]] <= work
    BY <1>3 DEF KnownInv, Known
  <2> QED
    BY <1>1, <1>3, <1>4, <2>1 DEF About, NewestOf
<1>8. ASSUME NEW q \in Syncs, q # p
      PROVE  PairOf(p, q)' /\ PairOf(q, p)'
             /\ (Active(p)' /\ Active(q)' => stream'[p] # stream'[q])
  <2>1. Same(q)
    BY <1>2, <1>8
  <2>2. status[q] = "sent" => tree[src[q]] <= work
    BY SyncAssumption, <1>3 DEF KnownInv, KnownOf, Known, TypeOK
  <2>3. PairOf(p, q) /\ (Active(q) => stream[p] # stream[q])
    BY <1>1, <1>3, <1>8 DEF About, Active
  <2> QED
    BY <1>1, <1>3, <1>4, <2>1, <2>2, <2>3 DEF PairOf, Same, Active
<1>9. About(p)'
  BY <1>5, <1>6, <1>7, <1>8 DEF About
<1> QED
  BY <1>2, <1>4, <1>9, JobStep

\* `git push` resolves the local ref, which is the commit just encoded.
LEMMA OpenPushSerial ==
    ASSUME TypeOK, StatusInv, SerialInv, NEW p \in Syncs, OpenPush(p)
    PROVE  SerialInv'
<1>1. /\ phase[p] = "open" /\ phase'[p] = "advertise"
      /\ local[stream[p]][chain[p]] # None
      /\ src'[p] = local[stream[p]][chain[p]]
      /\ UNCHANGED <<clientVars, stream, chain, snap, parent, own, status,
                     old, serverVars, observers>>
  BY DEF OpenPush, TypeOK
<1>2. \A q \in Syncs : q # p => Same(q)
  BY OthersSame DEF SyncStep
<1>3. /\ About(p) /\ KnownInv
      /\ status[p] = "none" /\ stream[p] \in Streams /\ chain[p] \in Chains
  BY <1>1, AboutEach DEF StatusInv, TypeOK, SerialInv
<1>4. UNCHANGED <<work, written, tree, history, local, sent, srv, received,
                  forgotten, acked>>
  BY <1>1 DEF clientVars, serverVars, observers
<1>5. KnownOf(p)' /\ ReceivedOf(p)' /\ RequestOf(p)'
  BY <1>1, <1>3, <1>4
     DEF About, KnownOf, KnownInv, Known, ReceivedOf, RequestOf
<1>6. JobOf(p)'
  BY <1>1, <1>3, <1>4 DEF About, JobOf, Active
<1>7. \A c \in Chains : NewestOf(p, c)'
  BY <1>1, <1>3, <1>4 DEF About, NewestOf
<1>8. ASSUME NEW q \in Syncs, q # p
      PROVE  PairOf(p, q)' /\ PairOf(q, p)'
             /\ (Active(p)' /\ Active(q)' => stream'[p] # stream'[q])
  <2>1. Same(q) /\ PairOf(p, q) /\ (Active(q) => stream[p] # stream[q])
    BY <1>1, <1>2, <1>3, <1>8 DEF About, Active
  <2> QED
    BY <1>1, <1>3, <1>4, <2>1 DEF PairOf, Same, Active
<1>9. About(p)'
  BY <1>5, <1>6, <1>7, <1>8 DEF About
<1> QED
  BY <1>2, <1>4, <1>9, JobStep

\* A request is made against the tip the server advertises.
LEMMA AdvertiseSerial ==
    ASSUME TypeOK, StatusInv, SerialInv, NEW p \in Syncs, Advertise(p)
    PROVE  SerialInv'
<1> DEFINE tip == srv[stream[p]][chain[p]]
<1>1. /\ phase[p] = "advertise" /\ phase'[p] = "await"
      /\ \/ /\ tip = src[p] /\ src'[p] = None
            /\ status'[p] = "ok" /\ old'[p] = old[p]
         \/ /\ tip # src[p] /\ src'[p] = src[p]
            /\ status'[p] = "sent" /\ old'[p] = tip
      /\ UNCHANGED <<clientVars, stream, chain, snap, parent, own, serverVars,
                     forgotten>>
  BY DEF Advertise, TypeOK
<1>2. \A q \in Syncs : q # p => Same(q)
  BY OthersSame DEF SyncStep
<1>3. /\ About(p) /\ KnownInv /\ ReceivedInv
      /\ status[p] = "none" /\ stream[p] \in Streams /\ chain[p] \in Chains
      /\ src[p] \in Commits /\ src[p] \in written /\ tip \in Known
  BY <1>1, AboutEach, SyncAssumption
     DEF StatusInv, TypeOK, SerialInv, KnownInv, KnownOf, Known
<1>4. UNCHANGED <<work, written, tree, history, local, sent, srv, received,
                  forgotten>>
  BY <1>1 DEF clientVars, serverVars
<1>5. /\ acked'[stream[p]][chain[p]] = FALSE
      /\ \A s \in Streams, c \in Chains : acked'[s][c] => acked[s][c]
  <2>1. acked' = [acked EXCEPT ![stream[p]][chain[p]] = FALSE]
    BY DEF Advertise
  <2> QED
    BY <1>3, <2>1 DEF TypeOK
<1>6. src[p] = own[p][chain[p]]
  BY <1>1, <1>3 DEF About, JobOf
<1>7. KnownOf(p)' /\ ReceivedOf(p)'
  BY <1>1, <1>3, <1>4, <1>6, SyncAssumption
     DEF About, KnownOf, Known, ReceivedOf, ReceivedInv
<1>8. RequestOf(p)'
  <2> SUFFICES ASSUME tip # src[p]
               PROVE  RequestOf(p)'
    BY <1>1 DEF RequestOf
  <2>1. /\ src'[p] = src[p] /\ old'[p] = tip
    BY <1>1
  <2>2. tip # None => tree[tip] <= tree[src[p]]
    BY <1>3, <1>6, SyncAssumption DEF About, NewestOf
  <2>3. chain[p] = "extra" /\ sent[stream[p]]["extra"] # None =>
            sent[stream[p]]["extra"] \in history[src[p]]
    BY <1>3, <1>6, SyncAssumption DEF About, JobOf
  <2> QED
    BY <1>1, <1>4, <1>5, <2>1, <2>2, <2>3 DEF RequestOf
<1>9. JobOf(p)'
  BY <1>1, <1>3, <1>4, <1>6 DEF About, JobOf, Active
<1>10. \A c \in Chains : NewestOf(p, c)'
  BY <1>1, <1>3, <1>4 DEF About, NewestOf
<1>11. ASSUME NEW q \in Syncs, q # p
       PROVE  PairOf(p, q)' /\ PairOf(q, p)'
              /\ (Active(p)' /\ Active(q)' => stream'[p] # stream'[q])
  <2>1. /\ Same(q) /\ PairOf(p, q)
        /\ stream[p] = stream[q] => ~Active(q)
    BY <1>1, <1>2, <1>3, <1>11 DEF About, Active
  <2>2. Active(p)' /\ Active(q)' => stream'[p] # stream'[q]
    BY <1>1, <2>1 DEF Same, Active
  <2>3. PairOf(p, q)'
    <3> SUFFICES ASSUME stream[p] = stream[q], status[q] = "sent"
                 PROVE  PairOf(p, q)'
      BY <1>1, <2>1 DEF PairOf, Same
    <3>1. chain[q] = chain[p] => src[q] # tip
      BY <1>3 DEF SerialInv, RequestInv, RequestOf
    <3>2. chain[q] = chain[p] => src[q] # src[p]
      BY <1>3, <1>6, <1>11, <2>1, SyncAssumption DEF PairOf
    <3> QED
      BY <1>1, <1>3, <1>4, <2>1, <3>1, <3>2 DEF PairOf, Same
  <2>4. PairOf(q, p)'
    <3> SUFFICES ASSUME stream[p] = stream[q], status'[p] = "sent"
                 PROVE  PairOf(q, p)'
      BY <1>1, <2>1 DEF PairOf, Same
    <3>1. \A c \in Chains : own[q][c] = None
      BY <2>1 DEF SerialInv, JobInv, JobOf
    <3>2. phase[q] # "write"
      BY <2>1 DEF Active
    <3>3. status[q] = "sent" /\ chain[q] = chain[p] =>
              src[p] # src[q] /\ src[p] # old[q]
      BY <1>3, <1>6, <1>11, <2>1, SyncAssumption DEF PairOf
    <3> QED
      BY <1>1, <1>3, <2>1, <3>1, <3>2, <3>3 DEF PairOf, Same
  <2> QED
    BY <2>2, <2>3, <2>4
<1>12. About(p)'
  BY <1>7, <1>8, <1>9, <1>10, <1>11 DEF About
<1> QED
  BY <1>2, <1>4, <1>5, <1>12, JobStep

\* The end of an invocation, with the exchange or leaving a request behind.
EndDoes(p) ==
    /\ phase[p] # "idle" /\ phase'[p] = "over"
    /\ stream'[p] = stream[p] /\ snap'[p] = 0 /\ parent'[p] = None
    /\ \A c \in Chains : own'[p][c] = None
    /\ \/ /\ chain'[p] = "code" /\ src'[p] = None
          /\ status'[p] = "none" /\ old'[p] = None
       \/ /\ status[p] = "sent"
          /\ chain'[p] = chain[p] /\ src'[p] = src[p]
          /\ status'[p] = "sent" /\ old'[p] = old[p]

\* What is left of an invocation that ends keeps the invariant.
LEMMA EndKeeps ==
    ASSUME TypeOK, StatusInv, SerialInv, NEW p \in Syncs, EndDoes(p),
           \A q \in Syncs : q # p => Same(q),
           UNCHANGED <<work, written, tree, history, local, sent, srv,
                       forgotten, received, acked>>
    PROVE  SerialInv'
<1>1. About(p) /\ chain[p] \in Chains
  BY AboutEach DEF TypeOK
<1>2. KnownOf(p)'
  BY <1>1 DEF EndDoes, About, KnownOf, Known, TypeOK
<1>3. ReceivedOf(p)' /\ RequestOf(p)'
  BY <1>1 DEF EndDoes, About, ReceivedOf, RequestOf
<1>4. JobOf(p)'
  BY DEF EndDoes, JobOf, Active, Chains
<1>5. \A c \in Chains : NewestOf(p, c)'
  BY DEF EndDoes, NewestOf
<1>6. ASSUME NEW q \in Syncs, q # p
      PROVE  PairOf(p, q)' /\ PairOf(q, p)'
             /\ (Active(p)' /\ Active(q)' => stream'[p] # stream'[q])
  <2>1. Same(q) /\ PairOf(p, q) /\ PairOf(q, p) /\ chain[q] \in Chains
    BY <1>1, <1>6 DEF About, TypeOK
  <2> QED
    BY <1>1, <2>1 DEF EndDoes, PairOf, Same, Active
<1>7. About(p)'
  BY <1>2, <1>3, <1>4, <1>5, <1>6 DEF About
<1> QED
  BY <1>7, JobStep

\* What the end of an invocation does.
LEMMA OverEffect ==
    ASSUME TypeOK, NEW p \in Syncs, phase[p] # "idle", Over(p),
           CloseExchange(p)
           \/ (status[p] = "sent" /\ UNCHANGED <<chain, src, status, old>>)
    PROVE  EndDoes(p)
BY DEF Over, CloseExchange, EndDoes, TypeOK, NoTips

\* The client fails, or learns how its push went.
LEMMA FailSerial ==
    ASSUME TypeOK, StatusInv, SerialInv, NEW p \in Syncs,
           PushReturned(p) \/ Fail(p)
    PROVE  SerialInv'
<1>1. UNCHANGED <<work, written, tree, history, local, sent, srv, received,
                  forgotten, acked>>
  BY DEF PushReturned, Fail, clientVars, serverVars, observers
<1>2. \A q \in Syncs : q # p => Same(q)
  BY OthersSame DEF SyncStep
<1>3. CASE Fail(p)
  <2>1. EndDoes(p)
    BY <1>3, OverEffect DEF Fail, Active
  <2> QED
    BY <1>1, <1>2, <2>1, EndKeeps
<1>4. CASE PushReturned(p) /\ status[p] = "refused"
  <2>1. EndDoes(p)
    BY <1>4, OverEffect DEF PushReturned
  <2> QED
    BY <1>1, <1>2, <2>1, EndKeeps
<1>5. CASE PushReturned(p) /\ status[p] = "ok"
  <2>1. /\ phase[p] = "await" /\ phase'[p] = "retain"
        /\ UNCHANGED <<stream, chain, snap, parent, own, src, status, old>>
    BY <1>5 DEF PushReturned, TypeOK
  <2>2. About(p)
    BY AboutEach
  <2>3. KnownOf(p)' /\ ReceivedOf(p)' /\ RequestOf(p)'
    BY <1>1, <2>1, <2>2 DEF About, KnownOf, Known, ReceivedOf, RequestOf
  <2>4. JobOf(p)' /\ \A c \in Chains : NewestOf(p, c)'
    BY <1>1, <1>5, <2>1, <2>2 DEF About, JobOf, NewestOf, Active
  <2>5. ASSUME NEW q \in Syncs, q # p
        PROVE  PairOf(p, q)' /\ PairOf(q, p)'
               /\ (Active(p)' /\ Active(q)' => stream'[p] # stream'[q])
    <3>1. /\ Same(q) /\ PairOf(p, q) /\ PairOf(q, p)
          /\ Active(q) => stream[p] # stream[q]
      BY <1>2, <2>1, <2>2, <2>5 DEF About, Active
    <3> QED
      BY <1>1, <2>1, <3>1 DEF PairOf, Same, Active
  <2>6. About(p)'
    BY <2>3, <2>4, <2>5 DEF About
  <2> QED
    BY <1>1, <1>2, <2>6, JobStep
<1> QED
  BY <1>3, <1>4, <1>5 DEF PushReturned

\* What the server's answer does to the invocation, if there still is one.
AnswerDoes(p, answer) ==
    /\ phase'[p] = phase[p] /\ stream'[p] = stream[p] /\ snap'[p] = snap[p]
    /\ parent'[p] = parent[p] /\ own'[p] = own[p]
    /\ src'[p] = None /\ old'[p] = None
    /\ \/ /\ phase[p] = "await"
          /\ status'[p] = answer /\ chain'[p] = chain[p]
       \/ /\ phase[p] = "over"
          /\ status'[p] = "none" /\ chain'[p] = "code"
    /\ UNCHANGED <<work, written, tree, history, local, sent, forgotten, acked>>

\* What the server's answer does.
LEMMA AnswerEffect ==
    ASSUME TypeOK, StatusInv, NEW p \in Syncs, status[p] = "sent",
           NEW answer \in {"ok", "refused"}, Answer(p, answer)
    PROVE  AnswerDoes(p, answer)
<1>1. phase[p] \in {"await", "over"}
  BY DEF TypeOK, StatusInv, Phases
<1>2. UNCHANGED <<clientVars, phase, stream, snap, parent, own, observers>>
  BY DEF Answer
<1>3. src'[p] = None /\ old'[p] = None
  BY DEF Answer, CloseExchange, TypeOK
<1>4. \/ /\ phase[p] = "await"
         /\ status'[p] = answer /\ chain'[p] = chain[p]
      \/ /\ phase[p] = "over"
         /\ status'[p] = "none" /\ chain'[p] = "code"
  BY <1>1 DEF Answer, CloseExchange, TypeOK
<1> QED
  BY <1>2, <1>3, <1>4 DEF AnswerDoes, clientVars, observers

\* An exchange that is refused or cut short.
LEMMA RefuseSerial ==
    ASSUME TypeOK, StatusInv, SerialInv, NEW p \in Syncs,
           RefuseStale(p) \/ DropExchange(p)
    PROVE  SerialInv'
<1>1. status[p] = "sent" /\ AnswerDoes(p, "refused")
  BY AnswerEffect DEF RefuseStale, DropExchange
<1>2. UNCHANGED srv /\ received \subseteq received'
  BY DEF RefuseStale, DropExchange, serverVars
<1>3. \A q \in Syncs : q # p => Same(q)
  BY OthersSame DEF ServerStep
<1>4. About(p)
  BY AboutEach
<1> USE DEF AnswerDoes
<1>5. KnownOf(p)'
  BY <1>1, <1>4 DEF About, KnownOf, Known
<1>6. ReceivedOf(p)' /\ RequestOf(p)'
  BY <1>1, <1>2, <1>4 DEF About, ReceivedOf, RequestOf
<1>7. JobOf(p)'
  BY <1>1, <1>2, <1>4 DEF About, JobOf, Active
<1>8. \A c \in Chains : NewestOf(p, c)'
  BY <1>1, <1>2, <1>4 DEF About, NewestOf
<1>9. ASSUME NEW q \in Syncs, q # p
      PROVE  PairOf(p, q)' /\ PairOf(q, p)'
             /\ (Active(p)' /\ Active(q)' => stream'[p] # stream'[q])
  <2>1. /\ Same(q) /\ PairOf(p, q)
        /\ Active(p) /\ Active(q) => stream[p] # stream[q]
    BY <1>3, <1>4, <1>9 DEF About
  <2> QED
    BY <1>1, <2>1 DEF PairOf, Same, Active
<1>10. About(p)'
  BY <1>5, <1>6, <1>7, <1>8, <1>9 DEF About
<1> QED
  BY <1>1, <1>2, <1>3, <1>10, JobStep

\* The server applies a request, of an invocation that waits for the answer
\* or of one that is long over.
LEMMA ReceivePackSerial ==
    ASSUME TypeOK, StatusInv, SerialInv, NEW p \in Syncs, ReceivePack(p)
    PROVE  SerialInv'
<1>1. status[p] = "sent" /\ AnswerDoes(p, "ok")
  BY AnswerEffect DEF ReceivePack, Apply
<1>2. /\ src[p] \in Commits /\ src[p] \in written
      /\ stream[p] \in Streams /\ chain[p] \in Chains
      /\ old[p] = srv[stream[p]][chain[p]]
      /\ None \notin Commits /\ "extra" \in Chains /\ written \subseteq Commits
  BY <1>1, SyncAssumption
     DEF ReceivePack, TypeOK, StatusInv, SerialInv, KnownInv, KnownOf, Known,
         Chains
<1>3. \A t \in Streams, d \in Chains :
         srv'[t][d] = IF t = stream[p] /\ d = chain[p] THEN src[p]
                      ELSE srv[t][d]
  <2>1. srv' = [srv EXCEPT ![stream[p]][chain[p]] = src[p]]
    BY DEF ReceivePack, Apply
  <2> QED
    BY <1>2, <2>1, MovedRef DEF TypeOK, Ref
<1>4. received' = received \cup history[src[p]]
  BY DEF ReceivePack, Apply
<1>5. \A q \in Syncs : q # p => Same(q)
  BY OthersSame DEF ServerStep
<1>6. About(p)
  BY AboutEach
<1>7. UNCHANGED <<work, written, tree, history, local, sent, forgotten, acked>>
  BY <1>1 DEF AnswerDoes
<1>8. KnownInv'
  <2>1. \A q \in Syncs : KnownOf(q)'
    <3>1. KnownOf(p)'
      BY <1>1, <1>6 DEF About, KnownOf, Known, AnswerDoes
    <3>2. ASSUME NEW q \in Syncs, q # p
          PROVE  KnownOf(q)'
      BY <1>5, <1>7, <3>2 DEF SerialInv, KnownInv, KnownOf, Known, Same
    <3> QED
      BY <3>1, <3>2
  <2> QED
    BY <1>2, <1>3, <1>7, <2>1 DEF SerialInv, KnownInv, Known
<1>9. ReceivedInv'
  <2>1. ReceivedOf(p)'
    BY <1>1, <1>2, <1>4, <1>6, <1>7
       DEF About, ReceivedOf, JobOf, AnswerDoes
  <2>2. ASSUME NEW q \in Syncs, q # p
        PROVE  ReceivedOf(q)'
    BY <1>4, <1>5, <1>7, <2>2 DEF SerialInv, ReceivedInv, ReceivedOf, Same
  <2> QED
    BY <1>3, <1>4, <1>7, <2>1, <2>2 DEF SerialInv, ReceivedInv
<1>10. OneAtATime'
  BY <1>1, <1>5 DEF SerialInv, OneAtATime, Same, Active, AnswerDoes
<1>11. JobInv'
  <2>1. JobOf(p)'
    BY <1>1, <1>2, <1>3, <1>6, <1>7 DEF About, JobOf, Active, AnswerDoes
  <2>2. ASSUME NEW q \in Syncs, q # p
        PROVE  JobOf(q)'
    <3>1. Same(q) /\ JobOf(q) /\ PairOf(q, p)
      BY <1>5, <2>2 DEF SerialInv, JobInv, PairInv
    <3>2. status[q] = "ok" =>
              /\ stream[q] \in Streams /\ chain[q] \in Chains
              /\ own[q][chain[q]] # None
      BY <3>1 DEF JobOf, TypeOK, StatusInv
    <3>3. status[q] = "ok" =>
              srv'[stream[q]][chain[q]] = srv[stream[q]][chain[q]]
              \/ forgotten[stream[q]]
      BY <1>1, <1>2, <1>3, <2>2, <3>1, <3>2 DEF PairOf, JobOf
    <3> QED
      BY <1>7, <3>1, <3>3 DEF JobOf, Same, Active
  <2> QED
    BY <2>1, <2>2 DEF JobInv
<1>12. PairInv'
  <2> SUFFICES ASSUME NEW q \in Syncs, NEW r \in Syncs, q # r,
                      stream[q] = stream[r], r # p, status[r] = "sent"
               PROVE  PairOf(q, r)'
    BY <1>1, <1>5 DEF PairInv, PairOf, Same, AnswerDoes
  <2>1. Same(r) /\ PairOf(q, r) /\ chain[r] \in Chains
    BY <1>5 DEF SerialInv, PairInv, TypeOK
  <2>2. CASE q = p
    BY <1>1, <1>7, <2>1, <2>2 DEF PairOf, Same, AnswerDoes
  <2>3. CASE q # p
    BY <1>5, <1>7, <2>1, <2>3 DEF PairOf, Same
  <2> QED
    BY <2>2, <2>3
<1>13. RequestInv'
  <2> SUFFICES ASSUME NEW q \in Syncs, q # p, status[q] = "sent"
               PROVE  RequestOf(q)'
    BY <1>1, <1>5 DEF RequestInv, RequestOf, Same, AnswerDoes
  <2>1. /\ Same(q) /\ RequestOf(q) /\ PairOf(p, q) /\ PairOf(q, p)
        /\ stream[q] \in Streams /\ chain[q] \in Chains
        /\ RequestOf(p)
    BY <1>5 DEF SerialInv, RequestInv, PairInv, TypeOK, StatusInv
  <2>2. CASE stream[q] = stream[p] /\ chain[q] = chain[p]
    <3>1. src[q] # src[p] /\ old[q] # src[p]
      BY <1>1, <2>1, <2>2 DEF PairOf
    <3> QED
      BY <1>2, <1>3, <1>7, <2>1, <2>2, <3>1 DEF RequestOf, Same
  <2>3. CASE ~(stream[q] = stream[p] /\ chain[q] = chain[p])
    BY <1>3, <1>7, <2>1, <2>3 DEF RequestOf, Same
  <2> QED
    BY <2>2, <2>3
<1>14. NewestInv'
  <2> SUFFICES ASSUME NEW q \in Syncs, NEW c \in Chains,
                      stream[q] \in Streams
               PROVE  NewestOf(q, c)'
    BY <1>1, <1>5 DEF NewestInv, NewestOf, Same, AnswerDoes
  <2>1. NewestOf(q, c) /\ JobOf(q) /\ PairOf(q, p)
    BY DEF SerialInv, NewestInv, JobInv, PairInv
  <2>2. stream'[q] = stream[q] /\ own'[q] = own[q] /\ snap'[q] = snap[q]
        /\ phase'[q] = phase[q] /\ (phase[q] = "write" => chain'[q] = chain[q])
    BY <1>1, <1>5 DEF Same, AnswerDoes
  <2>3. CASE ~(stream[q] = stream[p] /\ c = chain[p])
    BY <1>3, <1>7, <2>1, <2>2, <2>3 DEF NewestOf
  <2>4. CASE stream[q] = stream[p] /\ c = chain[p] /\ q # p
    BY <1>1, <1>2, <1>3, <1>7, <2>1, <2>2, <2>4 DEF NewestOf, PairOf
  <2>5. CASE q = p /\ c = chain[p]
    <3>1. own[p][c] # None => own[p][c] = src[p]
      BY <1>1, <2>1, <2>5 DEF JobOf, AnswerDoes, Active
    <3>2. phase[p] # "write" /\ tree[src[p]] <= tree[src[p]]
      BY <1>1, <1>2 DEF AnswerDoes, TypeOK
    <3> QED
      BY <1>2, <1>3, <1>7, <2>1, <2>2, <2>5, <3>1, <3>2 DEF NewestOf
  <2> QED
    BY <2>3, <2>4, <2>5
<1>15. Promises'
  <2>1. RequestOf(p)
    BY <1>6 DEF About
  <2>2. ExtraParentsReceived'
    BY <1>4, <1>7 DEF SerialInv, Promises, ExtraParentsReceived
  <2>3. AckedTipIsServerTip'
    BY <1>1, <1>2, <1>3, <1>7, <2>1
       DEF SerialInv, Promises, AckedTipIsServerTip, RequestOf
  <2>4. RetainedExtraIsServerAncestor'
    BY <1>1, <1>2, <1>3, <1>7, <2>1
       DEF SerialInv, Promises, RetainedExtraIsServerAncestor, RequestOf
  <2> QED
    BY <2>2, <2>3, <2>4 DEF Promises
<1> QED
  BY <1>8, <1>9, <1>10, <1>11, <1>12, <1>13, <1>14, <1>15 DEF SerialInv

\* What retaining a pushed tip does.
RetainDoes(p) ==
    /\ phase[p] = "retain" /\ stream[p] \in Streams
    /\ sent'[stream[p]][chain[p]] = own[p][chain[p]]
    /\ \A t \in Streams, d \in Chains :
          t # stream[p] \/ d # chain[p] =>
              sent'[t][d] = sent[t][d] /\ (acked'[t][d] <=> acked[t][d])
    /\ stream'[p] = stream[p]
    /\ \/ /\ chain[p] = "code" /\ chain'[p] = "extra"
          /\ own'[p]["code"] = None /\ own'[p]["extra"] = own[p]["extra"]
          /\ status'[p] = "none" /\ phase'[p] = "open"
          /\ snap'[p] = snap[p] /\ parent'[p] = parent[p]
          /\ src'[p] = src[p] /\ old'[p] = old[p]
       \/ /\ chain[p] = "extra" /\ chain'[p] = "code"
          /\ own'[p]["code"] = None /\ own'[p]["extra"] = None
          /\ status'[p] = "none" /\ phase'[p] = "over"
          /\ snap'[p] = 0 /\ parent'[p] = None
          /\ src'[p] = None /\ old'[p] = None
    /\ UNCHANGED <<work, written, tree, history, local, srv, received,
                   forgotten>>

\* What retaining a tip does.
LEMMA RetainEffect ==
    ASSUME TypeOK, NEW p \in Syncs, Retain(p)
    PROVE  RetainDoes(p)
<1>1. /\ phase[p] = "retain" /\ stream[p] \in Streams /\ chain[p] \in Chains
      /\ own[p][chain[p]] \in Ref
  BY DEF Retain, TypeOK
<1>2. /\ sent'[stream[p]][chain[p]] = own[p][chain[p]]
      /\ \A t \in Streams, d \in Chains :
            t # stream[p] \/ d # chain[p] =>
                sent'[t][d] = sent[t][d] /\ (acked'[t][d] <=> acked[t][d])
  <2>1. /\ sent' = [sent EXCEPT ![stream[p]][chain[p]] = own[p][chain[p]]]
        /\ acked' = [acked EXCEPT ![stream[p]][chain[p]] = TRUE]
    BY DEF Retain
  <2>2. \A t \in Streams, d \in Chains :
            t # stream[p] \/ d # chain[p] => (acked'[t][d] <=> acked[t][d])
    BY <1>1, <2>1 DEF TypeOK
  <2>3. /\ sent'[stream[p]][chain[p]] = own[p][chain[p]]
        /\ \A t \in Streams, d \in Chains :
              t # stream[p] \/ d # chain[p] => sent'[t][d] = sent[t][d]
    BY <1>1, <2>1 DEF TypeOK
  <2> QED
    BY <2>2, <2>3
<1>3. CASE chain[p] = "code"
  <2>1. /\ chain' = [chain EXCEPT ![p] = "extra"]
        /\ own' = [own EXCEPT ![p]["code"] = None]
        /\ status' = [status EXCEPT ![p] = "none"]
        /\ phase' = [phase EXCEPT ![p] = "open"]
        /\ UNCHANGED <<stream, snap, parent, src, old>>
    BY <1>3 DEF Retain
  <2>2. own'[p]["code"] = None /\ own'[p]["extra"] = own[p]["extra"]
    BY <2>1 DEF TypeOK, Chains
  <2> QED
    BY <1>1, <1>2, <1>3, <2>1, <2>2 DEF Retain, RetainDoes, TypeOK, serverVars
<1>4. CASE chain[p] = "extra"
  <2>1. Over(p) /\ CloseExchange(p)
    BY <1>4 DEF Retain
  <2> QED
    BY <1>1, <1>2, <1>4, <2>1
       DEF Over, CloseExchange, Retain, RetainDoes, TypeOK, serverVars,
           NoTips, Chains
<1> QED
  BY <1>1, <1>3, <1>4 DEF Chains

\* A pushed tip is retained.
LEMMA RetainSerial ==
    ASSUME TypeOK, StatusInv, SerialInv, NEW p \in Syncs, Retain(p)
    PROVE  SerialInv'
<1>1. RetainDoes(p)
  BY RetainEffect
<1> USE DEF RetainDoes
<1>2. \A q \in Syncs : q # p => Same(q)
  BY OthersSame DEF SyncStep
<1>3. /\ status[p] = "ok" /\ chain[p] \in Chains /\ Active(p)
      /\ own[p][chain[p]] \in written
      /\ history[own[p][chain[p]]] \subseteq received
      /\ ~forgotten[stream[p]] => srv[stream[p]][chain[p]] = own[p][chain[p]]
      /\ None \notin Commits /\ "code" \in Chains /\ "extra" \in Chains
      /\ written \subseteq Commits
  <2>1. /\ status[p] = "ok" /\ chain[p] \in Chains /\ Active(p)
        /\ "code" \in Chains /\ "extra" \in Chains /\ written \subseteq Commits
    BY <1>1 DEF StatusInv, TypeOK, Active, Chains
  <2>2. own[p][chain[p]] \in written
    BY <1>1, <2>1 DEF SerialInv, KnownInv, KnownOf, Known, JobInv, JobOf
  <2> QED
    BY <1>1, <2>1, <2>2, SyncAssumption
       DEF SerialInv, ReceivedInv, ReceivedOf, JobInv, JobOf
<1>4. About(p) /\ \A d \in Chains : own'[p][d] \in {None, own[p][d]}
  BY <1>1, AboutEach DEF Chains
<1>5. KnownInv'
  <2>1. KnownOf(p)'
    BY <1>1, <1>4 DEF About, KnownOf, Known, TypeOK
  <2>2. ASSUME NEW q \in Syncs, q # p
        PROVE  KnownOf(q)'
    <3>1. Same(q) /\ KnownOf(q) /\ UNCHANGED <<work, written>>
      BY <1>1, <1>2, <2>2 DEF SerialInv, KnownInv
    <3> QED
      BY <3>1 DEF KnownOf, Known, Same
  <2>3. \A t \in Streams, d \in Chains : sent'[t][d] \in Known
    BY <1>1, <1>3 DEF SerialInv, KnownInv, Known
  <2> QED
    BY <1>1, <2>1, <2>2, <2>3 DEF SerialInv, KnownInv, Known
<1>6. ReceivedInv'
  <2>1. ReceivedOf(p)'
    BY <1>1, <1>4 DEF About, ReceivedOf
  <2>2. ASSUME NEW q \in Syncs, q # p
        PROVE  ReceivedOf(q)'
    <3>1. Same(q) /\ ReceivedOf(q) /\ UNCHANGED <<history, received>>
      BY <1>1, <1>2, <2>2 DEF SerialInv, ReceivedInv
    <3> QED
      BY <3>1 DEF ReceivedOf, Same
  <2>3. \A t \in Streams, d \in Chains :
            sent'[t][d] # None => history[sent'[t][d]] \subseteq received
    BY <1>1, <1>3 DEF SerialInv, ReceivedInv
  <2> QED
    BY <1>1, <2>1, <2>2, <2>3 DEF SerialInv, ReceivedInv
<1>7. OneAtATime'
  <2>1. Active(p) /\ \A q \in Syncs : stream'[q] = stream[q]
    BY <1>1, <1>2, <1>3 DEF Same
  <2>2. \A q \in Syncs : Active(q)' => Active(q)
    BY <1>2, <2>1 DEF Same, Active
  <2> QED
    BY <2>1, <2>2 DEF SerialInv, OneAtATime
<1>8. JobInv'
  <2>1. JobOf(p)'
    BY <1>1, <1>3, <1>4 DEF About, JobOf, Active, Chains
  <2>2. ASSUME NEW q \in Syncs, q # p
        PROVE  JobOf(q)'
    <3>1. Same(q) /\ JobOf(q) /\ (Active(q) => stream[p] # stream[q])
      BY <1>2, <1>3, <1>4, <2>2 DEF SerialInv, JobInv, About
    <3>2. Active(q)' = Active(q)
      BY <3>1 DEF Active, Same
    <3>3. (\E c \in Chains : own[q][c] # None) \/ phase[q] = "write" =>
              Active(q) /\ stream[q] \in Streams
      BY <3>1 DEF JobOf, Active, TypeOK
    <3>4. (\E c \in Chains : own[q][c] # None) \/ phase[q] = "write" =>
              sent'[stream[q]]["extra"] = sent[stream[q]]["extra"]
      BY <1>1, <1>3, <3>1, <3>3
    <3> QED
      BY <1>1, <1>3, <3>1, <3>2, <3>4 DEF JobOf, Same
  <2> QED
    BY <2>1, <2>2 DEF JobInv
<1>9. PairInv'
  <2> SUFFICES ASSUME NEW q \in Syncs, NEW r \in Syncs, q # r,
                      stream[q] = stream[r], r # p, status[r] = "sent"
               PROVE  PairOf(q, r)'
    BY <1>1, <1>2 DEF PairInv, PairOf, Same
  <2>1. Same(r) /\ PairOf(q, r) /\ chain[r] \in Chains
    BY <1>2 DEF SerialInv, PairInv, TypeOK
  <2>2. CASE q = p
    BY <1>1, <1>4, <2>1, <2>2 DEF PairOf, Same
  <2>3. CASE q # p
    BY <1>1, <1>2, <2>1, <2>3 DEF PairOf, Same
  <2> QED
    BY <2>2, <2>3
<1>10. RequestInv'
  <2> SUFFICES ASSUME NEW q \in Syncs, q # p, status[q] = "sent"
               PROVE  RequestOf(q)'
    BY <1>1, <1>2 DEF RequestInv, RequestOf, Same
  <2>1. /\ Same(q) /\ RequestOf(q) /\ PairOf(p, q)
        /\ stream[q] \in Streams /\ chain[q] \in Chains
    BY <1>2 DEF SerialInv, RequestInv, PairInv, TypeOK, StatusInv
  <2>2. CASE stream[q] = stream[p] /\ chain[q] = chain[p]
    <3>1. ~forgotten[stream[q]] => old[q] # srv[stream[q]][chain[q]]
      BY <1>3, <2>1, <2>2 DEF PairOf
    <3> QED
      BY <1>1, <2>1, <3>1 DEF RequestOf, Same
  <2>3. CASE ~(stream[q] = stream[p] /\ chain[q] = chain[p])
    <3>1. /\ sent'[stream[q]][chain[q]] = sent[stream[q]][chain[q]]
          /\ acked'[stream[q]][chain[q]] => acked[stream[q]][chain[q]]
      BY <1>1, <2>1, <2>3
    <3> QED
      BY <1>1, <2>1, <3>1 DEF RequestOf, Same
  <2> QED
    BY <2>2, <2>3
<1>11. NewestInv'
  <2> SUFFICES ASSUME NEW q \in Syncs, NEW c \in Chains
               PROVE  NewestOf(q, c)'
    BY DEF NewestInv
  <2>1. NewestOf(q, c)
    BY DEF SerialInv, NewestInv
  <2>2. CASE q = p
    BY <1>1, <1>4, <2>1, <2>2 DEF NewestOf
  <2>3. CASE q # p
    BY <1>1, <1>2, <2>1, <2>3 DEF NewestOf, Same
  <2> QED
    BY <2>2, <2>3
<1>12. Promises'
  <2>1. ExtraParentsReceived'
    BY <1>1 DEF SerialInv, Promises, ExtraParentsReceived
  <2>2. AckedTipIsServerTip'
    <3> SUFFICES ASSUME NEW t \in Streams, NEW d \in Chains,
                        ~forgotten[t], acked'[t][d]
                 PROVE  sent'[t][d] # None /\ sent'[t][d] = srv[t][d]
      BY <1>1 DEF AckedTipIsServerTip
    <3>1. CASE t = stream[p] /\ d = chain[p]
      BY <1>1, <1>3, <3>1
    <3>2. CASE t # stream[p] \/ d # chain[p]
      BY <1>1, <3>2 DEF SerialInv, Promises, AckedTipIsServerTip
    <3> QED
      BY <3>1, <3>2
  <2>3. RetainedExtraIsServerAncestor'
    <3> SUFFICES ASSUME NEW t \in Streams, ~forgotten[t],
                        sent'[t]["extra"] # None
                 PROVE  /\ srv[t]["extra"] # None
                        /\ sent'[t]["extra"] \in history[srv[t]["extra"]]
      BY <1>1 DEF RetainedExtraIsServerAncestor
    <3>1. CASE t = stream[p] /\ chain[p] = "extra"
      BY <1>1, <1>3, <3>1 DEF SerialInv, KnownInv
    <3>2. CASE t # stream[p] \/ chain[p] # "extra"
      BY <1>1, <1>3, <3>2 DEF SerialInv, Promises, RetainedExtraIsServerAncestor
    <3> QED
      BY <3>1, <3>2
  <2> QED
    BY <2>1, <2>2, <2>3 DEF Promises
<1> QED
  BY <1>5, <1>6, <1>7, <1>8, <1>9, <1>10, <1>11, <1>12 DEF SerialInv

\* A forget, on either side, takes refs away and is remembered for the server.
ForgetDoes ==
    /\ \A t \in Streams, d \in Chains :
          /\ local'[t][d] \in {None, local[t][d]}
          /\ sent'[t][d] \in {None, sent[t][d]}
          /\ srv'[t][d] \in {None, srv[t][d]}
          /\ ~forgotten'[t] => srv'[t][d] = srv[t][d]
          /\ acked'[t][d] =>
                acked[t][d] /\ sent'[t][d] = sent[t][d]
    /\ \A t \in Streams : forgotten[t] => forgotten'[t]
    /\ UNCHANGED <<work, written, tree, history, jobVars, received>>

\* What a forget does, at either end.
LEMMA ForgetEffect ==
    ASSUME TypeOK, NEW s \in Streams, Forget(s)
    PROVE  ForgetDoes
<1>1. CASE ForgetRemote(s)
  <2>1. PICK c \in Chains :
            /\ srv' = [srv EXCEPT ![s][c] = None]
            /\ forgotten' = [forgotten EXCEPT ![s] = TRUE]
    BY <1>1 DEF ForgetRemote
  <2>2. \A t \in Streams, d \in Chains :
           /\ srv'[t][d] \in {None, srv[t][d]}
           /\ ~forgotten'[t] => srv'[t][d] = srv[t][d]
           /\ forgotten[t] => forgotten'[t]
    BY <2>1 DEF TypeOK
  <2> QED
    BY <1>1, <2>2
       DEF ForgetRemote, ForgetDoes, clientVars, serverVars, observers, Chains
<1>2. CASE ForgetLocal(s)
  <2>1. PICK c \in Chains :
            \/ /\ local' = [local EXCEPT ![s][c] = None]
               /\ UNCHANGED <<sent, acked>>
            \/ /\ sent' = [sent EXCEPT ![s][c] = None]
               /\ acked' = [acked EXCEPT ![s][c] = FALSE]
               /\ UNCHANGED local
    BY <1>2 DEF ForgetLocal
  <2>2. CASE /\ sent' = [sent EXCEPT ![s][c] = None]
             /\ acked' = [acked EXCEPT ![s][c] = FALSE]
             /\ UNCHANGED local
    <3>1. \A t \in Streams, d \in Chains :
             acked'[t][d] => acked[t][d] /\ sent'[t][d] = sent[t][d]
      BY <2>2 DEF TypeOK
    <3>2. \A t \in Streams, d \in Chains :
             sent'[t][d] \in {None, sent[t][d]}
      BY <2>2 DEF TypeOK
    <3> QED
      BY <1>2, <2>2, <3>1, <3>2
         DEF ForgetLocal, ForgetDoes, serverVars, observers
  <2>3. CASE local' = [local EXCEPT ![s][c] = None] /\ UNCHANGED <<sent, acked>>
    <3>1. \A t \in Streams, d \in Chains :
             local'[t][d] \in {None, local[t][d]}
      BY <2>3 DEF TypeOK
    <3> QED
      BY <1>2, <2>3, <3>1 DEF ForgetLocal, ForgetDoes, serverVars, observers
  <2> QED
    BY <2>1, <2>2, <2>3
<1> QED
  BY <1>1, <1>2 DEF Forget

\* Forgetting a stream keeps the invariant.
LEMMA ForgetSerial ==
    ASSUME TypeOK, StatusInv, SerialInv, NEW s \in Streams, Forget(s)
    PROVE  SerialInv'
<1>1. ForgetDoes
  BY ForgetEffect
<1> USE DEF ForgetDoes
<1>2. UNCHANGED <<work, written, tree, history, received, phase, stream, chain,
                  snap, parent, own, src, status, old>>
  BY <1>1 DEF jobVars
<1>3. \A q \in Syncs :
          /\ chain[q] \in Chains /\ "extra" \in Chains
          /\ Active(q) \/ status[q] # "none" => stream[q] \in Streams
  BY DEF TypeOK, StatusInv, Active, Chains
<1>4. KnownInv'
  BY <1>1, <1>2 DEF SerialInv, KnownInv, KnownOf, Known
<1>5. ReceivedInv'
  BY <1>1, <1>2 DEF SerialInv, ReceivedInv, ReceivedOf
<1>6. OneAtATime'
  BY <1>2 DEF SerialInv, OneAtATime, Active
<1>7. JobInv'
  <2> SUFFICES ASSUME NEW q \in Syncs
               PROVE  JobOf(q)'
    BY DEF JobInv
  <2>1. JobOf(q) /\ Active(q)' = Active(q)
    BY <1>2 DEF SerialInv, JobInv, Active
  <2>2. \A c \in Chains : own[q][c] # None => stream[q] \in Streams
    BY <1>3, <2>1 DEF JobOf
  <2>3. phase[q] = "write" => stream[q] \in Streams
    BY <1>3 DEF Active
  <2> QED
    BY <1>1, <1>2, <1>3, <2>1, <2>2, <2>3 DEF JobOf
<1>8. PairInv'
  BY <1>2 DEF SerialInv, PairInv, PairOf
<1>9. RequestInv'
  BY <1>1, <1>2, <1>3, SyncAssumption
     DEF SerialInv, RequestInv, RequestOf, TypeOK
<1>10. NewestInv'
  BY <1>1, <1>2 DEF SerialInv, NewestInv, NewestOf
<1>11. Promises'
  <2>1. ExtraParentsReceived'
    BY <1>2 DEF SerialInv, Promises, ExtraParentsReceived
  <2>2. AckedTipIsServerTip'
    BY <1>1 DEF SerialInv, Promises, AckedTipIsServerTip
  <2>3. RetainedExtraIsServerAncestor'
    BY <1>1, <1>2, <1>3
       DEF SerialInv, Promises, RetainedExtraIsServerAncestor, Chains
  <2> QED
    BY <2>1, <2>2, <2>3 DEF Promises
<1> QED
  BY <1>4, <1>5, <1>6, <1>7, <1>8, <1>9, <1>10, <1>11 DEF SerialInv

-----------------------------------------------------------------------------
(* The theorems.                                                           *)

\* Every step keeps the invariant.
LEMMA SerialPreserved ==
    ASSUME Serialised, TypeOK, StatusInv, SerialInv, [Next]_vars
    PROVE  SerialInv'
<1>1. CASE Edit
  BY <1>1, EditSerial
<1>2. ASSUME NEW p \in Syncs, SyncStep(p) \/ ServerStep(p)
      PROVE  SerialInv'
  BY <1>2, StartSerial, ReadSerial, WriteSerial, OpenPushSerial,
     AdvertiseSerial, FailSerial, RetainSerial, ReceivePackSerial, RefuseSerial
     DEF SyncStep, ServerStep
<1>3. ASSUME NEW s \in Streams, Forget(s)
      PROVE  SerialInv'
  BY <1>3, ForgetSerial
<1>4. CASE UNCHANGED vars
  <2>1. UNCHANGED <<work, written, tree, history, local, sent, srv, received,
                    phase, stream, chain, snap, parent, own, src, status, old,
                    forgotten, acked>>
    BY <1>4 DEF vars, clientVars, jobVars, serverVars, observers
  <2>2. KnownInv' /\ ReceivedInv' /\ OneAtATime' /\ JobInv'
    BY <2>1 DEF SerialInv, KnownInv, KnownOf, Known, ReceivedInv, ReceivedOf,
                OneAtATime, JobInv, JobOf, Active
  <2>3. PairInv' /\ RequestInv' /\ NewestInv' /\ Promises'
    BY <2>1 DEF SerialInv, PairInv, PairOf, RequestInv, RequestOf, NewestInv,
                NewestOf, Promises, ExtraParentsReceived, AckedTipIsServerTip,
                RetainedExtraIsServerAncestor
  <2> QED
    BY <2>2, <2>3 DEF SerialInv
<1> QED
  BY <1>1, <1>2, <1>3, <1>4 DEF Next

\* The invariant holds at first.
LEMMA SerialInit == Init => SerialInv
<1> SUFFICES ASSUME Init PROVE SerialInv
  OBVIOUS
<1> USE DEF Init, NoRefs, NoTips
<1>1. KnownInv /\ ReceivedInv
  BY DEF KnownInv, KnownOf, Known, ReceivedInv, ReceivedOf
<1>2. OneAtATime /\ JobInv
  BY DEF OneAtATime, JobInv, JobOf, Active, Chains
<1>3. PairInv /\ RequestInv /\ NewestInv
  BY DEF PairInv, PairOf, RequestInv, RequestOf, NewestInv, NewestOf
<1>4. Promises
  BY DEF Promises, ExtraParentsReceived, AckedTipIsServerTip,
         RetainedExtraIsServerAncestor, Chains
<1> QED
  BY <1>1, <1>2, <1>3, <1>4 DEF SerialInv

\* The invariant of a user who never overlaps two syncs of one stream.
THEOREM SerialInvariant ==
    ASSUME Serialised
    PROVE  Spec => []SerialInv
<1>1. TypeOK /\ StatusInv /\ SerialInv /\ [Next]_vars => SerialInv'
  BY SerialPreserved
<1> QED
  BY <1>1, SerialInit, TypeInvariant, PTL DEF Spec

\* The inductive invariant contains the three promises; the comments at their
\* definitions in Sync say what each is about.
LEMMA PromisesKept ==
    ASSUME Serialised
    PROVE  Spec => []Promises
<1>1. SerialInv => Promises
  BY DEF SerialInv
<1> QED
  BY <1>1, SerialInvariant, PTL

\* Whatever pushes failed, encode_extra never parents a commit on something
\* the server lacks.
THEOREM ParentsReceived ==
    ASSUME Serialised
    PROVE  Spec => []ExtraParentsReceived
<1>1. Promises => ExtraParentsReceived
  BY DEF Promises
<1> QED
  BY <1>1, PromisesKept, PTL

\* A retained tip of a confirmed push is the server's tip until the chain's
\* next exchange opens, whatever requests arrive late.
THEOREM AckedTipStays ==
    ASSUME Serialised
    PROVE  Spec => []AckedTipIsServerTip
<1>1. Promises => AckedTipIsServerTip
  BY DEF Promises
<1> QED
  BY <1>1, PromisesKept, PTL

\* The server's `extra` tip descends from the retained one until the stream
\* is forgotten.
THEOREM ServerExtraDescends ==
    ASSUME Serialised
    PROVE  Spec => []RetainedExtraIsServerAncestor
<1>1. Promises => RetainedExtraIsServerAncestor
  BY DEF Promises
<1> QED
  BY <1>1, PromisesKept, PTL

-----------------------------------------------------------------------------
(* Sync implements SyncedState.                                            *)

Tables == [Streams -> [Chains -> Nat \cup {None}]]

\* Two tables that differ in at most one entry.
LEMMA OneEntry ==
    ASSUME NEW F \in Tables, NEW G \in Tables,
           NEW s \in Streams, NEW c \in Chains,
           \A t \in Streams, d \in Chains :
              t # s \/ d # c => G[t][d] = F[t][d]
    PROVE  G = [F EXCEPT ![s][c] = G[s][c]]
<1> DEFINE H == [F EXCEPT ![s][c] = G[s][c]]
<1>1. G \in [Streams -> [Chains -> Nat \cup {None}]]
      /\ H \in [Streams -> [Chains -> Nat \cup {None}]]
  BY DEF Tables
<1>2. ASSUME NEW t \in Streams
      PROVE  G[t] = H[t]
  <2>1. \A d \in Chains : G[t][d] = H[t][d]
    BY DEF Tables
  <2>2. G[t] \in [Chains -> Nat \cup {None}] /\ H[t] \in [Chains -> Nat \cup {None}]
    BY <1>1
  <2> HIDE DEF H
  <2> QED
    BY <2>1, <2>2
<1> HIDE DEF H
<1>3. G = H
  BY <1>1, <1>2
<1> QED
  BY <1>3 DEF H

\* What the server shows and what the clients were told are tables.
LEMMA TableTypes ==
    ASSUME TypeOK, TypeOK'
    PROVE  /\ Shown \in Tables /\ Shown' \in Tables
           /\ Told \in Tables /\ Told' \in Tables
BY DEF TypeOK, Shown, Told, Version, Tables, Ref

\* The entries of the two tables.
LEMMA Entries ==
    ASSUME NEW s \in Streams, NEW c \in Chains
    PROVE  /\ Shown[s][c] = Version(srv[s][c])
           /\ Shown'[s][c] = Version(srv[s][c])'
           /\ Told[s][c] = Version(sent[s][c])
           /\ Told'[s][c] = Version(sent[s][c])'
BY DEF Shown, Told

\* Two tables with the same entries are equal.
LEMMA SameTable ==
    ASSUME NEW F \in Tables, NEW G \in Tables,
           \A t \in Streams, d \in Chains : G[t][d] = F[t][d]
    PROVE  G = F
<1>1. \A t \in Streams : G[t] = F[t]
  BY DEF Tables
<1> QED
  BY <1>1 DEF Tables

\* The version a ref shows does not depend on commits written later.
LEMMA VersionsKept ==
    ASSUME TypeOK, StatusInv, SerialInv, [Next]_vars
    PROVE  \A k \in written : tree'[k] = tree[k]
<1>1. ASSUME NEW p \in Syncs, SyncStep(p) \/ ServerStep(p)
      PROVE  \A k \in written : tree'[k] = tree[k]
  <2>1. CASE WriteCode(p) \/ WriteExtra(p)
    BY <2>1, WriteEffect DEF WriteDoes, TypeOK
  <2>2. CASE ~(WriteCode(p) \/ WriteExtra(p))
    BY <1>1, <2>2
       DEF SyncStep, ServerStep, Start, ReadCode, ReadExtra, Read, OpenPush,
           Advertise, PushReturned, Retain, Fail, ReceivePack, Apply,
           RefuseStale, DropExchange, Answer, clientVars
  <2> QED
    BY <2>1, <2>2
<1>2. CASE Edit \/ (\E s \in Streams : Forget(s)) \/ UNCHANGED vars
  BY <1>2 DEF Edit, Forget, ForgetRemote, ForgetLocal, vars, clientVars
<1> QED
  BY <1>1, <1>2 DEF Next

\* An entry moves only with its ref.
LEMMA EntriesKept ==
    ASSUME TypeOK, SerialInv, \A k \in written : tree'[k] = tree[k],
           NEW s \in Streams, NEW c \in Chains
    PROVE  /\ srv'[s][c] = srv[s][c] => Shown'[s][c] = Shown[s][c]
           /\ sent'[s][c] = sent[s][c] => Told'[s][c] = Told[s][c]
<1>1. srv[s][c] \in Known /\ sent[s][c] \in Known
  BY DEF SerialInv, KnownInv
<1> QED
  BY <1>1, Entries DEF Version, Known

\* A step that moves neither table and forgets nothing is a stutter.
LEMMA Stutter ==
    ASSUME TypeOK, TypeOK', SerialInv, \A k \in written : tree'[k] = tree[k],
           UNCHANGED <<work, srv, sent, forgotten>>
    PROVE  UNCHANGED State!vars
<1>1. Shown' = Shown /\ Told' = Told
  BY EntriesKept, TableTypes, SameTable
<1> QED
  BY <1>1 DEF State!vars

\* A commit records a version the working tree has had.
LEMMA VersionBound ==
    ASSUME TypeOK, SerialInv, NEW id \in written
    PROVE  tree[id] \in 0..work
<1>1. tree[id] \in Nat /\ work \in Nat
  BY DEF TypeOK
<1>2. tree[id] <= work
  BY DEF SerialInv, KnownInv
<1> QED
  BY <1>1, <1>2

\* A request that is applied delivers a version, and no older one.
LEMMA ReceivePackDelivers ==
    ASSUME TypeOK, TypeOK', StatusInv, SerialInv, NEW p \in Syncs,
           ReceivePack(p)
    PROVE  [State!Next]_(State!vars)
<1> DEFINE s == stream[p]
           c == chain[p]
<1>1. /\ status[p] = "sent" /\ AnswerDoes(p, "ok")
      /\ srv[s][c] = old[p]
      /\ srv' = [srv EXCEPT ![s][c] = src[p]]
  BY AnswerEffect DEF ReceivePack, Apply
<1>2. /\ s \in Streams /\ c \in Chains /\ src[p] \in Commits
      /\ src[p] \in written /\ old[p] \in Known /\ None \notin Commits
      /\ written \subseteq Commits
  BY <1>1, SyncAssumption
     DEF TypeOK, StatusInv, SerialInv, KnownInv, KnownOf, Known
<1>3. UNCHANGED <<work, tree, sent, forgotten>>
  BY <1>1 DEF AnswerDoes
<1> HIDE DEF s, c
<1>4. /\ srv'[s][c] = src[p]
      /\ \A t \in Streams, d \in Chains :
            t # s \/ d # c => srv'[t][d] = srv[t][d]
  BY <1>1, <1>2 DEF TypeOK
<1>5. /\ Told' = Told
      /\ \A t \in Streams, d \in Chains :
            t # s \/ d # c => Shown'[t][d] = Shown[t][d]
  BY <1>3, <1>4, EntriesKept, TableTypes, SameTable
<1>6. CASE Shown'[s][c] = Shown[s][c]
  <2>1. Shown' = Shown
    BY <1>5, <1>6, TableTypes, SameTable
  <2> QED
    BY <1>3, <1>5, <2>1 DEF State!vars
<1>7. CASE Shown'[s][c] # Shown[s][c]
  <2>1. Shown' = [Shown EXCEPT ![s][c] = Shown'[s][c]]
    BY <1>2, <1>5, TableTypes, OneEntry
  <2>2. Shown'[s][c] = tree[src[p]] /\ tree[src[p]] \in 0..work
    BY <1>2, <1>3, <1>4, Entries, VersionBound DEF Version
  <2>3. Shown[s][c] # None => Shown[s][c] <= tree[src[p]]
    <3>1. Shown[s][c] # None => old[p] # None /\ Shown[s][c] = tree[old[p]]
      BY <1>1, <1>2, Entries DEF Version, s, c
    <3> QED
      BY <1>1, <3>1 DEF SerialInv, RequestInv, RequestOf
  <2>4. Shown[s][c] # None => Shown[s][c] < Shown'[s][c]
    <3>1. Shown[s][c] \in Nat \cup {None} /\ tree[src[p]] \in Nat
      BY <1>2, TableTypes DEF Tables, TypeOK
    <3> QED
      BY <1>7, <2>2, <2>3, <3>1
  <2>5. State!Deliver(s, c)
    BY <1>3, <1>5, <1>7, <2>1, <2>2, <2>4 DEF State!Deliver
  <2> QED
    BY <1>2, <2>5 DEF State!Next
<1> QED
  BY <1>6, <1>7

\* Retaining a tip tells the client what is shown.
LEMMA RetainConfirms ==
    ASSUME TypeOK, TypeOK', StatusInv, SerialInv, NEW p \in Syncs, Retain(p)
    PROVE  [State!Next]_(State!vars)
<1> DEFINE s == stream[p]
           c == chain[p]
<1>1. RetainDoes(p) /\ s \in Streams /\ c \in Chains /\ status[p] = "ok"
  BY RetainEffect DEF RetainDoes, TypeOK, StatusInv
<1>2. /\ own[p][c] \in written /\ None \notin Commits
      /\ written \subseteq Commits
      /\ ~forgotten[s] => srv[s][c] = own[p][c]
  BY <1>1, SyncAssumption
     DEF SerialInv, JobInv, JobOf, KnownInv, KnownOf, Known, RetainDoes, TypeOK
<1>3. UNCHANGED <<work, tree, srv, forgotten>>
  BY <1>1 DEF RetainDoes
<1>4. /\ sent'[s][c] = own[p][c]
      /\ \A t \in Streams, d \in Chains :
            t # s \/ d # c => sent'[t][d] = sent[t][d]
  BY <1>1 DEF RetainDoes
<1> HIDE DEF s, c
<1>5. /\ Shown' = Shown
      /\ \A t \in Streams, d \in Chains :
            t # s \/ d # c => Told'[t][d] = Told[t][d]
  BY <1>3, <1>4, EntriesKept, TableTypes, SameTable
<1>6. CASE Told'[s][c] = Told[s][c]
  <2>1. Told' = Told
    BY <1>5, <1>6, TableTypes, SameTable
  <2> QED
    BY <1>3, <1>5, <2>1 DEF State!vars
<1>7. CASE Told'[s][c] # Told[s][c]
  <2>1. Told' = [Told EXCEPT ![s][c] = Told'[s][c]]
    BY <1>1, <1>5, TableTypes, OneEntry
  <2>2. Told'[s][c] = tree[own[p][c]] /\ tree[own[p][c]] \in 0..work
    BY <1>1, <1>2, <1>3, <1>4, Entries, VersionBound DEF Version
  <2>3. ~forgotten[s] => Shown[s][c] = tree[own[p][c]]
    BY <1>1, <1>2, Entries DEF Version
  <2>4. State!Confirm(s, c)
    BY <1>3, <1>5, <1>7, <2>1, <2>2, <2>3 DEF State!Confirm
  <2> QED
    BY <1>1, <2>4 DEF State!Next
<1> QED
  BY <1>6, <1>7

\* Forgetting takes what is shown, or what was told, away.
LEMMA ForgetWithdraws ==
    ASSUME TypeOK, TypeOK', SerialInv, NEW s \in Streams, Forget(s)
    PROVE  [State!Next]_(State!vars)
<1>1. UNCHANGED <<work, tree, written>>
  BY DEF Forget, ForgetRemote, ForgetLocal, clientVars
<1>2. CASE ForgetRemote(s)
  <2>1. PICK c \in Chains :
            /\ srv[s][c] # None
            /\ srv' = [srv EXCEPT ![s][c] = None]
            /\ forgotten' = [forgotten EXCEPT ![s] = TRUE]
            /\ UNCHANGED sent
    BY <1>2 DEF ForgetRemote, clientVars
  <2>2. /\ srv'[s][c] = None
        /\ \A t \in Streams, d \in Chains :
              t # s \/ d # c => srv'[t][d] = srv[t][d]
    BY <2>1 DEF TypeOK
  <2>3. /\ Told' = Told
        /\ \A t \in Streams, d \in Chains :
              t # s \/ d # c => Shown'[t][d] = Shown[t][d]
    BY <1>1, <2>1, <2>2, EntriesKept, TableTypes, SameTable
  <2>4. Shown'[s][c] = None
    BY <2>2, Entries DEF Version
  <2>5. Shown[s][c] # None
    <3>1. srv[s][c] \in Commits
      BY <2>1 DEF TypeOK, Ref
    <3> QED
      BY <2>1, <3>1, NoVersionAssumption, Entries DEF Version, TypeOK
  <2>6. Shown' = [Shown EXCEPT ![s][c] = None]
    <3>1. Shown' = [Shown EXCEPT ![s][c] = Shown'[s][c]]
      BY <2>3, TableTypes, OneEntry
    <3> QED
      BY <2>4, <3>1
  <2>7. State!Withdraw(s, c)
    BY <1>1, <2>1, <2>3, <2>4, <2>5, <2>6 DEF State!Withdraw
  <2> QED
    BY <2>7 DEF State!Next
<1>3. CASE ForgetLocal(s)
  <2>1. UNCHANGED <<srv, forgotten>>
    BY <1>3 DEF ForgetLocal, serverVars
  <2>2. CASE UNCHANGED sent
    BY <1>1, <2>1, <2>2, Stutter
  <2>3. CASE \E c \in Chains :
                sent[s][c] # None /\ sent' = [sent EXCEPT ![s][c] = None]
    <3>1. PICK c \in Chains :
              sent[s][c] # None /\ sent' = [sent EXCEPT ![s][c] = None]
      BY <2>3
    <3>2. /\ sent'[s][c] = None
          /\ \A t \in Streams, d \in Chains :
                t # s \/ d # c => sent'[t][d] = sent[t][d]
      BY <3>1 DEF TypeOK
    <3>3. /\ Shown' = Shown
          /\ \A t \in Streams, d \in Chains :
                t # s \/ d # c => Told'[t][d] = Told[t][d]
      BY <1>1, <2>1, <3>2, EntriesKept, TableTypes, SameTable
    <3>4. Told'[s][c] = None
      BY <3>2, Entries DEF Version
    <3>5. Told[s][c] # None
      <4>1. sent[s][c] \in Commits
        BY <3>1 DEF TypeOK, Ref
      <4> QED
        BY <3>1, <4>1, NoVersionAssumption, Entries DEF Version, TypeOK
    <3>6. Told' = [Told EXCEPT ![s][c] = None]
      <4>1. Told' = [Told EXCEPT ![s][c] = Told'[s][c]]
        BY <3>3, TableTypes, OneEntry
      <4> QED
        BY <3>4, <4>1
    <3>7. State!Unlearn(s, c)
      BY <1>1, <2>1, <3>3, <3>4, <3>5, <3>6 DEF State!Unlearn
    <3> QED
      BY <3>7 DEF State!Next
  <2> QED
    BY <1>3, <2>2, <2>3 DEF ForgetLocal
<1> QED
  BY <1>2, <1>3 DEF Forget

\* Every step is one of the abstract specification, or none.
LEMMA Simulation ==
    ASSUME TypeOK, StatusInv, SerialInv, [Next]_vars
    PROVE  [State!Next]_(State!vars)
<1>1. TypeOK' /\ \A k \in written : tree'[k] = tree[k]
  BY TypePreserved, VersionsKept
<1>2. CASE Edit
  <2>1. /\ work' = work + 1
        /\ UNCHANGED <<srv, sent, forgotten>>
    BY <1>2 DEF Edit, serverVars, observers
  <2>2. Shown' = Shown /\ Told' = Told
    BY <1>1, <2>1, EntriesKept, TableTypes, SameTable
  <2> QED
    BY <2>1, <2>2 DEF State!Next, State!Edit
<1>3. ASSUME NEW p \in Syncs, SyncStep(p) \/ ServerStep(p),
             ~ReceivePack(p), ~Retain(p)
      PROVE  UNCHANGED <<work, srv, sent, forgotten>>
  BY <1>3 DEF SyncStep, ServerStep, Start, ReadCode, ReadExtra, Read,
              WriteCode, WriteExtra, WriteSynthCommit, OpenPush, Advertise,
              PushReturned, Fail, RefuseStale, DropExchange, Answer,
              clientVars, serverVars, observers
<1>4. ASSUME NEW p \in Syncs, SyncStep(p) \/ ServerStep(p)
      PROVE  [State!Next]_(State!vars)
  BY <1>1, <1>3, <1>4, ReceivePackDelivers, RetainConfirms, Stutter
<1>5. ASSUME NEW s \in Streams, Forget(s)
      PROVE  [State!Next]_(State!vars)
  BY <1>1, <1>5, ForgetWithdraws
<1>6. CASE UNCHANGED vars
  <2>1. UNCHANGED <<work, srv, sent, forgotten>>
    BY <1>6 DEF vars, clientVars, serverVars, observers
  <2> QED
    BY <1>1, <2>1, Stutter
<1> QED
  BY <1>2, <1>4, <1>5, <1>6 DEF Next

\* Sync, as long as no two syncs of a stream overlap, does what SyncedState
\* promises: what the server shows only becomes newer, and the client is told
\* only what is shown then, whatever is lost, late, refused or killed.
THEOREM Refinement ==
    ASSUME Serialised
    PROVE  Spec => StateSpec
<1>1. Init => State!Init
  BY DEF Init, State!Init, Shown, Told, Version, NoRefs, NoTips
<1>2. TypeOK /\ StatusInv /\ SerialInv /\ [Next]_vars
      => [State!Next]_(State!vars)
  BY Simulation
<1> QED
  BY <1>1, <1>2, SerialInvariant, TypeInvariant, PTL
     DEF Spec, StateSpec, State!Spec

StateProofs == INSTANCE SyncedStateProofs WITH
    Nothing <- None,
    shown   <- Shown,
    told    <- Told,
    lost    <- forgotten

\* So the abstract promise holds of the refs themselves: until the stream is
\* forgotten, the server's tip is a commit of the version that was retained or
\* of a newer one.
THEOREM RetainedVersionIsShown ==
    ASSUME Serialised
    PROVE  Spec => []State!ToldIsShown
<1>1. StateProofs!Spec => []StateProofs!ToldIsShown
  BY StateProofs!ToldStaysShown, NoVersionAssumption
<1>2. StateSpec => []State!ToldIsShown
  BY <1>1, PTL
     DEF StateSpec, State!Spec, State!Init, State!Next, State!Edit,
         State!Deliver, State!Confirm, State!Withdraw, State!Unlearn,
         State!vars, State!ToldIsShown,
         StateProofs!Spec, StateProofs!Init, StateProofs!Next,
         StateProofs!Edit, StateProofs!Deliver, StateProofs!Confirm,
         StateProofs!Withdraw, StateProofs!Unlearn, StateProofs!vars,
         StateProofs!ToldIsShown
<1> QED
  BY <1>2, Refinement, PTL
=============================================================================
