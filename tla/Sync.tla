-------------------------------- MODULE Sync --------------------------------
(***************************************************************************)
(* `git-full-send sync` (crates/client): invocations of the client's       *)
(* `sync` in one repository, the refs each one moves, and the server refs  *)
(* its two receive-pack exchanges move.                                    *)
(*                                                                         *)
(* A sync encodes the `code` chain and then the `extra` chain, and pushes  *)
(* and retains the chains one after the other.  Every `?` in the code, and *)
(* a kill of the process, is the action Fail: what was done stays done,    *)
(* and a request already on the wire may still be applied by the server    *)
(* long after the client that sent it is gone.                             *)
(***************************************************************************)
EXTENDS Naturals, FiniteSets

CONSTANTS
    Syncs,       \* the invocations of `sync`; each one runs at most once
    Streams,     \* the stream ids they are given
    Commits,     \* object ids of synthetic commits
    None,        \* an absent ref
    MaxEdits,    \* bound: how often the user's working tree changes
    Serialised   \* TRUE: the user never overlaps two syncs of one stream

ASSUME SyncAssumption ==
    /\ None \notin Commits
    /\ None \notin Streams
    /\ MaxEdits \in Nat
    /\ Serialised \in BOOLEAN

Chains == {"code", "extra"}

Ref == Commits \cup {None}

Phases == {"idle", "read", "write", "open", "advertise", "await", "retain",
           "over"}

VARIABLES
    work,        \* version of the user's working tree
    written,     \* commits written to the client's object database
    tree,        \* the working-tree version a commit records
    history,     \* a commit and its synthetic ancestors
    local,       \* client refs  <stream>/code and <stream>/extra
    sent,        \* client refs  <stream>/sent/code and <stream>/sent/extra
    srv,         \* server refs  <stream>/code and <stream>/extra
    received,    \* commits in the server's object database
    phase,       \* where an invocation is within `sync`
    stream,      \* the stream it syncs
    chain,       \* the chain it is working on
    snap,        \* the working-tree version its encode has read
    parent,      \* the parent encode_extra has read
    own,         \* the commits it has yet to retain (Encode-, ExtraOutcome)
    src,         \* what its `git push` resolved the local ref to
    status,      \* its exchange: none, sent, ok or refused
    old,         \* the server tip its request was made against
    forgotten,   \* observer: some ref of the stream was deleted on the server
    acked        \* observer: the chain's last exchange ended in a retained tip

clientVars == <<work, written, tree, history, local, sent>>
jobVars    == <<phase, stream, chain, snap, parent, own, src, status, old>>
serverVars == <<srv, received>>
observers  == <<forgotten, acked>>
vars       == <<clientVars, jobVars, serverVars, observers>>

Active(p) == phase[p] \notin {"idle", "over"}

TypeOK ==
    /\ work \in Nat
    /\ written \subseteq Commits
    /\ tree \in [Commits -> Nat]
    /\ history \in [Commits -> SUBSET Commits]
    /\ local \in [Streams -> [Chains -> Ref]]
    /\ sent \in [Streams -> [Chains -> Ref]]
    /\ srv \in [Streams -> [Chains -> Ref]]
    /\ received \subseteq Commits
    /\ phase \in [Syncs -> Phases]
    /\ stream \in [Syncs -> Streams \cup {None}]
    /\ \A p \in Syncs : phase[p] # "idle" => stream[p] \in Streams
    /\ chain \in [Syncs -> Chains]
    /\ snap \in [Syncs -> Nat]
    /\ parent \in [Syncs -> Ref]
    /\ own \in [Syncs -> [Chains -> Ref]]
    /\ src \in [Syncs -> Ref]
    /\ \A p \in Syncs :
          phase[p] = "advertise" \/ status[p] = "sent" => src[p] \in Commits
    /\ status \in [Syncs -> {"none", "sent", "ok", "refused"}]
    /\ old \in [Syncs -> Ref]
    /\ forgotten \in [Streams -> BOOLEAN]
    /\ acked \in [Streams -> [Chains -> BOOLEAN]]

NoTips == [c \in Chains |-> None]
NoRefs == [s \in Streams |-> NoTips]

Init ==
    /\ work = 0
    /\ written = {}
    /\ tree = [c \in Commits |-> 0]
    /\ history = [c \in Commits |-> {}]
    /\ local = NoRefs
    /\ sent = NoRefs
    /\ srv = NoRefs
    /\ received = {}
    /\ phase = [p \in Syncs |-> "idle"]
    /\ stream = [p \in Syncs |-> None]
    /\ chain = [p \in Syncs |-> "code"]
    /\ snap = [p \in Syncs |-> 0]
    /\ parent = [p \in Syncs |-> None]
    /\ own = [p \in Syncs |-> NoTips]
    /\ src = [p \in Syncs |-> None]
    /\ status = [p \in Syncs |-> "none"]
    /\ old = [p \in Syncs |-> None]
    /\ forgotten = [s \in Streams |-> FALSE]
    /\ acked = [s \in Streams |-> [c \in Chains |-> FALSE]]

-----------------------------------------------------------------------------
(* The user and the start of an invocation.                                *)

Edit ==
    /\ work < MaxEdits
    /\ work' = work + 1
    /\ UNCHANGED <<written, tree, history, local, sent, jobVars, serverVars,
                   observers>>

Start(p, s) ==
    /\ phase[p] = "idle"
    /\ Serialised => \A q \in Syncs : Active(q) => stream[q] # s
    /\ phase' = [phase EXCEPT ![p] = "read"]
    /\ stream' = [stream EXCEPT ![p] = s]
    /\ UNCHANGED <<clientVars, chain, snap, parent, own, src, status, old,
                   serverVars, observers>>

-----------------------------------------------------------------------------
(* The end of an invocation, and of a request that outlived it.            *)

\* No exchange is open any more.
CloseExchange(p) ==
    /\ chain' = [chain EXCEPT ![p] = "code"]
    /\ src' = [src EXCEPT ![p] = None]
    /\ status' = [status EXCEPT ![p] = "none"]
    /\ old' = [old EXCEPT ![p] = None]

\* `sync` returns, or its process is gone, and its locals with it.
Over(p) ==
    /\ phase' = [phase EXCEPT ![p] = "over"]
    /\ snap' = [snap EXCEPT ![p] = 0]
    /\ parent' = [parent EXCEPT ![p] = None]
    /\ own' = [own EXCEPT ![p] = NoTips]
    /\ UNCHANGED stream

-----------------------------------------------------------------------------
(* Encoding.  Each encoder reads (the working tree; for `extra` also the   *)
(* retained tip) and, after the walk, writes a commit and forces the       *)
(* scratch ref to it.                                                      *)

Read(p, c, tip) ==
    /\ phase[p] = "read"
    /\ chain[p] = c
    /\ phase' = [phase EXCEPT ![p] = "write"]
    /\ snap' = [snap EXCEPT ![p] = work]
    /\ parent' = [parent EXCEPT ![p] = tip]
    /\ UNCHANGED <<clientVars, stream, chain, own, src, status, old,
                   serverVars, observers>>

ReadCode(p) == Read(p, "code", None)

\* Mutant: parent the commit on the local `extra` ref, pushed or not.
ReadExtraLocalTip(p) == Read(p, "extra", local[stream[p]]["extra"])

ReadExtra(p) == Read(p, "extra", sent[stream[p]]["extra"])

\* A commit just written has an id of its own; which one does not matter.
FreshIds ==
    IF Commits \subseteq written THEN {}
    ELSE {CHOOSE id \in Commits : id \notin written}

\* write_synth_commit, then update_ref with PreviousValue::Any.
WriteSynthCommit(p, c, id) ==
    /\ phase[p] = "write"
    /\ chain[p] = c
    /\ written' = written \cup {id}
    /\ tree' = [tree EXCEPT ![id] = snap[p]]
    /\ history' = [history EXCEPT ![id] =
                      {id} \cup (IF parent[p] = None THEN {}
                                 ELSE history[parent[p]])]
    /\ local' = [local EXCEPT ![stream[p]][c] = id]
    /\ own' = [own EXCEPT ![p][c] = id]
    /\ snap' = [snap EXCEPT ![p] = 0]
    /\ parent' = [parent EXCEPT ![p] = None]
    /\ UNCHANGED <<work, sent, stream, src, status, old, serverVars, observers>>

WriteCode(p) ==
    \E id \in FreshIds :
        /\ WriteSynthCommit(p, "code", id)
        /\ phase' = [phase EXCEPT ![p] = "read"]
        /\ chain' = [chain EXCEPT ![p] = "extra"]

\* Mutant: the chains are pushed in the other order.
WriteExtraThenPushExtra(p) ==
    \E id \in FreshIds :
        /\ WriteSynthCommit(p, "extra", id)
        /\ phase' = [phase EXCEPT ![p] = "open"]
        /\ chain' = chain

WriteExtra(p) ==
    \E id \in FreshIds :
        /\ WriteSynthCommit(p, "extra", id)
        /\ phase' = [phase EXCEPT ![p] = "open"]
        /\ chain' = [chain EXCEPT ![p] = "code"]

-----------------------------------------------------------------------------
(* One `git push +<ref>:<ref>`: it resolves the local ref by name, reads   *)
(* the server's advertisement, and asks the server to move the ref from    *)
(* the advertised tip to the resolved one.                                 *)

\* Mutant: the push does not fail when the ref is gone.
OpenPushMissing(p) ==
    /\ phase[p] = "open"
    /\ src' = [src EXCEPT ![p] = local[stream[p]][chain[p]]]
    /\ phase' = [phase EXCEPT ![p] = "advertise"]
    /\ UNCHANGED <<clientVars, stream, chain, snap, parent, own, status, old,
                   serverVars, observers>>

OpenPush(p) ==
    /\ phase[p] = "open"
    /\ local[stream[p]][chain[p]] # None
    /\ src' = [src EXCEPT ![p] = local[stream[p]][chain[p]]]
    /\ phase' = [phase EXCEPT ![p] = "advertise"]
    /\ UNCHANGED <<clientVars, stream, chain, snap, parent, own, status, old,
                   serverVars, observers>>

\* With nothing to update git sends no command and the push succeeds.
Advertise(p) ==
    LET tip == srv[stream[p]][chain[p]] IN
    /\ phase[p] = "advertise"
    /\ \/ /\ tip = src[p]
          /\ src' = [src EXCEPT ![p] = None]
          /\ status' = [status EXCEPT ![p] = "ok"]
          /\ UNCHANGED old
       \/ /\ tip # src[p]
          /\ old' = [old EXCEPT ![p] = tip]
          /\ status' = [status EXCEPT ![p] = "sent"]
          /\ UNCHANGED src
    /\ phase' = [phase EXCEPT ![p] = "await"]
    /\ acked' = [acked EXCEPT ![stream[p]][chain[p]] = FALSE]
    /\ UNCHANGED <<clientVars, stream, chain, snap, parent, own, serverVars,
                   forgotten>>

\* The server's side of an exchange.  It needs no living client: the request
\* may sit in a socket buffer after the client has failed.
Answer(p, answer) ==
    /\ \/ /\ phase[p] = "await"
          /\ status' = [status EXCEPT ![p] = answer]
          /\ src' = [src EXCEPT ![p] = None]
          /\ old' = [old EXCEPT ![p] = None]
          /\ UNCHANGED chain
       \/ /\ phase[p] # "await"
          /\ CloseExchange(p)
    /\ UNCHANGED <<clientVars, phase, stream, snap, parent, own, observers>>

Apply(p) ==
    /\ srv' = [srv EXCEPT ![stream[p]][chain[p]] = src[p]]
    /\ received' = received \cup history[src[p]]
    /\ Answer(p, "ok")

\* Mutant: the server moves the ref whatever it points to by now.
ReceivePackUnconditional(p) ==
    /\ status[p] = "sent"
    /\ Apply(p)

ReceivePack(p) ==
    /\ status[p] = "sent"
    /\ srv[stream[p]][chain[p]] = old[p]
    /\ Apply(p)

\* The ref moved since the advertisement: its lock fails, and the objects,
\* already out of quarantine when refs are updated, stay.
RefuseStale(p) ==
    /\ status[p] = "sent"
    /\ srv[stream[p]][chain[p]] # old[p]
    /\ received' = received \cup history[src[p]]
    /\ Answer(p, "refused")
    /\ UNCHANGED srv

\* The exchange ends before the update: a reset, the watchdog, a refusal.
DropExchange(p) ==
    /\ status[p] = "sent"
    /\ Answer(p, "refused")
    /\ UNCHANGED serverVars

\* Mutant: `git push`'s exit status is not looked at.
PushReturnedUnchecked(p) ==
    /\ phase[p] = "await"
    /\ status[p] \in {"ok", "refused"}
    /\ phase' = [phase EXCEPT ![p] = "retain"]
    /\ UNCHANGED <<clientVars, stream, chain, snap, parent, own, src, status,
                   old, serverVars, observers>>

PushReturned(p) ==
    /\ phase[p] = "await"
    /\ \/ /\ status[p] = "ok"
          /\ phase' = [phase EXCEPT ![p] = "retain"]
          /\ UNCHANGED <<stream, chain, snap, parent, own, src, status, old>>
       \/ /\ status[p] = "refused"
          /\ Over(p)
          /\ CloseExchange(p)
    /\ UNCHANGED <<clientVars, serverVars, observers>>

\* retain_pushed_tip pins the commit this sync encoded, then `sync` goes on
\* to the `extra` exchange or is done.
Retain(p) ==
    LET s == stream[p]
        c == chain[p]
    IN  /\ phase[p] = "retain"
        /\ sent' = [sent EXCEPT ![s][c] = own[p][c]]
        /\ acked' = [acked EXCEPT ![s][c] = TRUE]
        /\ \/ /\ c = "code"
              /\ chain' = [chain EXCEPT ![p] = "extra"]
              /\ own' = [own EXCEPT ![p]["code"] = None]
              /\ status' = [status EXCEPT ![p] = "none"]
              /\ phase' = [phase EXCEPT ![p] = "open"]
              /\ UNCHANGED <<stream, snap, parent, src, old>>
           \/ /\ c = "extra"
              /\ Over(p)
              /\ CloseExchange(p)
        /\ UNCHANGED <<work, written, tree, history, local, serverVars,
                       forgotten>>

\* An error return anywhere in `sync`, or the process is killed.  All that
\* is left of it is a request that the server has not answered.
Fail(p) ==
    /\ Active(p)
    /\ Over(p)
    /\ \/ /\ status[p] = "sent"
          /\ UNCHANGED <<chain, src, status, old>>
       \/ /\ status[p] # "sent"
          /\ CloseExchange(p)
    /\ UNCHANGED <<clientVars, serverVars, observers>>

-----------------------------------------------------------------------------
(* forget_stream, run in the server's repository (drops the stream's refs)  *)
(* or in the client's (drops the scratch refs and the pins).  It lists the *)
(* refs and deletes what it listed, whatever they point to by then; a      *)
(* failure leaves the rest.  As a later listing may be cut short the same  *)
(* way, a step for each ref that is there has the same effects.            *)

ForgetRemote(s) ==
    \E c \in Chains :
        /\ srv[s][c] # None
        /\ srv' = [srv EXCEPT ![s][c] = None]
        /\ forgotten' = [forgotten EXCEPT ![s] = TRUE]
        /\ UNCHANGED <<clientVars, jobVars, received, acked>>

ForgetLocal(s) ==
    \E c \in Chains :
        /\ \/ /\ local[s][c] # None
              /\ local' = [local EXCEPT ![s][c] = None]
              /\ UNCHANGED <<sent, acked>>
           \/ /\ sent[s][c] # None
              /\ sent' = [sent EXCEPT ![s][c] = None]
              /\ acked' = [acked EXCEPT ![s][c] = FALSE]
              /\ UNCHANGED local
        /\ UNCHANGED <<work, written, tree, history, jobVars, serverVars,
                       forgotten>>

-----------------------------------------------------------------------------
SyncStep(p) ==
    \/ \E s \in Streams : Start(p, s)
    \/ ReadCode(p)
    \/ WriteCode(p)
    \/ ReadExtra(p)
    \/ WriteExtra(p)
    \/ OpenPush(p)
    \/ Advertise(p)
    \/ PushReturned(p)
    \/ Retain(p)
    \/ Fail(p)

ServerStep(p) ==
    \/ ReceivePack(p)
    \/ RefuseStale(p)
    \/ DropExchange(p)

Forget(s) ==
    \/ ForgetRemote(s)
    \/ ForgetLocal(s)

Next ==
    \/ Edit
    \/ \E p \in Syncs : SyncStep(p) \/ ServerStep(p)
    \/ \E s \in Streams : Forget(s)

Spec == Init /\ [][Next]_vars
-----------------------------------------------------------------------------
(* Properties.                                                             *)

\* What encode_extra's parent choice is for: "a failed push never leaves a
\* later commit parented on something the server lacks" (encode.rs:381-383).
\* Every synthetic ancestor of every commit written is in the server's
\* object database.
ExtraParentsReceived ==
    \A id \in written : history[id] \ {id} \subseteq received

\* retain_pushed_tip: once a push of a chain has been confirmed and its tip
\* retained, the retained tip IS the server's tip until the next exchange of
\* that chain opens (or the server forgets the stream).  No late request of an
\* earlier, failed sync changes it.
AckedTipIsServerTip ==
    \A s \in Streams, c \in Chains :
        ~forgotten[s] /\ acked[s][c] =>
            sent[s][c] # None /\ sent[s][c] = srv[s][c]

\* The `extra` chain as ADR-0004 wants it: as long as the server has not
\* forgotten the stream, its `extra` tip descends from the client's retained
\* tip, whatever pushes failed, were lost or arrived late in between.
RetainedExtraIsServerAncestor ==
    \A s \in Streams :
        ~forgotten[s] /\ sent[s]["extra"] # None =>
            /\ srv[s]["extra"] # None
            /\ sent[s]["extra"] \in history[srv[s]["extra"]]

\* sync pushes `code` before `extra` and stops at the first failure, so a
\* stream that nobody forgot never has `extra` without `code` on the server,
\* even when syncs of the stream overlap.  update-worktree, list-streams and
\* reap all look for `code` alone.
CodeBeforeExtra ==
    \A s \in Streams :
        ~forgotten[s] /\ srv[s]["extra"] # None => srv[s]["code"] # None
=============================================================================
