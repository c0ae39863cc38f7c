------------------------------ MODULE Exchange ------------------------------
(***************************************************************************)
(* One push, end to end: `git push` behind the client's interposing        *)
(* socketpair (push_refs), the TCP connection, and handle_connection with  *)
(* the `git receive-pack` it has spawned.                                  *)
(*                                                                         *)
(*   git --gitOut--> cOut --up----> sIn  --stdin--> receive-pack           *)
(*   git <--gitIn--- cIn  <--down-- sOut <--stdout-- receive-pack          *)
(*                                  handler <--stderr-- receive-pack       *)
(*                                                                         *)
(* Every arrow is a bounded pipe, every pump a thread that reads a chunk   *)
(* and writes all of it before it reads the next.  The peer is past        *)
(* authentication.  git's two programs are external: only the order in     *)
(* which they read and write is modelled.                                  *)
(***************************************************************************)
EXTENDS Naturals, Sequences

CONSTANTS
    Capacity,    \* bound: chunks a pipe or socket buffer holds
    AdvUnits,    \* bound: chunks of the ref advertisement
    PackUnits,   \* bound: chunks of the pack
    Notes,       \* bound: chunks receive-pack and its hook write to stderr
    None         \* an empty hand

ASSUME ExchangeAssumption ==
    /\ Capacity \in Nat \ {0}
    /\ AdvUnits \in Nat \ {0}
    /\ PackUnits \in Nat \ {0}
    /\ Notes \in Nat

Pipes == {"gitOut", "gitIn", "up", "down", "stdin", "stdout", "stderr"}
Pumps == {"cOut", "cIn", "sIn", "sOut"}
Units == {"adv", "advEnd", "cmds", "flush", "pack", "ok", "ng", "note"}

ASSUME NoneAssumption == None \notin Units

VARIABLES
    env,      \* "sound"; "lossy": processes and the connection may die;
              \* "stalled": the client's side may stop anywhere
    file,     \* the handler could make the file the hook notes refs in
    pipe,     \* chunks in each pipe
    shut,     \* pipes whose writer has closed or shut down its end
    broken,   \* pipes whose reader has
    pumping,  \* pumps still running
    held,     \* the chunk a pump has read and not yet written
    counted,  \* sIn's FlushSplit has seen a pkt-line before the first flush
    git,      \* where `git push` is, or its exit status
    told,     \* what git has concluded from the exchange
    packLeft, \* chunks of the pack git has still to send
    client,   \* where push_refs is: waiting for git, then joining its pumps
    child,    \* where receive-pack is, or its exit status
    left,     \* chunks it has still to write or read in this phase
    hook,     \* its pre-receive hook: not run, or its verdict on the pushed ref
    applied,  \* it has moved the ref
    handler   \* where handle_connection is: draining stderr, then joining

setting == <<env, file>>
clientVars == <<git, told, packLeft, client>>
childVars  == <<child, left, hook, applied>>
vars == <<setting, pipe, shut, broken, pumping, held, counted, clientVars,
          childVars, handler>>

GitRuns   == git \notin {"ok", "bad"}
ChildRuns == child \notin {"ok", "bad"}
Returned  == client \in {"ok", "failed"}

TypeOK ==
    /\ env \in {"sound", "lossy", "stalled"}
    /\ file \in BOOLEAN
    /\ pipe \in [Pipes -> Seq(Units)]
    /\ \A c \in Pipes : Len(pipe[c]) <= Capacity
    /\ shut \subseteq Pipes
    /\ broken \subseteq Pipes
    /\ pumping \subseteq Pumps
    /\ held \in [Pumps -> Units \cup {None}]
    /\ counted \in BOOLEAN
    /\ git \in {"adv", "cmds", "pack", "report", "eof", "ok", "bad"}
    /\ told \in {"nothing", "uptodate", "ok", "ng"}
    /\ packLeft \in 0 .. PackUnits
    /\ client \in {"wait", "joinOut", "joinIn", "ok", "failed"}
    /\ child \in {"adv", "cmds", "pack", "notes", "report", "ok", "bad"}
    /\ left \in Nat
    /\ hook \in {"unrun", "passed", "declined"}
    /\ applied \in BOOLEAN
    /\ handler \in {"stderr", "joinOut", "joinIn", "done"}

Init ==
    /\ env \in {"sound", "lossy", "stalled"}
    /\ file \in BOOLEAN
    /\ pipe = [c \in Pipes |-> <<>>]
    /\ shut = {}
    /\ broken = {}
    /\ pumping = Pumps
    /\ held = [p \in Pumps |-> None]
    /\ counted = FALSE
    /\ git = "adv"
    /\ told = "nothing"
    /\ packLeft = PackUnits
    /\ client = "wait"
    /\ child = "adv"
    /\ left = AdvUnits
    /\ hook = "unrun"
    /\ applied = FALSE
    /\ handler = "stderr"

-----------------------------------------------------------------------------
(* Pipes and pumps.                                                        *)

Put(c, unit) ==
    /\ c \notin shut \cup broken
    /\ Len(pipe[c]) < Capacity
    /\ pipe' = [pipe EXCEPT ![c] = Append(@, unit)]

Take(c) ==
    /\ pipe[c] # <<>>
    /\ pipe' = [pipe EXCEPT ![c] = Tail(@)]

AtEnd(c) == pipe[c] = <<>> /\ c \in shut \cup broken

Refused(c) == c \in shut \cup broken

From == [cOut |-> "gitOut", cIn |-> "down", sIn |-> "up", sOut |-> "stdout"]
To   == [cOut |-> "up", cIn |-> "gitIn", sIn |-> "stdin", sOut |-> "down"]

PumpRead(p) ==
    /\ p \in pumping
    /\ held[p] = None
    /\ Take(From[p])
    /\ held' = [held EXCEPT ![p] = Head(pipe[From[p]])]
    /\ UNCHANGED <<setting, shut, broken, pumping, counted, clientVars, childVars,
                   handler>>

\* Mutant: the pump buffers without a limit.
PumpWriteUnbounded(p) ==
    /\ held[p] # None
    /\ To[p] \notin shut \cup broken
    /\ pipe' = [pipe EXCEPT ![To[p]] = Append(@, held[p])]
    /\ held' = [held EXCEPT ![p] = None]
    /\ counted' = (counted \/ (p = "sIn" /\ held[p] = "cmds"))
    /\ UNCHANGED <<setting, shut, broken, pumping, clientVars, childVars, handler>>

PumpWrite(p) ==
    /\ held[p] # None
    /\ Put(To[p], held[p])
    /\ held' = [held EXCEPT ![p] = None]
    /\ counted' = (counted \/ (p = "sIn" /\ held[p] = "cmds"))
    /\ UNCHANGED <<setting, shut, broken, pumping, clientVars, childVars, handler>>

\* pump_splitting returns, at end of stream or on an error.
PumpStops(p) ==
    /\ p \in pumping
    /\ IF held[p] = None THEN AtEnd(From[p]) ELSE Refused(To[p])
    /\ pumping' = pumping \ {p}
    /\ held' = [held EXCEPT ![p] = None]
    /\ UNCHANGED <<setting, pipe, counted, clientVars, childVars, handler>>

\* What the thread does with its ends then: both client pumps forward the
\* half-close, though cOut leaves `ours` open for reading; the server's
\* close what they own of the child's stdio.
OutPumpEnds ==
    /\ PumpStops("cOut")
    /\ shut' = shut \cup {"up"}
    /\ UNCHANGED broken

\* Mutant: the inbound half-close is not forwarded.
InPumpEndsSilently ==
    /\ PumpStops("cIn")
    /\ UNCHANGED <<shut, broken>>

InPumpEnds ==
    /\ PumpStops("cIn")
    /\ shut' = shut \cup {"gitIn"}
    /\ UNCHANGED broken

ServerInPumpEnds ==
    /\ PumpStops("sIn")
    /\ shut' = shut \cup {"stdin"}
    /\ UNCHANGED broken

ServerOutPumpEnds ==
    /\ PumpStops("sOut")
    /\ broken' = broken \cup {"stdout"}
    /\ UNCHANGED shut

-----------------------------------------------------------------------------
(* `git push` over the `fd::` transport (external).                        *)

GitKeeps ==
    UNCHANGED <<setting, broken, pumping, held, counted, client, childVars, handler>>

GitReadsAdvertisement ==
    /\ git = "adv"
    /\ Take("gitIn")
    /\ git' = IF Head(pipe["gitIn"]) = "advEnd" THEN "cmds" ELSE "adv"
    /\ UNCHANGED <<shut, told, packLeft>> /\ GitKeeps

GitSendsCommands ==
    /\ git = "cmds"
    /\ Put("gitOut", "cmds")
    /\ git' = "pack"
    /\ UNCHANGED <<shut, told, packLeft>> /\ GitKeeps

GitUpToDate ==
    /\ git = "cmds"
    /\ Put("gitOut", "flush")
    /\ git' = "eof"
    /\ told' = "uptodate"
    /\ shut' = shut \cup {"gitOut"}
    /\ UNCHANGED packLeft /\ GitKeeps

\* pack-objects writes the pack to its end before git reads the report.
GitSendsPack ==
    /\ git = "pack"
    /\ Put("gitOut", "pack")
    /\ packLeft' = packLeft - 1
    /\ git' = IF packLeft = 1 THEN "report" ELSE "pack"
    /\ UNCHANGED <<shut, told>> /\ GitKeeps

\* git may shut its side down as soon as the pack is out.
GitShutsDown ==
    /\ git \in {"report", "eof"}
    /\ "gitOut" \notin shut
    /\ shut' = shut \cup {"gitOut"}
    /\ UNCHANGED <<pipe, git, told, packLeft>> /\ GitKeeps

GitReadsReport ==
    /\ git = "report"
    /\ Take("gitIn")
    /\ told' = Head(pipe["gitIn"])
    /\ git' = "eof"
    /\ UNCHANGED <<shut, packLeft>> /\ GitKeeps

GitExits(status) ==
    /\ git' = status
    /\ shut' = shut \cup {"gitOut"}
    /\ broken' = broken \cup {"gitIn"}
    /\ UNCHANGED <<setting, pipe, pumping, held, counted, told, packLeft, client,
                   childVars, handler>>

\* With the report in hand git still waits for the end of the stream.
GitFinishes ==
    /\ git = "eof"
    /\ AtEnd("gitIn")
    /\ GitExits(IF told \in {"ok", "uptodate"} THEN "ok" ELSE "bad")

\* The stream ends early, or git's own writes fail.
GitGivesUp ==
    /\ \/ git \in {"adv", "report"} /\ AtEnd("gitIn")
       \/ git \in {"cmds", "pack"} /\ "gitOut" \in broken
    /\ GitExits("bad")

GitKilled ==
    /\ env = "lossy"
    /\ GitRuns
    /\ GitExits("bad")

-----------------------------------------------------------------------------
(* push_refs, after the spawn.                                             *)

ClientKeeps ==
    UNCHANGED <<setting, pipe, pumping, held, counted, git, told, packLeft,
                childVars, handler>>

ClientGitExited ==
    /\ client = "wait"
    /\ ~GitRuns
    /\ client' = "joinOut"
    /\ UNCHANGED <<shut, broken>> /\ ClientKeeps

\* Shutting down `sock` and `ours`, in both directions.
ClientJoinsOut ==
    /\ client = "joinOut"
    /\ "cOut" \notin pumping
    /\ client' = "joinIn"
    /\ shut' = shut \cup {"up", "gitIn"}
    /\ broken' = broken \cup {"down", "gitOut"}
    /\ ClientKeeps

\* Mutant: the exit status of git is not looked at.
ClientReturnsUnchecked ==
    /\ client = "joinIn"
    /\ "cIn" \notin pumping
    /\ client' = "ok"
    /\ UNCHANGED <<shut, broken>> /\ ClientKeeps

ClientReturns ==
    /\ client = "joinIn"
    /\ "cIn" \notin pumping
    /\ client' = IF git = "ok" THEN "ok" ELSE "failed"
    /\ UNCHANGED <<shut, broken>> /\ ClientKeeps

-----------------------------------------------------------------------------
(* `git receive-pack` (external) with the pre-receive hook.                *)

ChildKeeps == UNCHANGED <<setting, pumping, held, counted, clientVars, handler>>

ChildExits(status) ==
    /\ child' = status
    /\ shut' = shut \cup {"stdout", "stderr"}
    /\ broken' = broken \cup {"stdin"}
    /\ ChildKeeps

ChildAdvertises ==
    /\ child = "adv"
    /\ Put("stdout", IF left = 1 THEN "advEnd" ELSE "adv")
    /\ IF left = 1 THEN child' = "cmds" /\ left' = PackUnits
                   ELSE child' = "adv" /\ left' = left - 1
    /\ UNCHANGED <<shut, broken, hook, applied>> /\ ChildKeeps

ChildReadsCommands ==
    /\ child = "cmds"
    /\ Take("stdin")
    /\ IF Head(pipe["stdin"]) = "cmds"
       THEN child' = "pack" /\ UNCHANGED <<shut, broken>> /\ ChildKeeps
       ELSE ChildExits("ok")
    /\ UNCHANGED <<left, hook, applied>>

ChildReadsPack ==
    /\ child = "pack"
    /\ Take("stdin")
    /\ IF left = 1 THEN child' = "notes" /\ left' = Notes
                   ELSE child' = "pack" /\ left' = left - 1
    /\ UNCHANGED <<shut, broken, hook, applied>> /\ ChildKeeps

ChildWritesStderr ==
    /\ child = "notes"
    /\ left > 0
    /\ Put("stderr", "note")
    /\ left' = left - 1
    /\ UNCHANGED <<shut, broken, child, hook, applied>> /\ ChildKeeps

\* The hook runs before receive-pack takes the ref's lock, which may still
\* fail.  The ref is inside the namespace, as push_refs names it, but noting
\* it is the hook's last command: with no file to note it in, the hook fails.
ChildUpdates ==
    /\ child = "notes"
    /\ left = 0
    /\ hook' = IF file THEN "passed" ELSE "declined"
    /\ applied' \in {FALSE, hook' = "passed"}
    /\ child' = "report"
    /\ UNCHANGED <<pipe, shut, broken, left>> /\ ChildKeeps

ChildReports ==
    /\ child = "report"
    /\ Put("stdout", IF applied THEN "ok" ELSE "ng")
    /\ ChildExits("ok")
    /\ UNCHANGED <<left, hook, applied>>

\* An end of stream where more was due, or a write nobody will read.
ChildFails ==
    /\ \/ child \in {"cmds", "pack"} /\ AtEnd("stdin")
       \/ child \in {"adv", "report"} /\ Refused("stdout")
    /\ ChildExits("bad")
    /\ UNCHANGED <<pipe, left, hook, applied>>

ChildKilled ==
    /\ env = "lossy"
    /\ ChildRuns
    /\ ChildExits("bad")
    /\ UNCHANGED <<pipe, left, hook, applied>>

-----------------------------------------------------------------------------
(* handle_connection, after the spawn.                                     *)

HandlerKeeps ==
    UNCHANGED <<setting, pumping, held, counted, clientVars, childVars>>

ShutdownBoth ==
    /\ shut' = shut \cup {"down"}
    /\ broken' = broken \cup {"up"}

HandlerReadsStderr ==
    /\ handler = "stderr"
    /\ Take("stderr")
    /\ UNCHANGED <<shut, broken, handler>> /\ HandlerKeeps

HandlerChildExited ==
    /\ handler = "stderr"
    /\ AtEnd("stderr")
    /\ handler' = "joinOut"
    /\ UNCHANGED <<pipe, shut, broken>> /\ HandlerKeeps

\* Mutant: the socket is shut down as soon as the child has exited.
HandlerShutsDownEarly ==
    /\ handler = "joinOut"
    /\ ShutdownBoth
    /\ handler' = "joinIn"
    /\ UNCHANGED pipe /\ HandlerKeeps

\* Mutant: both pumps are joined before the socket is shut down.
HandlerJoinsBoth ==
    /\ handler = "joinOut"
    /\ {"sIn", "sOut"} \cap pumping = {}
    /\ ShutdownBoth
    /\ handler' = "joinIn"
    /\ UNCHANGED pipe /\ HandlerKeeps

HandlerJoinsOut ==
    /\ handler = "joinOut"
    /\ "sOut" \notin pumping
    /\ ShutdownBoth
    /\ handler' = "joinIn"
    /\ UNCHANGED pipe /\ HandlerKeeps

HandlerReturns ==
    /\ handler = "joinIn"
    /\ "sIn" \notin pumping
    /\ handler' = "done"
    /\ UNCHANGED <<pipe, shut, broken>> /\ HandlerKeeps

\* The connection has used up its timeout, which a sound exchange does not.
WatchdogFires ==
    /\ env # "sound"
    /\ handler # "done"
    /\ "down" \notin shut \/ "up" \notin broken
    /\ ShutdownBoth
    /\ UNCHANGED <<pipe, handler>> /\ HandlerKeeps

-----------------------------------------------------------------------------
\* The connection is reset: both ends are closed and what was under way is
\* lost.
ConnectionLost ==
    /\ env = "lossy"
    /\ ~({"up", "down"} \subseteq broken)
    /\ pipe' = [pipe EXCEPT !["up"] = <<>>, !["down"] = <<>>]
    /\ shut' = shut \cup {"up", "down"}
    /\ broken' = broken \cup {"up", "down"}
    /\ UNCHANGED <<setting, pumping, held, counted, clientVars, childVars, handler>>

-----------------------------------------------------------------------------
(* classify: what the handler records of the connection.  The marker of a  *)
(* ref outside the namespace does not occur, as push_refs names none.      *)

\* read_accepted_refs
Noted == file /\ hook = "passed"

\* Mutant: a receive-pack that dies is taken for a prober's.
OutcomeByExit ==
    IF child = "bad" THEN "probe"
    ELSE IF Noted THEN "updated"
    ELSE IF counted THEN "rejected" ELSE "no_op"

Outcome ==
    IF child = "ok"
    THEN IF Noted THEN "updated"
         ELSE IF counted THEN "rejected" ELSE "no_op"
    ELSE IF counted THEN "failed" ELSE "probe"

Git ==
    \/ GitReadsAdvertisement \/ GitSendsCommands \/ GitUpToDate
    \/ GitSendsPack \/ GitReadsReport \/ GitFinishes \/ GitGivesUp

OutPump       == PumpRead("cOut") \/ PumpWrite("cOut") \/ OutPumpEnds
InPump        == PumpRead("cIn") \/ PumpWrite("cIn") \/ InPumpEnds
ServerInPump  == PumpRead("sIn") \/ PumpWrite("sIn") \/ ServerInPumpEnds
ServerOutPump == PumpRead("sOut") \/ PumpWrite("sOut") \/ ServerOutPumpEnds

Client == ClientGitExited \/ ClientJoinsOut \/ ClientReturns

ReceivePack ==
    \/ ChildAdvertises \/ ChildReadsCommands \/ ChildReadsPack
    \/ ChildWritesStderr \/ ChildUpdates \/ ChildReports \/ ChildFails

Handler ==
    \/ HandlerReadsStderr \/ HandlerChildExited \/ HandlerJoinsOut
    \/ HandlerReturns

Next ==
    \/ Git \/ GitShutsDown \/ OutPump \/ InPump \/ Client
    \/ ServerInPump \/ ServerOutPump \/ ReceivePack \/ Handler
    \/ WatchdogFires \/ GitKilled \/ ChildKilled \/ ConnectionLost

\* Processes and threads are scheduled; only the client's may stop, and only
\* in a "stalled" exchange.  A timeout that is running expires.
Fairness ==
    /\ WF_vars(env # "stalled" /\ Git)
    /\ WF_vars(env # "stalled" /\ OutPump)
    /\ WF_vars(env # "stalled" /\ InPump)
    /\ WF_vars(env # "stalled" /\ Client)
    /\ WF_vars(ServerInPump)
    /\ WF_vars(ServerOutPump)
    /\ WF_vars(ReceivePack)
    /\ WF_vars(Handler)
    /\ WF_vars(WatchdogFires)

Spec == Init /\ [][Next]_vars
FairSpec == Spec /\ Fairness
-----------------------------------------------------------------------------
(* Properties.                                                             *)

\* A push that returns Ok has had its update applied, or had none to make,
\* whatever died on the way.
SuccessMeansApplied ==
    client = "ok" => applied \/ told = "uptodate"

\* Where nothing dies and no timeout expires, a push that fails has moved
\* nothing: no report is lost between receive-pack and git.
FailureMeansUntouched ==
    env = "sound" /\ client = "failed" => ~applied

\* A connection that moved a ref is never recorded as one in which nothing
\* was asked for, or nothing was let through.
QuietMeansUntouched ==
    handler = "done" /\ Outcome \in {"no_op", "probe", "rejected"} => ~applied

\* Whatever the client does or stops doing, and whatever is lost, the handler
\* ends: its slot comes back.
HandlerEnds == <>(handler = "done")

\* While the client's side runs, push_refs returns; the one way not to is
\* that git has pack left to send which the outbound pump, stopped by an
\* error, will never read.
PackUnread ==
    /\ git = "pack"
    /\ "cOut" \notin pumping
    /\ Len(pipe["gitOut"]) = Capacity

PushReturnsUnlessUnread ==
    env # "stalled" => <>Returned \/ <>[]PackUnread

\* While the client's side runs, push_refs returns.
PushReturns == env # "stalled" => <>Returned
=============================================================================
