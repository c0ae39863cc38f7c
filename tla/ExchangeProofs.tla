---------------------------- MODULE ExchangeProofs ----------------------------
(***************************************************************************)
(* Theorems about Exchange, for every capacity and every length of the     *)
(* streams: what the two ends of a push report of it is true.              *)
(***************************************************************************)
EXTENDS Exchange, SequenceTheorems, TLAPS

\* A chunk stands in a pipe.
In(unit, c) == \E i \in DOMAIN pipe[c] : pipe[c][i] = unit

PipesOK ==
    /\ pipe \in [Pipes -> Seq(Units)]
    /\ held \in [Pumps -> Units \cup {None}]

\* receive-pack says "ok" only after it has moved the ref, and moves it once.
ReportInv ==
    /\ \A c \in Pipes : In("ok", c) => applied
    /\ \A p \in Pumps : held[p] = "ok" => applied
    /\ told = "ok" => applied
    /\ git = "ok" => told \in {"ok", "uptodate"}
    /\ client = "ok" => git = "ok"
    /\ child \in {"adv", "cmds", "pack", "notes"} => ~applied

\* Commands reach receive-pack only past the counter of the inbound pump.
CountInv ==
    /\ In("cmds", "stdin") => counted
    /\ child \in {"pack", "notes", "report"} => counted
    /\ applied => counted /\ hook = "passed"

Inv == PipesOK /\ ReportInv /\ CountInv

-----------------------------------------------------------------------------
\* Putting a chunk into a pipe adds that chunk and no other.
LEMMA PutAdds ==
    ASSUME PipesOK, NEW c \in Pipes, NEW unit \in Units, Put(c, unit)
    PROVE  /\ pipe' \in [Pipes -> Seq(Units)]
           /\ \A d \in Pipes, u \in Units :
                 In(u, d)' => In(u, d) \/ (d = c /\ u = unit)
<1>1. pipe[c] \in Seq(Units)
  BY DEF PipesOK
<1>2. pipe' = [pipe EXCEPT ![c] = Append(pipe[c], unit)]
  BY DEF Put
<1>3. pipe' \in [Pipes -> Seq(Units)]
  BY <1>1, <1>2, AppendProperties DEF PipesOK
<1>4. ASSUME NEW d \in Pipes, NEW u \in Units, In(u, d)'
      PROVE  In(u, d) \/ (d = c /\ u = unit)
  <2>1. CASE d # c
    BY <1>2, <1>4, <2>1 DEF In, PipesOK
  <2>2. CASE d = c
    <3>1. pipe'[c] = Append(pipe[c], unit)
      BY <1>2 DEF PipesOK
    <3>2. PICK i \in DOMAIN pipe'[c] : pipe'[c][i] = u
      BY <1>4, <2>2 DEF In
    <3>3. DOMAIN pipe'[c] = 1 .. (Len(pipe[c]) + 1)
      BY <1>1, <3>1, AppendProperties
    <3>4. CASE i = Len(pipe[c]) + 1
      BY <1>1, <2>2, <3>1, <3>2, <3>4, AppendProperties
    <3>5. CASE i # Len(pipe[c]) + 1
      <4>1. i \in 1 .. Len(pipe[c])
        BY <1>1, <3>2, <3>3, <3>5
      <4>2. pipe[c][i] = u
        BY <1>1, <3>1, <3>2, <4>1, AppendProperties
      <4> QED
        BY <1>1, <2>2, <4>1, <4>2 DEF In
    <3> QED
      BY <3>4, <3>5
  <2> QED
    BY <2>1, <2>2
<1> QED
  BY <1>3, <1>4

\* Taking a chunk removes the head of a pipe and adds none.
LEMMA TakeRemoves ==
    ASSUME PipesOK, NEW c \in Pipes, Take(c)
    PROVE  /\ pipe' \in [Pipes -> Seq(Units)]
           /\ Head(pipe[c]) \in Units
           /\ In(Head(pipe[c]), c)
           /\ \A d \in Pipes, u \in Units : In(u, d)' => In(u, d)
<1>1. pipe[c] \in Seq(Units) /\ pipe[c] # <<>>
  BY DEF PipesOK, Take
<1>2. pipe' = [pipe EXCEPT ![c] = Tail(pipe[c])]
  BY DEF Take
<1>3. /\ Head(pipe[c]) = pipe[c][1] /\ Head(pipe[c]) \in Units
      /\ Tail(pipe[c]) \in Seq(Units)
      /\ Len(Tail(pipe[c])) = Len(pipe[c]) - 1
      /\ \A i \in 1 .. Len(Tail(pipe[c])) : Tail(pipe[c])[i] = pipe[c][i + 1]
  BY <1>1, HeadTailProperties
<1>4. Len(pipe[c]) \in Nat /\ Len(pipe[c]) > 0 /\ DOMAIN pipe[c] = 1 .. Len(pipe[c])
  BY <1>1, EmptySeq, LenProperties
<1>5. pipe' \in [Pipes -> Seq(Units)]
  BY <1>2, <1>3 DEF PipesOK
<1>6. In(Head(pipe[c]), c)
  BY <1>3, <1>4 DEF In
<1>7. ASSUME NEW d \in Pipes, NEW u \in Units, In(u, d)'
      PROVE  In(u, d)
  <2>1. CASE d # c
    BY <1>2, <1>7, <2>1 DEF In, PipesOK
  <2>2. CASE d = c
    <3>1. pipe'[c] = Tail(pipe[c])
      BY <1>2 DEF PipesOK
    <3>2. PICK i \in DOMAIN Tail(pipe[c]) : Tail(pipe[c])[i] = u
      BY <1>7, <2>2, <3>1 DEF In
    <3>3. DOMAIN Tail(pipe[c]) = 1 .. Len(Tail(pipe[c]))
      BY <1>3, LenProperties
    <3>4. i + 1 \in DOMAIN pipe[c] /\ pipe[c][i + 1] = u
      BY <1>3, <1>4, <3>2, <3>3
    <3> QED
      BY <2>2, <3>4 DEF In
  <2> QED
    BY <2>1, <2>2
<1> QED
  BY <1>3, <1>5, <1>6, <1>7

-----------------------------------------------------------------------------
(* Steps that move chunks, by what they do to the pipes.                   *)

\* A step that puts nothing into a pipe and leaves the rest of what the
\* invariant speaks of alone keeps it.
LEMMA NothingNew ==
    ASSUME Inv, pipe' \in [Pipes -> Seq(Units)],
           held' \in [Pumps -> Units \cup {None}],
           \A d \in Pipes, u \in Units : In(u, d)' => In(u, d),
           \A p \in Pumps : held'[p] = "ok" => applied,
           UNCHANGED <<counted, told, git, client, child, hook, applied>>
    PROVE  Inv'
<1>1. "ok" \in Units /\ "cmds" \in Units /\ "stdin" \in Pipes
  BY DEF Units, Pipes
<1>2. PipesOK'
  BY DEF PipesOK
<1>3. ReportInv'
  BY <1>1 DEF Inv, ReportInv
<1>4. CountInv'
  BY <1>1 DEF Inv, CountInv
<1> QED
  BY <1>2, <1>3, <1>4 DEF Inv

\* A pump keeps the invariant.
LEMMA PumpKeeps ==
    ASSUME Inv, NEW p \in Pumps,
           PumpRead(p) \/ PumpWrite(p) \/ PumpStops(p)
    PROVE  Inv'
<1>0. From[p] \in Pipes /\ To[p] \in Pipes /\ "ok" \in Units
  BY DEF From, To, Pipes, Pumps, Units
<1>1. CASE PumpRead(p)
  <2>1. /\ pipe' \in [Pipes -> Seq(Units)]
        /\ Head(pipe[From[p]]) \in Units
        /\ In(Head(pipe[From[p]]), From[p])
        /\ \A d \in Pipes, u \in Units : In(u, d)' => In(u, d)
    BY <1>0, <1>1, TakeRemoves DEF PumpRead, Inv
  <2>2. held' \in [Pumps -> Units \cup {None}]
    BY <1>1, <2>1 DEF PumpRead, Inv, PipesOK
  <2>3. \A q \in Pumps : held'[q] = "ok" => applied
    BY <1>0, <1>1, <2>1 DEF PumpRead, Inv, PipesOK, ReportInv
  <2> QED
    BY <1>1, <2>1, <2>2, <2>3, NothingNew DEF PumpRead, clientVars, childVars
<1>2. CASE PumpWrite(p)
  <2>1. held[p] \in Units
    BY <1>2 DEF PumpWrite, Inv, PipesOK
  <2>2. /\ pipe' \in [Pipes -> Seq(Units)]
        /\ \A d \in Pipes, u \in Units :
              In(u, d)' => In(u, d) \/ (d = To[p] /\ u = held[p])
    BY <1>0, <1>2, <2>1, PutAdds DEF PumpWrite, Inv
  <2>3. PipesOK' /\ \A q \in Pumps : held'[q] = "ok" => held[q] = "ok"
    BY <1>2, <2>2, NoneAssumption DEF PumpWrite, Inv, PipesOK, Units
  <2>4. UNCHANGED <<told, git, client, child, hook, applied>>
    BY <1>2 DEF PumpWrite, clientVars, childVars
  <2>5. ReportInv'
    BY <1>0, <2>2, <2>3, <2>4 DEF Inv, ReportInv
  <2>6. In("cmds", "stdin")' => counted'
    <3>1. To[p] = "stdin" => p = "sIn"
      BY DEF To, Pumps
    <3>2. "cmds" \in Units /\ "stdin" \in Pipes
      BY DEF Units, Pipes
    <3>3. counted' = (counted \/ (p = "sIn" /\ held[p] = "cmds"))
      BY <1>2 DEF PumpWrite
    <3> QED
      BY <2>2, <3>1, <3>2, <3>3 DEF Inv, CountInv
  <2>7. counted => counted'
    BY <1>2 DEF PumpWrite
  <2> QED
    BY <2>3, <2>4, <2>5, <2>6, <2>7 DEF Inv, CountInv
<1>3. CASE PumpStops(p)
  <2>1. held' \in [Pumps -> Units \cup {None}]
    BY <1>3 DEF PumpStops, Inv, PipesOK
  <2>2. \A q \in Pumps : held'[q] = "ok" => applied
    BY <1>3, NoneAssumption DEF PumpStops, Inv, PipesOK, ReportInv, Units
  <2>3. pipe' = pipe
    BY <1>3 DEF PumpStops
  <2>4. \A d \in Pipes, u \in Units : In(u, d)' => In(u, d)
    BY <2>3 DEF In
  <2> QED
    BY <1>3, <2>1, <2>2, <2>3, <2>4, NothingNew
       DEF PumpStops, clientVars, childVars, Inv, PipesOK
<1> QED
  BY <1>1, <1>2, <1>3

-----------------------------------------------------------------------------
(* The two programs, and the rest.                                         *)

\* What a step of git may do to what the invariant speaks of.
GitMoves ==
    /\ UNCHANGED <<held, counted, client, child, hook, applied>>
    /\ pipe' \in [Pipes -> Seq(Units)]
    /\ \A d \in Pipes, u \in Units :
          In(u, d)' => In(u, d) \/ (d = "gitOut" /\ u # "ok")
    /\ told' = "ok" => applied
    /\ git' = "ok" => told' \in {"ok", "uptodate"}
    /\ git = "ok" => git' = "ok"

\* Such a step keeps the invariant.
LEMMA GitMovesKeep ==
    ASSUME Inv, GitMoves
    PROVE  Inv'
<1>1. "ok" \in Units /\ "cmds" \in Units /\ "stdin" \in Pipes
  BY DEF Units, Pipes
<1>2. PipesOK'
  BY DEF GitMoves, Inv, PipesOK
<1>3. ReportInv'
  BY <1>1 DEF GitMoves, Inv, ReportInv
<1>4. CountInv'
  BY <1>1 DEF GitMoves, Inv, CountInv
<1> QED
  BY <1>2, <1>3, <1>4 DEF Inv

\* git keeps the invariant.
LEMMA GitKeepsInv ==
    ASSUME Inv, Git \/ GitShutsDown \/ GitKilled
    PROVE  Inv'
<1>0. /\ {"gitIn", "gitOut"} \subseteq Pipes
      /\ {"ok", "cmds", "flush", "pack"} \subseteq Units
      /\ PipesOK
      /\ told = "ok" => applied
      /\ git = "ok" => told \in {"ok", "uptodate"}
  BY DEF Pipes, Units, Inv, ReportInv
<1>1. ASSUME Take("gitIn"), GitKeeps, UNCHANGED packLeft,
             git \in {"adv", "report"},
             \/ UNCHANGED told /\ git' # "ok"
             \/ told' = Head(pipe["gitIn"]) /\ git' = "eof"
      PROVE  GitMoves
  <2>1. /\ pipe' \in [Pipes -> Seq(Units)]
        /\ In(Head(pipe["gitIn"]), "gitIn")
        /\ \A d \in Pipes, u \in Units : In(u, d)' => In(u, d)
    BY <1>0, <1>1, TakeRemoves
  <2>2. told' = "ok" => applied
    BY <1>0, <1>1, <2>1 DEF Inv, ReportInv
  <2> QED
    BY <1>1, <2>1, <2>2 DEF GitMoves, GitKeeps, childVars
<1>2. ASSUME NEW unit \in {"cmds", "flush", "pack"}, Put("gitOut", unit),
             GitKeeps, git \in {"cmds", "pack"}, git' # "ok",
             told' \in {told, "uptodate"}
      PROVE  GitMoves
  <2>1. /\ pipe' \in [Pipes -> Seq(Units)]
        /\ \A d \in Pipes, u \in Units :
              In(u, d)' => In(u, d) \/ (d = "gitOut" /\ u = unit)
    BY <1>0, <1>2, PutAdds
  <2> QED
    BY <1>0, <1>2, <2>1 DEF GitMoves, GitKeeps, childVars
<1>3. ASSUME UNCHANGED <<pipe, held, counted, client, childVars, told>>,
             git' = "ok" => told \in {"ok", "uptodate"},
             git = "ok" => git' = "ok"
      PROVE  GitMoves
  BY <1>0, <1>3 DEF GitMoves, PipesOK, In, childVars
<1>4. CASE GitReadsAdvertisement \/ GitReadsReport
  BY <1>1, GitMovesKeep, <1>4 DEF GitReadsAdvertisement, GitReadsReport
<1>5. CASE GitSendsCommands
  BY <1>2, GitMovesKeep, <1>5 DEF GitSendsCommands
<1>6. CASE GitUpToDate
  BY <1>2, GitMovesKeep, <1>6 DEF GitUpToDate
<1>7. CASE GitSendsPack
  BY <1>2, GitMovesKeep, <1>7 DEF GitSendsPack
<1>8. CASE GitShutsDown
  BY <1>0, <1>3, GitMovesKeep, <1>8 DEF GitShutsDown, GitKeeps
<1>9. CASE GitFinishes \/ GitGivesUp \/ GitKilled
  BY <1>3, GitMovesKeep, <1>9
     DEF GitFinishes, GitGivesUp, GitKilled, GitExits, GitRuns
<1> QED
  BY <1>4, <1>5, <1>6, <1>7, <1>8, <1>9 DEF Git

\* receive-pack keeps the invariant: it says "ok" of a ref it has moved, and
\* has read the counted commands before it moves one.
LEMMA ReceivePackKeepsInv ==
    ASSUME Inv, ReceivePack \/ ChildKilled
    PROVE  Inv'
<1>0. /\ {"stdin", "stdout", "stderr"} \subseteq Pipes
      /\ {"ok", "ng", "cmds", "note", "adv", "advEnd"} \subseteq Units
      /\ "stdin" # "stdout" /\ "stdin" # "stderr"
      /\ PipesOK /\ ReportInv /\ CountInv
  BY DEF Pipes, Units, Inv
<1> USE DEF ChildKeeps, ChildExits, clientVars
<1>1. CASE ChildAdvertises \/ ChildWritesStderr
  <2>1. PICK c \in {"stdout", "stderr"}, unit \in {"adv", "advEnd", "note"} :
            Put(c, unit)
    BY <1>1 DEF ChildAdvertises, ChildWritesStderr
  <2>2. /\ pipe' \in [Pipes -> Seq(Units)]
        /\ \A d \in Pipes, u \in Units :
              In(u, d)' => In(u, d) \/ (d = c /\ u = unit)
    BY <1>0, <2>1, PutAdds
  <2>3. /\ UNCHANGED <<held, counted, told, git, client, hook, applied>>
        /\ child' \in {"adv", "cmds", "notes"}
        /\ child \in {"adv", "notes"}
        /\ child' = "notes" => child = "notes"
    BY <1>1 DEF ChildAdvertises, ChildWritesStderr
  <2>4. PipesOK'
    BY <1>0, <2>2, <2>3 DEF PipesOK
  <2>5. ReportInv'
    BY <1>0, <2>2, <2>3 DEF ReportInv
  <2>6. CountInv'
    BY <1>0, <2>2, <2>3 DEF CountInv
  <2> QED
    BY <2>4, <2>5, <2>6 DEF Inv
<1>2. CASE ChildReadsCommands \/ ChildReadsPack
  <2>1. /\ pipe' \in [Pipes -> Seq(Units)]
        /\ In(Head(pipe["stdin"]), "stdin")
        /\ \A d \in Pipes, u \in Units : In(u, d)' => In(u, d)
    BY <1>0, <1>2, TakeRemoves DEF ChildReadsCommands, ChildReadsPack
  <2>2. /\ UNCHANGED <<held, counted, told, git, client, hook, applied>>
        /\ child \in {"cmds", "pack"}
        /\ child' \in {"pack", "notes", "ok"}
    BY <1>2 DEF ChildReadsCommands, ChildReadsPack
  <2>3. child' \in {"pack", "notes"} => counted
    BY <1>0, <1>2, <2>1 DEF ChildReadsCommands, ChildReadsPack, CountInv
  <2>4. PipesOK'
    BY <1>0, <2>1, <2>2 DEF PipesOK
  <2>5. ReportInv'
    BY <1>0, <2>1, <2>2 DEF ReportInv
  <2>6. CountInv'
    BY <1>0, <2>1, <2>2, <2>3 DEF CountInv
  <2> QED
    BY <2>4, <2>5, <2>6 DEF Inv
<1>3. CASE ChildUpdates
  <2>1. ~applied /\ counted
    BY <1>0, <1>3 DEF ChildUpdates, ReportInv, CountInv
  <2>2. applied' => hook' = "passed"
    BY <1>3 DEF ChildUpdates
  <2>3. UNCHANGED <<pipe, held, counted, told, git, client>> /\ child' = "report"
    BY <1>3 DEF ChildUpdates
  <2>4. \A d \in Pipes, u \in Units : In(u, d)' => In(u, d)
    BY <2>3 DEF In
  <2>5. PipesOK'
    BY <1>0, <2>3 DEF PipesOK
  <2>6. ReportInv'
    BY <1>0, <2>1, <2>3, <2>4 DEF ReportInv
  <2>7. CountInv'
    BY <1>0, <2>1, <2>2, <2>3, <2>4 DEF CountInv
  <2> QED
    BY <2>5, <2>6, <2>7 DEF Inv
<1>4. CASE ChildReports
  <2>1. PICK unit \in {"ok", "ng"} :
            Put("stdout", unit) /\ (unit = "ok" => applied)
    BY <1>4 DEF ChildReports
  <2>2. /\ pipe' \in [Pipes -> Seq(Units)]
        /\ \A d \in Pipes, u \in Units :
              In(u, d)' => In(u, d) \/ (d = "stdout" /\ u = unit)
    BY <1>0, <2>1, PutAdds
  <2>3. /\ UNCHANGED <<held, counted, told, git, client, hook, applied>>
        /\ child' = "ok"
    BY <1>4 DEF ChildReports
  <2>4. PipesOK'
    BY <1>0, <2>2, <2>3 DEF PipesOK
  <2>5. ReportInv'
    BY <1>0, <2>1, <2>2, <2>3 DEF ReportInv
  <2>6. CountInv'
    BY <1>0, <2>1, <2>2, <2>3 DEF CountInv
  <2> QED
    BY <2>4, <2>5, <2>6 DEF Inv
<1>5. CASE ChildFails \/ ChildKilled
  <2>1. /\ UNCHANGED <<pipe, held, counted, told, git, client, hook, applied>>
        /\ child' = "bad"
    BY <1>5 DEF ChildFails, ChildKilled
  <2>2. \A d \in Pipes, u \in Units : In(u, d)' => In(u, d)
    BY <2>1 DEF In
  <2>3. PipesOK' /\ ReportInv' /\ CountInv'
    BY <1>0, <2>1, <2>2 DEF PipesOK, ReportInv, CountInv
  <2> QED
    BY <2>3 DEF Inv
<1> QED
  BY <1>1, <1>2, <1>3, <1>4, <1>5 DEF ReceivePack

\* push_refs, the handler, its watchdog and a lost connection keep the
\* invariant.
LEMMA OthersKeepInv ==
    ASSUME Inv, Client \/ Handler \/ WatchdogFires \/ ConnectionLost
    PROVE  Inv'
<1>0. PipesOK /\ ReportInv /\ CountInv /\ "stderr" \in Pipes
  BY DEF Inv, Pipes
<1>1. CASE Client
  <2>1. /\ UNCHANGED <<pipe, held, counted, told, git, child, hook, applied>>
        /\ client' = "ok" => git = "ok"
    BY <1>1 DEF Client, ClientGitExited, ClientJoinsOut, ClientReturns,
                ClientKeeps, childVars
  <2>2. \A d \in Pipes, u \in Units : In(u, d)' => In(u, d)
    BY <2>1 DEF In
  <2>3. PipesOK' /\ ReportInv' /\ CountInv'
    BY <1>0, <2>1, <2>2 DEF PipesOK, ReportInv, CountInv, Pipes, Units
  <2> QED
    BY <2>3 DEF Inv
<1>2. CASE Handler \/ WatchdogFires
  <2>1. UNCHANGED <<held, counted, told, git, client, child, hook, applied>>
    BY <1>2 DEF Handler, HandlerReadsStderr, HandlerChildExited,
                HandlerJoinsOut, HandlerReturns, WatchdogFires, HandlerKeeps,
                clientVars, childVars
  <2>2. Take("stderr") \/ UNCHANGED pipe
    BY <1>2 DEF Handler, HandlerReadsStderr, HandlerChildExited,
                HandlerJoinsOut, HandlerReturns, WatchdogFires
  <2>3. /\ pipe' \in [Pipes -> Seq(Units)]
        /\ \A d \in Pipes, u \in Units : In(u, d)' => In(u, d)
    <3>1. CASE Take("stderr")
      BY <1>0, <3>1, TakeRemoves
    <3>2. CASE UNCHANGED pipe
      BY <1>0, <3>2 DEF PipesOK, In
    <3> QED
      BY <2>2, <3>1, <3>2
  <2> QED
    BY <1>0, <2>1, <2>3, NothingNew DEF PipesOK, ReportInv
<1>3. CASE ConnectionLost
  <2>1. /\ pipe' = [pipe EXCEPT !["up"] = <<>>, !["down"] = <<>>]
        /\ UNCHANGED <<held, counted, told, git, client, child, hook, applied>>
    BY <1>3 DEF ConnectionLost, clientVars, childVars
  <2>2. pipe' \in [Pipes -> Seq(Units)]
    BY <1>0, <2>1, EmptySeq DEF PipesOK
  <2>3. \A d \in Pipes : pipe'[d] = <<>> \/ pipe'[d] = pipe[d]
    BY <1>0, <2>1 DEF PipesOK
  <2>4. \A d \in Pipes, u \in Units : In(u, d)' => In(u, d)
    BY <2>3 DEF In
  <2> QED
    BY <1>0, <2>1, <2>2, <2>4, NothingNew DEF PipesOK, ReportInv
<1> QED
  BY <1>1, <1>2, <1>3

\* Every step keeps the invariant.
LEMMA InvPreserved ==
    ASSUME Inv, [Next]_vars
    PROVE  Inv'
<1>1. ASSUME NEW p \in Pumps, PumpRead(p) \/ PumpWrite(p) \/ PumpStops(p)
      PROVE  Inv'
  BY <1>1, PumpKeeps
<1>2. CASE OutPump \/ InPump \/ ServerInPump \/ ServerOutPump
  BY <1>1, <1>2
     DEF OutPump, InPump, ServerInPump, ServerOutPump, OutPumpEnds, InPumpEnds,
         ServerInPumpEnds, ServerOutPumpEnds, Pumps
<1>3. CASE UNCHANGED vars
  BY <1>3 DEF vars, clientVars, childVars, Inv, PipesOK, ReportInv, CountInv, In
<1> QED
  BY <1>2, <1>3, GitKeepsInv, ReceivePackKeepsInv, OthersKeepInv DEF Next

\* The invariant holds.
LEMMA ExchangeInv == Spec => []Inv
<1>1. Init => Inv
  <2> SUFFICES ASSUME Init PROVE Inv
    OBVIOUS
  <2>1. \A c \in Pipes : pipe[c] = <<>> /\ <<>> \in Seq(Units)
    BY EmptySeq DEF Init
  <2>2. \A c \in Pipes, u \in Units : ~In(u, c)
    BY <2>1 DEF In
  <2>3. "ok" \in Units /\ "cmds" \in Units /\ "stdin" \in Pipes
    BY DEF Units, Pipes
  <2>4. \A p \in Pumps : held[p] # "ok"
    BY <2>3, NoneAssumption DEF Init
  <2> QED
    BY <2>1, <2>2, <2>3, <2>4 DEF Init, Inv, PipesOK, ReportInv, CountInv
<1>2. Inv /\ [Next]_vars => Inv'
  BY InvPreserved
<1> QED
  BY <1>1, <1>2, PTL DEF Spec

\* The hook passes a ref only if it could note it.
FileInv == hook = "passed" => file

\* That is an invariant on its own.
LEMMA HookInv == Spec => []FileInv
<1>1. Init => FileInv
  BY DEF Init, FileInv
<1>2. ASSUME FileInv, [Next]_vars PROVE FileInv'
  <2>1. CASE ChildUpdates
    BY <2>1 DEF ChildUpdates, ChildKeeps, setting, FileInv
  <2>2. CASE UNCHANGED <<file, hook>>
    BY <1>2, <2>2 DEF FileInv
  <2> USE DEF setting, childVars
  <2>3. CASE Git \/ GitShutsDown \/ GitKilled
    BY <2>2, <2>3
       DEF Git, GitReadsAdvertisement, GitSendsCommands, GitUpToDate,
           GitSendsPack, GitReadsReport, GitFinishes, GitGivesUp,
           GitShutsDown, GitKilled, GitExits, GitKeeps
  <2>4. CASE OutPump \/ InPump \/ ServerInPump \/ ServerOutPump
    BY <2>2, <2>4
       DEF OutPump, InPump, ServerInPump, ServerOutPump, OutPumpEnds,
           InPumpEnds, ServerInPumpEnds, ServerOutPumpEnds, PumpRead,
           PumpWrite, PumpStops
  <2>5. CASE (ReceivePack /\ ~ChildUpdates) \/ ChildKilled
    BY <2>2, <2>5
       DEF ReceivePack, ChildAdvertises, ChildReadsCommands, ChildReadsPack,
           ChildWritesStderr, ChildReports, ChildFails, ChildKilled,
           ChildExits, ChildKeeps
  <2>6. CASE Client \/ Handler \/ WatchdogFires \/ ConnectionLost
    BY <2>2, <2>6
       DEF Client, ClientGitExited, ClientJoinsOut, ClientReturns, ClientKeeps,
           Handler, HandlerReadsStderr, HandlerChildExited, HandlerJoinsOut,
           HandlerReturns, WatchdogFires, HandlerKeeps, ConnectionLost
  <2>7. CASE UNCHANGED vars
    BY <2>2, <2>7 DEF vars
  <2> QED
    BY <1>2, <2>1, <2>3, <2>4, <2>5, <2>6, <2>7 DEF Next
<1> QED
  BY <1>1, <1>2, PTL DEF Spec

\* Whatever dies on the way, a push that returns Ok has had its update
\* applied, or had none to make.
THEOREM SuccessIsTrue == Spec => []SuccessMeansApplied
<1>1. Inv => SuccessMeansApplied
  BY DEF Inv, ReportInv, SuccessMeansApplied
<1> QED
  BY <1>1, ExchangeInv, PTL

\* Whatever dies on the way, the handler never records a connection that
\* moved a ref as one that asked for nothing or was let through nothing.
THEOREM QuietIsTrue == Spec => []QuietMeansUntouched
<1>1. Inv /\ FileInv => QuietMeansUntouched
  BY DEF Inv, CountInv, FileInv, QuietMeansUntouched, Outcome, Noted
<1> QED
  BY <1>1, ExchangeInv, HookInv, PTL

-----------------------------------------------------------------------------
(* Sequences that lie end to end.                                          *)

\* Moving the head of a sequence to the end of the one before it, by way of a
\* hand, changes nothing of the two put together.
LEMMA ReadKeepsWhole ==
    ASSUME NEW S, NEW x \in Seq(S), NEW y \in Seq(S), x # <<>>
    PROVE  <<Head(x)>> \o (Tail(x) \o y) = x \o y
<1>1. /\ Head(x) \in S /\ Tail(x) \in Seq(S) /\ <<Head(x)>> \in Seq(S)
      /\ <<Head(x)>> \o Tail(x) \in Seq(S)
  BY HeadTailProperties
<1>2. <<Head(x)>> \o Tail(x) = x
  <2> DEFINE whole == <<Head(x)>> \o Tail(x)
  <2>1. whole \in Seq(S) /\ Len(whole) = Len(x) /\ Len(x) > 0
    OBVIOUS
  <2>2. \A i \in 1 .. Len(x) : whole[i] = x[i]
    OBVIOUS
  <2> HIDE DEF whole
  <2>3. whole = x
    BY <2>1, <2>2, SeqEqual
  <2> QED
    BY <2>3 DEF whole
<1>3. (<<Head(x)>> \o Tail(x)) \o y = <<Head(x)>> \o (Tail(x) \o y)
  BY <1>1, ConcatAssociative
<1> QED
  BY <1>2, <1>3

\* A unit written at the end of a pipe is in front of what comes after it.
LEMMA WriteKeepsWhole ==
    ASSUME NEW S, NEW x \in Seq(S), NEW y \in Seq(S), NEW u \in S
    PROVE  Append(x, u) \o y = x \o (<<u>> \o y)
<1>1. <<u>> \in Seq(S) /\ Append(x, u) \in Seq(S) /\ x \o <<u>> \in Seq(S)
  OBVIOUS
<1>2. Append(x, u) = x \o <<u>>
  <2> DEFINE longer == Append(x, u)
             whole  == x \o <<u>>
  <2>1. /\ longer \in Seq(S) /\ whole \in Seq(S)
        /\ Len(longer) = Len(whole) /\ Len(whole) = Len(x) + 1
    OBVIOUS
  <2>2. \A i \in 1 .. (Len(x) + 1) : longer[i] = whole[i]
    OBVIOUS
  <2> HIDE DEF longer, whole
  <2>3. longer = whole
    BY <2>1, <2>2, SeqEqual
  <2> QED
    BY <2>3 DEF longer, whole
<1>3. (x \o <<u>>) \o y = x \o (<<u>> \o y)
  BY <1>1, ConcatAssociative
<1> QED
  BY <1>2, <1>3

\* What is appended to the last is appended to the whole.
LEMMA AppendToWhole ==
    ASSUME NEW S, NEW x \in Seq(S), NEW y \in Seq(S), NEW u \in S
    PROVE  x \o Append(y, u) = Append(x \o y, u)
<1> DEFINE left_ == x \o Append(y, u)
           right == Append(x \o y, u)
<1>1. /\ left_ \in Seq(S) /\ right \in Seq(S)
      /\ Len(left_) = Len(right) /\ Len(right) = Len(x) + Len(y) + 1
  OBVIOUS
<1>2. \A i \in 1 .. (Len(x) + Len(y) + 1) : left_[i] = right[i]
  OBVIOUS
<1> HIDE DEF left_, right
<1>3. left_ = right
  BY <1>1, <1>2, SeqEqual
<1> QED
  BY <1>3 DEF left_, right

\* What is taken from the first is taken from the whole.
LEMMA TakeFromWhole ==
    ASSUME NEW S, NEW x \in Seq(S), NEW y \in Seq(S), x # <<>>
    PROVE  /\ Tail(x) \o y = Tail(x \o y)
           /\ Head(x \o y) = Head(x)
           /\ x \o y # <<>>
<1>1. x \o y \in Seq(S) /\ Len(x \o y) = Len(x) + Len(y) /\ Len(x) > 0
  OBVIOUS
<1>2. x \o y # <<>> /\ Head(x \o y) = Head(x)
  BY <1>1
<1> DEFINE left_ == Tail(x) \o y
           right == Tail(x \o y)
<1>3. /\ left_ \in Seq(S) /\ right \in Seq(S)
      /\ Len(left_) = Len(right) /\ Len(right) = Len(x) + Len(y) - 1
  BY <1>1
<1>4. \A i \in 1 .. (Len(x) + Len(y) - 1) : left_[i] = right[i]
  BY <1>1
<1> HIDE DEF left_, right
<1>5. left_ = right
  BY <1>3, <1>4, SeqEqual
<1> QED
  BY <1>2, <1>5 DEF left_, right

-----------------------------------------------------------------------------
(* The stream from receive-pack to git, in any environment.                *)

Hand(p) == IF held[p] = None THEN <<>> ELSE <<held[p]>>

\* All that is under way to git, oldest first.
Inbound == pipe["gitIn"] \o (Hand("cIn") \o (pipe["down"]
               \o (Hand("sOut") \o pipe["stdout"])))

\* The advertisement comes first, its end next, the report last.
MayPrecede(u, v) == u = "adv" \/ (u = "advEnd" /\ v \in {"ok", "ng"})

AllIn(d, units) == \A i \in 1 .. Len(d) : d[i] \in units

InOrder(d) == \A i, j \in 1 .. Len(d) : i < j => MayPrecede(d[i], d[j])

GitIsPast == git \in {"cmds", "pack", "report", "eof"}

\* What may be under way when git and receive-pack are where they are.
FlowInv ==
    /\ InOrder(Inbound)
    /\ AllIn(Inbound, {"adv", "advEnd", "ok", "ng"})
    /\ child = "adv" => AllIn(Inbound, {"adv"})
    /\ ChildRuns => AllIn(Inbound, {"adv", "advEnd"})
    /\ GitIsPast => child # "adv" /\ AllIn(Inbound, {"ok", "ng"})

\* Parts of the stream are sequences of chunks.
LEMMA Parts ==
    ASSUME PipesOK
    PROVE  /\ \A c \in Pipes : pipe[c] \in Seq(Units)
           /\ \A p \in Pumps : Hand(p) \in Seq(Units)
           /\ Hand("sOut") \o pipe["stdout"] \in Seq(Units)
           /\ pipe["down"] \o (Hand("sOut") \o pipe["stdout"]) \in Seq(Units)
           /\ Hand("cIn") \o (pipe["down"] \o (Hand("sOut") \o pipe["stdout"]))
                 \in Seq(Units)
           /\ Inbound \in Seq(Units)
<1>1. \A c \in Pipes : pipe[c] \in Seq(Units)
  BY DEF PipesOK
<1>2. \A p \in Pumps : Hand(p) \in Seq(Units)
  BY DEF PipesOK, Hand
<1>3. {"gitIn", "down", "stdout"} \subseteq Pipes /\ {"cIn", "sOut"} \subseteq Pumps
  BY DEF Pipes, Pumps
<1>4. \A x, y \in Seq(Units) : x \o y \in Seq(Units)
  OBVIOUS
<1> HIDE DEF Hand
<1> QED
  BY <1>1, <1>2, <1>3, <1>4 DEF Inbound

\* The same after a step.
LEMMA PartsAfter ==
    ASSUME PipesOK'
    PROVE  Inbound' \in Seq(Units)
<1>1. \A c \in Pipes : pipe'[c] \in Seq(Units)
  BY DEF PipesOK
<1>2. \A p \in Pumps : Hand(p)' \in Seq(Units)
  BY DEF PipesOK, Hand
<1>3. {"gitIn", "down", "stdout"} \subseteq Pipes /\ {"cIn", "sOut"} \subseteq Pumps
  BY DEF Pipes, Pumps
<1>4. \A x, y \in Seq(Units) : x \o y \in Seq(Units)
  OBVIOUS
<1>5. Hand("cIn")' \in Seq(Units) /\ Hand("sOut")' \in Seq(Units)
  BY <1>2, <1>3
<1>6. Inbound' = pipe'["gitIn"] \o (Hand("cIn")' \o (pipe'["down"]
                    \o (Hand("sOut")' \o pipe'["stdout"])))
  BY DEF Inbound
<1> HIDE DEF Hand
<1> QED
  BY <1>1, <1>3, <1>4, <1>5, <1>6

\* The pumps move chunks along and change nothing of the stream.
LEMMA PumpsMoveNothing ==
    ASSUME PipesOK, NEW p \in Pumps, PumpRead(p) \/ PumpWrite(p)
    PROVE  Inbound' = Inbound
<1> DEFINE g == pipe["gitIn"]
           c == Hand("cIn")
           d == pipe["down"]
           t == Hand("sOut")
           o == pipe["stdout"]
<1>0. /\ Pipes = {"gitOut", "gitIn", "up", "down", "stdin", "stdout", "stderr"}
      /\ p \in {"cOut", "cIn", "sIn", "sOut"}
  BY DEF Pipes, Pumps
<1>1. /\ g \in Seq(Units) /\ c \in Seq(Units) /\ d \in Seq(Units)
      /\ t \in Seq(Units) /\ o \in Seq(Units)
      /\ t \o o \in Seq(Units) /\ d \o (t \o o) \in Seq(Units)
      /\ c \o (d \o (t \o o)) \in Seq(Units)
  BY Parts DEF Pipes, Pumps
<1>2. Inbound = g \o (c \o (d \o (t \o o)))
  BY DEF Inbound
<1>3. Inbound' = g' \o (c' \o (d' \o (t' \o o')))
  BY DEF Inbound
<1>4. <<>> \o (d \o (t \o o)) = d \o (t \o o) /\ <<>> \o o = o
  BY <1>1, ConcatEmptySeq
<1>5. CASE PumpRead(p)
  <2>1. /\ held[p] = None
        /\ pipe[From[p]] # <<>>
        /\ pipe' = [pipe EXCEPT ![From[p]] = Tail(pipe[From[p]])]
        /\ held' = [held EXCEPT ![p] = Head(pipe[From[p]])]
    BY <1>5 DEF PumpRead, Take
  <2>2. Head(pipe[From[p]]) # None
    BY <2>1, TakeRemoves, <1>5, NoneAssumption DEF PumpRead, From, Pipes, Pumps
  <2>3. CASE p = "cIn"
    <3>1. /\ c = <<>> /\ c' = <<Head(d)>> /\ d' = Tail(d) /\ d # <<>>
          /\ g' = g /\ t' = t /\ o' = o
      BY <1>0, <2>1, <2>2, <2>3 DEF Hand, From, PipesOK, Pipes, Pumps
    <3>2. <<Head(d)>> \o (Tail(d) \o (t \o o)) = d \o (t \o o)
      BY <1>1, <3>1, ReadKeepsWhole
    <3> HIDE DEF g, c, d, t, o
    <3> QED
      BY <1>2, <1>3, <1>4, <3>1, <3>2
  <2>4. CASE p = "sOut"
    <3>1. /\ t = <<>> /\ t' = <<Head(o)>> /\ o' = Tail(o) /\ o # <<>>
          /\ g' = g /\ c' = c /\ d' = d
      BY <1>0, <2>1, <2>2, <2>4 DEF Hand, From, PipesOK, Pipes, Pumps
    <3>2. <<Head(o)>> \o (Tail(o) \o <<>>) = o \o <<>>
      BY <1>1, <3>1, EmptySeq, ReadKeepsWhole
    <3>3. o \o <<>> = o /\ Tail(o) \o <<>> = Tail(o)
      BY <1>1, <3>1, HeadTailProperties, ConcatEmptySeq
    <3> HIDE DEF g, c, d, t, o
    <3> QED
      BY <1>2, <1>3, <1>4, <3>1, <3>2, <3>3
  <2>5. CASE p \in {"cOut", "sIn"}
    <3>1. g' = g /\ c' = c /\ d' = d /\ t' = t /\ o' = o
      BY <1>0, <2>1, <2>5 DEF Hand, From, PipesOK, Pipes, Pumps
    <3> QED
      BY <1>2, <1>3, <3>1
  <2> QED
    BY <1>0, <2>3, <2>4, <2>5
<1>6. CASE PumpWrite(p)
  <2>1. /\ held[p] \in Units
        /\ pipe' = [pipe EXCEPT ![To[p]] = Append(pipe[To[p]], held[p])]
        /\ held' = [held EXCEPT ![p] = None]
    BY <1>6 DEF PumpWrite, Put, PipesOK
  <2>2. held[p] # None
    BY <2>1, NoneAssumption
  <2>3. CASE p = "cIn"
    <3>1. /\ c = <<held[p]>> /\ c' = <<>> /\ g' = Append(g, held[p])
          /\ d' = d /\ t' = t /\ o' = o
      BY <1>0, <2>1, <2>2, <2>3 DEF Hand, To, PipesOK, Pipes, Pumps
    <3> HIDE DEF g, c, d, t, o
    <3>2. ASSUME NEW rest \in Seq(Units)
          PROVE  Append(g, held[p]) \o rest = g \o (<<held[p]>> \o rest)
      <4>1. g \in Seq(Units) /\ held[p] \in Units
        BY <1>1, <2>1
      <4> QED
        BY <4>1, WriteKeepsWhole
    <3> QED
      BY <1>2, <1>3, <1>4, <3>1, <3>2
  <2>4. CASE p = "sOut"
    <3>1. /\ t = <<held[p]>> /\ t' = <<>> /\ d' = Append(d, held[p])
          /\ g' = g /\ c' = c /\ o' = o
      BY <1>0, <2>1, <2>2, <2>4 DEF Hand, To, PipesOK, Pipes, Pumps
    <3> HIDE DEF g, c, d, t, o
    <3>2. Append(d, held[p]) \o o = d \o (<<held[p]>> \o o)
      BY <1>1, <2>1, WriteKeepsWhole
    <3> QED
      BY <1>2, <1>3, <1>4, <3>1, <3>2
  <2>5. CASE p \in {"cOut", "sIn"}
    <3>1. g' = g /\ c' = c /\ d' = d /\ t' = t /\ o' = o
      BY <1>0, <2>1, <2>5 DEF Hand, To, PipesOK, Pipes, Pumps
    <3> QED
      BY <1>2, <1>3, <3>1
  <2> QED
    BY <1>0, <2>3, <2>4, <2>5
<1> QED
  BY <1>5, <1>6

-----------------------------------------------------------------------------
\* One sequence is what is left of another when chunks are lost.
LeftOf(short, long) ==
    \E at \in [1 .. Len(short) -> 1 .. Len(long)] :
        /\ \A i \in 1 .. Len(short) : short[i] = long[at[i]]
        /\ \A i, j \in 1 .. Len(short) : i < j => at[i] < at[j]

\* Losses keep the order, and bring in nothing.
LEMMA LossKeeps ==
    ASSUME NEW S, NEW short \in Seq(S), NEW long \in Seq(S), LeftOf(short, long)
    PROVE  /\ InOrder(long) => InOrder(short)
           /\ \A units : AllIn(long, units) => AllIn(short, units)
<1>1. PICK at \in [1 .. Len(short) -> 1 .. Len(long)] :
         /\ \A i \in 1 .. Len(short) : short[i] = long[at[i]]
         /\ \A i, j \in 1 .. Len(short) : i < j => at[i] < at[j]
  BY DEF LeftOf
<1>2. \A i \in 1 .. Len(short) : at[i] \in 1 .. Len(long)
  BY <1>1
<1>3. InOrder(long) => InOrder(short)
  BY <1>1, <1>2 DEF InOrder
<1>4. ASSUME NEW units, AllIn(long, units) PROVE AllIn(short, units)
  BY <1>1, <1>2, <1>4 DEF AllIn
<1> QED
  BY <1>3, <1>4

\* A sequence is what is left of itself.
LEMMA NothingLost ==
    ASSUME NEW S, NEW x \in Seq(S)
    PROVE  LeftOf(x, x)
<1> DEFINE at == [i \in 1 .. Len(x) |-> i]
<1>1. /\ at \in [1 .. Len(x) -> 1 .. Len(x)]
      /\ \A i \in 1 .. Len(x) : x[i] = x[at[i]]
      /\ \A i, j \in 1 .. Len(x) : i < j => at[i] < at[j]
  OBVIOUS
<1> HIDE DEF at
<1> QED
  BY <1>1 DEF LeftOf

\* What follows a part that is lost is left.
LEMMA FirstLost ==
    ASSUME NEW S, NEW x \in Seq(S), NEW y \in Seq(S)
    PROVE  LeftOf(y, x \o y)
<1> DEFINE at == [i \in 1 .. Len(y) |-> Len(x) + i]
           xy == x \o y
<1>1. /\ at \in [1 .. Len(y) -> 1 .. Len(xy)]
      /\ \A i \in 1 .. Len(y) : y[i] = xy[at[i]]
      /\ \A i, j \in 1 .. Len(y) : i < j => at[i] < at[j]
  OBVIOUS
<1> HIDE DEF at, xy
<1>2. LeftOf(y, xy)
  BY <1>1 DEF LeftOf
<1> QED
  BY <1>2 DEF xy

\* What is lost of a later part is lost of the whole.
LEMMA LaterLost ==
    ASSUME NEW S, NEW x \in Seq(S), NEW y \in Seq(S), NEW z \in Seq(S),
           LeftOf(y, z)
    PROVE  LeftOf(x \o y, x \o z)
<1>1. PICK at \in [1 .. Len(y) -> 1 .. Len(z)] :
         /\ \A i \in 1 .. Len(y) : y[i] = z[at[i]]
         /\ \A i, j \in 1 .. Len(y) : i < j => at[i] < at[j]
  BY DEF LeftOf
<1> DEFINE to == [i \in 1 .. (Len(x) + Len(y)) |->
                     IF i <= Len(x) THEN i ELSE Len(x) + at[i - Len(x)]]
           xy == x \o y
           xz == x \o z
<1>2. /\ Len(xy) = Len(x) + Len(y) /\ Len(xz) = Len(x) + Len(z)
      /\ Len(x) \in Nat /\ Len(y) \in Nat /\ Len(z) \in Nat
  OBVIOUS
<1>3. \A i \in 1 .. Len(xy) :
         IF i <= Len(x) THEN xy[i] = x[i] ELSE xy[i] = y[i - Len(x)]
  OBVIOUS
<1>4. \A i \in 1 .. Len(xz) :
         IF i <= Len(x) THEN xz[i] = x[i] ELSE xz[i] = z[i - Len(x)]
  OBVIOUS
<1> HIDE DEF xy, xz
<1>5. \A k \in 1 .. Len(y) : at[k] \in 1 .. Len(z)
  BY <1>1
<1>6. ASSUME NEW i \in 1 .. Len(xy)
      PROVE  /\ to[i] \in 1 .. Len(xz)
             /\ xy[i] = xz[to[i]]
             /\ i <= Len(x) => to[i] = i
             /\ i > Len(x) => /\ i - Len(x) \in 1 .. Len(y)
                              /\ to[i] = Len(x) + at[i - Len(x)]
                              /\ to[i] > Len(x)
  <2>1. i \in Nat /\ i > 0 /\ i <= Len(x) + Len(y)
    BY <1>2
  <2>2. CASE i <= Len(x)
    <3>1. to[i] = i
      BY <1>2, <2>1, <2>2
    <3>2. i \in 1 .. Len(xz)
      BY <1>2, <2>1, <2>2
    <3> HIDE DEF to
    <3> QED
      BY <1>2, <1>3, <1>4, <2>1, <2>2, <3>1, <3>2
  <2>3. CASE i > Len(x)
    <3>1. PICK k \in 1 .. Len(y) : i = Len(x) + k
      <4>1. i - Len(x) \in 1 .. Len(y) /\ i = Len(x) + (i - Len(x))
        BY <1>2, <2>1, <2>3
      <4> QED
        BY <4>1
    <3>2. i - Len(x) = k /\ at[k] \in 1 .. Len(z)
      BY <1>2, <1>5, <2>1, <3>1
    <3>3. to[i] = Len(x) + at[k]
      BY <1>2, <2>1, <2>3, <3>2
    <3>4. to[i] \in 1 .. Len(xz) /\ to[i] > Len(x) /\ to[i] - Len(x) = at[k]
      BY <1>2, <3>2, <3>3
    <3>5. xy[i] = y[k]
      BY <1>3, <2>1, <2>3, <1>2, <3>2
    <3>6. xz[to[i]] = z[at[k]]
      BY <1>2, <1>4, <3>4
    <3> HIDE DEF to
    <3> QED
      BY <1>1, <1>2, <2>1, <2>3, <3>1, <3>2, <3>3, <3>4, <3>5, <3>6
  <2> QED
    BY <1>2, <2>1, <2>2, <2>3
<1>7. to \in [1 .. Len(xy) -> 1 .. Len(xz)]
  BY <1>2, <1>6
<1>8. ASSUME NEW i \in 1 .. Len(xy), NEW j \in 1 .. Len(xy), i < j
      PROVE  to[i] < to[j]
  <2> HIDE DEF to
  <2>0. /\ i \in Int /\ j \in Int /\ Len(x) \in Int
        /\ i <= Len(x) => to[i] = i
        /\ j <= Len(x) => to[j] = j
        /\ i > Len(x) => /\ to[i] = Len(x) + at[i - Len(x)]
                         /\ i - Len(x) \in 1 .. Len(y)
        /\ j > Len(x) => /\ to[j] = Len(x) + at[j - Len(x)]
                         /\ j - Len(x) \in 1 .. Len(y)
    BY <1>2, <1>6
  <2>1. CASE j <= Len(x)
    BY <1>8, <2>0, <2>1
  <2>2. CASE i <= Len(x) /\ j > Len(x)
    BY <1>2, <1>6, <1>8, <2>2
  <2>3. CASE i > Len(x)
    <3>1. /\ i - Len(x) \in 1 .. Len(y) /\ j - Len(x) \in 1 .. Len(y)
          /\ i - Len(x) < j - Len(x)
      BY <1>2, <1>6, <1>8, <2>3
    <3>2. at[i - Len(x)] < at[j - Len(x)]
      BY <1>1, <3>1
    <3>3. /\ to[i] = Len(x) + at[i - Len(x)] /\ to[j] = Len(x) + at[j - Len(x)]
          /\ at[i - Len(x)] \in Nat /\ at[j - Len(x)] \in Nat
      BY <1>5, <1>8, <2>0, <2>3, <3>1
    <3> QED
      BY <1>2, <3>2, <3>3
  <2> QED
    BY <1>2, <2>1, <2>2, <2>3
<1> HIDE DEF to
<1>9. LeftOf(xy, xz)
  BY <1>6, <1>7, <1>8 DEF LeftOf
<1> QED
  BY <1>9 DEF xy, xz

\* A sequence without its head is left of it.
LEMMA HeadLost ==
    ASSUME NEW S, NEW x \in Seq(S), x # <<>>
    PROVE  LeftOf(Tail(x), x)
<1> DEFINE at == [i \in 1 .. Len(Tail(x)) |-> i + 1]
<1>1. /\ Tail(x) \in Seq(S) /\ Len(Tail(x)) = Len(x) - 1
      /\ Len(x) \in Nat \ {0}
      /\ \A i \in 1 .. Len(Tail(x)) : Tail(x)[i] = x[i + 1]
  BY HeadTailProperties, LenProperties, EmptySeq
<1>2. /\ at \in [1 .. Len(Tail(x)) -> 1 .. Len(x)]
      /\ \A i \in 1 .. Len(Tail(x)) : Tail(x)[i] = x[at[i]]
      /\ \A i, j \in 1 .. Len(Tail(x)) : i < j => at[i] < at[j]
  BY <1>1
<1> HIDE DEF at
<1> QED
  BY <1>2 DEF LeftOf

-----------------------------------------------------------------------------
(* What each step does to the stream.                                      *)

\* A step that touches none of its parts.
LEMMA SameInbound ==
    ASSUME PipesOK,
           \A c \in {"gitIn", "down", "stdout"} : pipe'[c] = pipe[c],
           \A p \in {"cIn", "sOut"} : held'[p] = held[p]
    PROVE  Inbound' = Inbound /\ LeftOf(Inbound', Inbound)
<1>1. Inbound' = Inbound
  BY DEF Inbound, Hand
<1> QED
  BY <1>1, Parts, NothingLost

\* receive-pack adds to its end.
LEMMA PutInbound ==
    ASSUME PipesOK, NEW unit \in Units, Put("stdout", unit), held' = held
    PROVE  Inbound' = Append(Inbound, unit)
<1> DEFINE g == pipe["gitIn"]
           c == Hand("cIn")
           d == pipe["down"]
           t == Hand("sOut")
           o == pipe["stdout"]
<1>1. /\ g \in Seq(Units) /\ c \in Seq(Units) /\ d \in Seq(Units)
      /\ t \in Seq(Units) /\ o \in Seq(Units)
      /\ t \o o \in Seq(Units) /\ d \o (t \o o) \in Seq(Units)
      /\ c \o (d \o (t \o o)) \in Seq(Units)
  BY Parts DEF Pipes, Pumps
<1>2. /\ g' = g /\ c' = c /\ d' = d /\ t' = t
      /\ o' = Append(o, unit)
  BY DEF Put, Hand, PipesOK, Pipes
<1>3. /\ Inbound = g \o (c \o (d \o (t \o o)))
      /\ Inbound' = g' \o (c' \o (d' \o (t' \o o')))
  BY DEF Inbound
<1> HIDE DEF g, c, d, t, o
<1>4. \A x, y \in Seq(Units) : x \o Append(y, unit) = Append(x \o y, unit)
  <2> SUFFICES ASSUME NEW x \in Seq(Units), NEW y \in Seq(Units)
               PROVE  x \o Append(y, unit) = Append(x \o y, unit)
    OBVIOUS
  <2> QED
    BY AppendToWhole
<1>5. t \o Append(o, unit) = Append(t \o o, unit)
  BY <1>1, <1>4, Zenon
<1>6. d \o Append(t \o o, unit) = Append(d \o (t \o o), unit)
  BY <1>1, <1>4, Zenon
<1>7. c \o Append(d \o (t \o o), unit) = Append(c \o (d \o (t \o o)), unit)
  BY <1>1, <1>4, Zenon
<1>8. g \o Append(c \o (d \o (t \o o)), unit)
         = Append(g \o (c \o (d \o (t \o o))), unit)
  BY <1>1, <1>4, Zenon
<1> QED
  BY <1>2, <1>3, <1>5, <1>6, <1>7, <1>8

\* git takes from its beginning.
LEMMA TakeInbound ==
    ASSUME PipesOK, Take("gitIn"), held' = held
    PROVE  /\ Inbound # <<>> /\ Inbound' = Tail(Inbound)
           /\ Head(pipe["gitIn"]) = Inbound[1]
           /\ LeftOf(Inbound', Inbound)
<1> DEFINE g == pipe["gitIn"]
           r == Hand("cIn") \o (pipe["down"] \o (Hand("sOut") \o pipe["stdout"]))
<1>1. g \in Seq(Units) /\ r \in Seq(Units) /\ Inbound \in Seq(Units)
  BY Parts DEF Pipes, Pumps
<1>2. g # <<>> /\ g' = Tail(g) /\ r' = r
  BY DEF Take, Hand, PipesOK, Pipes
<1>3. Inbound = g \o r /\ Inbound' = g' \o r'
  BY DEF Inbound
<1> HIDE DEF g, r
<1>4. Tail(g) \o r = Tail(g \o r) /\ Head(g \o r) = Head(g) /\ g \o r # <<>>
  BY <1>1, <1>2, TakeFromWhole
<1>5. Inbound # <<>> /\ Inbound' = Tail(Inbound) /\ Head(g) = Head(Inbound)
  BY <1>2, <1>3, <1>4
<1>6. Head(Inbound) = Inbound[1]
  BY <1>1, <1>5
<1> QED
  BY <1>1, <1>5, <1>6, HeadLost DEF g

\* A pump that stops drops what it holds; a connection that is lost, what is
\* in its buffers.
LEMMA DropInbound ==
    ASSUME PipesOK, PipesOK',
           \/ \E p \in Pumps : PumpStops(p)
           \/ ConnectionLost
    PROVE  LeftOf(Inbound', Inbound)
<1> DEFINE g == pipe["gitIn"]
           c == Hand("cIn")
           d == pipe["down"]
           t == Hand("sOut")
           o == pipe["stdout"]
<1>1. /\ g \in Seq(Units) /\ c \in Seq(Units) /\ d \in Seq(Units)
      /\ t \in Seq(Units) /\ o \in Seq(Units)
      /\ t \o o \in Seq(Units) /\ d \o (t \o o) \in Seq(Units)
      /\ c \o (d \o (t \o o)) \in Seq(Units)
      /\ Inbound \in Seq(Units)
  BY Parts DEF Pipes, Pumps
<1>2. <<>> \o (t \o o) = t \o o /\ <<>> \o o = o
      /\ <<>> \o (d \o (t \o o)) = d \o (t \o o)
  BY <1>1, ConcatEmptySeq
<1>3. /\ Inbound = g \o (c \o (d \o (t \o o)))
      /\ Inbound' = g' \o (c' \o (d' \o (t' \o o')))
  BY DEF Inbound
<1>4. /\ g' = g /\ o' = o
      /\ \/ c' = c /\ d' = d /\ t' = t
         \/ c' = <<>> /\ d' = d /\ t' = t
         \/ c' = c /\ d' = <<>> /\ t' = t
         \/ c' = c /\ d' = d /\ t' = <<>>
  <2>1. CASE ConnectionLost
    BY <2>1 DEF ConnectionLost, Hand, PipesOK, Pipes
  <2>2. CASE \E p \in Pumps : PumpStops(p)
    <3>1. PICK p \in Pumps : PumpStops(p)
      BY <2>2
    <3>2. pipe' = pipe /\ held' = [held EXCEPT ![p] = None]
      BY <3>1 DEF PumpStops
    <3>3. p \in {"cOut", "cIn", "sIn", "sOut"}
      BY DEF Pumps
    <3>4. CASE p = "cIn"
      BY <3>2, <3>4 DEF Hand, PipesOK, Pumps
    <3>5. CASE p = "sOut"
      BY <3>2, <3>5 DEF Hand, PipesOK, Pumps
    <3>6. CASE p \in {"cOut", "sIn"}
      BY <3>2, <3>6 DEF Hand, PipesOK, Pumps
    <3> QED
      BY <3>3, <3>4, <3>5, <3>6
  <2> QED
    BY <2>1, <2>2
<1> HIDE DEF g, c, d, t, o
<1>5. CASE c' = c /\ d' = d /\ t' = t
  BY <1>1, <1>3, <1>4, <1>5, NothingLost
<1>6. CASE c' = <<>> /\ d' = d /\ t' = t
  <2>1. LeftOf(d \o (t \o o), c \o (d \o (t \o o)))
    BY <1>1, FirstLost
  <2>2. LeftOf(g \o (d \o (t \o o)), g \o (c \o (d \o (t \o o))))
    BY <1>1, <2>1, LaterLost
  <2> QED
    BY <1>2, <1>3, <1>4, <1>6, <2>2
<1>7. CASE c' = c /\ d' = <<>> /\ t' = t
  <2>1. LeftOf(t \o o, d \o (t \o o)) /\ c \o (t \o o) \in Seq(Units)
    <3>1. LeftOf(t \o o, d \o (t \o o))
      BY <1>1, FirstLost
    <3>2. \A x, y \in Seq(Units) : x \o y \in Seq(Units)
      OBVIOUS
    <3> QED
      BY <1>1, <3>1, <3>2, Zenon
  <2>2. LeftOf(c \o (t \o o), c \o (d \o (t \o o)))
    BY <1>1, <2>1, LaterLost
  <2>3. LeftOf(g \o (c \o (t \o o)), g \o (c \o (d \o (t \o o))))
    BY <1>1, <2>1, <2>2, LaterLost
  <2> QED
    BY <1>2, <1>3, <1>4, <1>7, <2>3
<1>8. CASE c' = c /\ d' = d /\ t' = <<>>
  <2>1. LeftOf(o, t \o o) /\ d \o o \in Seq(Units) /\ c \o (d \o o) \in Seq(Units)
    BY <1>1, FirstLost
  <2>2. LeftOf(d \o o, d \o (t \o o))
    BY <1>1, <2>1, LaterLost
  <2>3. LeftOf(c \o (d \o o), c \o (d \o (t \o o)))
    BY <1>1, <2>1, <2>2, LaterLost
  <2>4. LeftOf(g \o (c \o (d \o o)), g \o (c \o (d \o (t \o o))))
    BY <1>1, <2>1, <2>3, LaterLost
  <2> QED
    BY <1>2, <1>3, <1>4, <1>8, <2>4
<1> QED
  BY <1>4, <1>5, <1>6, <1>7, <1>8

-----------------------------------------------------------------------------
(* FlowInv is kept.                                                        *)

\* Steps that lose chunks at most.
LEMMA FlowShrinks ==
    ASSUME PipesOK, PipesOK', FlowInv, LeftOf(Inbound', Inbound),
           child' = "adv" => child = "adv",
           ChildRuns' => ChildRuns,
           GitIsPast' => GitIsPast
    PROVE  FlowInv'
<1>1. Inbound \in Seq(Units) /\ Inbound' \in Seq(Units)
  BY Parts, PartsAfter
<1>2. /\ InOrder(Inbound) => InOrder(Inbound')
      /\ \A units : AllIn(Inbound, units) => AllIn(Inbound', units)
  BY <1>1, LossKeeps
<1> HIDE DEF ChildRuns, GitIsPast
<1> QED
  BY <1>2 DEF FlowInv

\* The pumps.
LEMMA PumpFlow ==
    ASSUME PipesOK, PipesOK', FlowInv, NEW p \in Pumps,
           PumpRead(p) \/ PumpWrite(p) \/ PumpStops(p)
    PROVE  FlowInv'
<1>1. UNCHANGED <<git, child>>
  BY DEF PumpRead, PumpWrite, PumpStops, clientVars, childVars
<1>2. LeftOf(Inbound', Inbound)
  <2>1. CASE PumpRead(p) \/ PumpWrite(p)
    <3>1. Inbound' = Inbound
      BY <2>1, PumpsMoveNothing
    <3> QED
      BY <3>1, Parts, NothingLost
  <2>2. CASE PumpStops(p)
    BY <2>2, DropInbound
  <2> QED
    BY <2>1, <2>2
<1> QED
  BY <1>1, <1>2, FlowShrinks DEF ChildRuns, GitIsPast

\* A step on a pipe that is no part of the stream.
LEMMA ElsewhereInbound ==
    ASSUME PipesOK, held' = held, NEW c \in {"gitOut", "up", "stdin", "stderr"},
           Take(c) \/ (\E unit \in Units : Put(c, unit)) \/ UNCHANGED pipe
    PROVE  Inbound' = Inbound /\ LeftOf(Inbound', Inbound)
<1>1. \A d \in {"gitIn", "down", "stdout"} : pipe'[d] = pipe[d]
  BY DEF Take, Put, PipesOK, Pipes
<1> QED
  BY <1>1, SameInbound

\* git reads what it is sent in the order it was sent.
LEMMA GitFlow ==
    ASSUME PipesOK, PipesOK', FlowInv, Git \/ GitShutsDown \/ GitKilled
    PROVE  FlowInv'
<1>0. UNCHANGED <<held, child>> /\ {"cmds", "flush", "pack"} \subseteq Units
  BY DEF Git, GitReadsAdvertisement, GitSendsCommands, GitUpToDate,
     GitSendsPack, GitReadsReport, GitFinishes, GitGivesUp, GitShutsDown,
     GitKilled, GitExits, GitKeeps, childVars, Units
<1>1. CASE GitReadsAdvertisement
  <2>1. /\ git = "adv" /\ Take("gitIn")
        /\ git' = IF Head(pipe["gitIn"]) = "advEnd" THEN "cmds" ELSE "adv"
    BY <1>1 DEF GitReadsAdvertisement
  <2>2. /\ Inbound # <<>> /\ Inbound' = Tail(Inbound)
        /\ Head(pipe["gitIn"]) = Inbound[1] /\ LeftOf(Inbound', Inbound)
    BY <1>0, <2>1, TakeInbound
  <2>3. /\ Inbound \in Seq(Units) /\ Len(Inbound) \in Nat \ {0}
        /\ Tail(Inbound) \in Seq(Units)
        /\ Len(Tail(Inbound)) = Len(Inbound) - 1
        /\ \A i \in 1 .. Len(Tail(Inbound)) : Tail(Inbound)[i] = Inbound[i + 1]
    BY <2>2, Parts, HeadTailProperties, LenProperties, EmptySeq
  <2>4. CASE Inbound[1] # "advEnd"
    BY <1>0, <2>1, <2>2, <2>4, FlowShrinks DEF GitIsPast, ChildRuns
  <2>5. CASE Inbound[1] = "advEnd"
    <3>1. child # "adv"
      BY <2>3, <2>5 DEF FlowInv, AllIn
    <3>2. AllIn(Inbound', {"ok", "ng"})
      <4>1. ASSUME NEW i \in 1 .. Len(Inbound')
            PROVE  Inbound'[i] \in {"ok", "ng"}
        <5>1. 1 < i + 1 /\ i + 1 \in 1 .. Len(Inbound) /\ 1 \in 1 .. Len(Inbound)
              /\ Inbound'[i] = Inbound[i + 1]
          BY <2>2, <2>3
        <5> QED
          BY <2>5, <5>1 DEF FlowInv, InOrder, MayPrecede
      <4> QED
        BY <4>1 DEF AllIn
    <3>3. /\ InOrder(Inbound) => InOrder(Inbound')
          /\ \A units : AllIn(Inbound, units) => AllIn(Inbound', units)
      BY <2>2, <2>3, LossKeeps
    <3> QED
      BY <1>0, <3>1, <3>2, <3>3 DEF FlowInv, ChildRuns
  <2> QED
    BY <2>4, <2>5
<1>2. CASE GitReadsReport
  <2>1. LeftOf(Inbound', Inbound)
    BY <1>0, <1>2, TakeInbound DEF GitReadsReport
  <2> QED
    BY <1>0, <1>2, <2>1, FlowShrinks DEF GitReadsReport, GitIsPast, ChildRuns
<1>3. CASE GitSendsCommands \/ GitUpToDate \/ GitSendsPack
  <2>1. LeftOf(Inbound', Inbound)
    BY <1>0, <1>3, ElsewhereInbound
       DEF GitSendsCommands, GitUpToDate, GitSendsPack
  <2>2. GitIsPast
    BY <1>3 DEF GitSendsCommands, GitUpToDate, GitSendsPack, GitIsPast
  <2> QED
    BY <1>0, <2>1, <2>2, FlowShrinks DEF ChildRuns
<1>4. CASE GitShutsDown \/ GitFinishes \/ GitGivesUp \/ GitKilled
  <2>1. UNCHANGED pipe /\ (git' = git \/ git' \in {"ok", "bad"})
    BY <1>4 DEF GitShutsDown, GitFinishes, GitGivesUp, GitKilled, GitExits
  <2>2. LeftOf(Inbound', Inbound)
    BY <1>0, <2>1, SameInbound
  <2> QED
    BY <1>0, <2>1, <2>2, FlowShrinks DEF GitIsPast, ChildRuns
<1> QED
  BY <1>1, <1>2, <1>3, <1>4 DEF Git

\* receive-pack sends the advertisement, its end and one report.
LEMMA ReceivePackFlow ==
    ASSUME PipesOK, PipesOK', FlowInv, ReceivePack \/ ChildKilled
    PROVE  FlowInv'
<1>0. /\ UNCHANGED <<held, git>>
      /\ {"adv", "advEnd", "ok", "ng", "note"} \subseteq Units
  BY DEF ReceivePack, ChildAdvertises, ChildReadsCommands, ChildReadsPack,
     ChildWritesStderr, ChildUpdates, ChildReports, ChildFails, ChildKilled,
     ChildExits, ChildKeeps, clientVars, Units
<1>1. Inbound \in Seq(Units) /\ Inbound' \in Seq(Units)
  BY Parts, PartsAfter
<1>2. ASSUME NEW unit \in Units, Put("stdout", unit)
      PROVE  /\ Len(Inbound') = Len(Inbound) + 1
             /\ Inbound'[Len(Inbound) + 1] = unit
             /\ \A i \in 1 .. Len(Inbound) : Inbound'[i] = Inbound[i]
  <2>1. Inbound' = Append(Inbound, unit)
    BY <1>0, <1>2, PutInbound
  <2> QED
    BY <1>1, <2>1, AppendProperties
<1>3. ASSUME NEW unit \in Units, Put("stdout", unit), NEW units, unit \in units,
             AllIn(Inbound, units)
      PROVE  AllIn(Inbound', units)
  <2> SUFFICES ASSUME NEW i \in 1 .. Len(Inbound')
               PROVE  Inbound'[i] \in units
    BY DEF AllIn
  <2>1. i = Len(Inbound) + 1 \/ i \in 1 .. Len(Inbound)
    BY <1>1, <1>2, <1>3
  <2> QED
    BY <1>2, <1>3, <2>1 DEF AllIn
<1>4. ASSUME NEW unit \in Units, Put("stdout", unit),
             \A i \in 1 .. Len(Inbound) : MayPrecede(Inbound[i], unit)
      PROVE  InOrder(Inbound')
  <2> SUFFICES ASSUME NEW i \in 1 .. Len(Inbound'), NEW j \in 1 .. Len(Inbound'),
                      i < j
               PROVE  MayPrecede(Inbound'[i], Inbound'[j])
    BY DEF InOrder
  <2>1. /\ i \in 1 .. Len(Inbound)
        /\ j = Len(Inbound) + 1 \/ j \in 1 .. Len(Inbound)
    BY <1>1, <1>2, <1>4
  <2> QED
    BY <1>2, <1>4, <2>1 DEF FlowInv, InOrder
<1>5. CASE ChildAdvertises
  <2>1. PICK unit \in {"adv", "advEnd"} :
           /\ Put("stdout", unit)
           /\ IF unit = "advEnd" THEN child' = "cmds" ELSE child' = "adv"
    BY <1>5 DEF ChildAdvertises
  <2>2. child = "adv" /\ ~GitIsPast /\ ~GitIsPast'
    BY <1>0, <1>5 DEF ChildAdvertises, FlowInv, GitIsPast
  <2>3. AllIn(Inbound, {"adv"})
    BY <2>2 DEF FlowInv
  <2>4. InOrder(Inbound')
    BY <1>0, <1>4, <2>1, <2>3 DEF AllIn, MayPrecede
  <2>5. AllIn(Inbound', {"adv", unit})
    <3>1. AllIn(Inbound, {"adv", unit})
      BY <2>3 DEF AllIn
    <3> QED
      BY <1>0, <1>3, <2>1, <3>1
  <2>6. /\ AllIn(Inbound', {"adv", "advEnd"})
        /\ AllIn(Inbound', {"adv", "advEnd", "ok", "ng"})
        /\ child' = "adv" => AllIn(Inbound', {"adv"})
    BY <2>1, <2>5 DEF AllIn
  <2> QED
    BY <2>2, <2>4, <2>6 DEF FlowInv
<1>6. CASE ChildReports
  <2>1. PICK unit \in {"ok", "ng"} : Put("stdout", unit)
    BY <1>6 DEF ChildReports
  <2>2. child' = "ok" /\ child = "report"
    BY <1>6 DEF ChildReports, ChildExits
  <2>3. AllIn(Inbound, {"adv", "advEnd"})
    BY <2>2 DEF FlowInv, ChildRuns
  <2>4. InOrder(Inbound')
    BY <1>0, <1>4, <2>1, <2>3 DEF AllIn, MayPrecede
  <2>5. AllIn(Inbound', {"adv", "advEnd", "ok", "ng"})
    BY <1>0, <1>3, <2>1 DEF FlowInv
  <2>6. GitIsPast' => AllIn(Inbound', {"ok", "ng"})
    BY <1>0, <1>3, <2>1 DEF FlowInv, GitIsPast
  <2> QED
    BY <2>2, <2>4, <2>5, <2>6 DEF FlowInv, ChildRuns
<1>7. CASE \/ ChildReadsCommands \/ ChildReadsPack \/ ChildWritesStderr
           \/ ChildUpdates \/ ChildFails \/ ChildKilled
  <2>1. PICK c \in {"stdin", "stderr"} :
           Take(c) \/ Put(c, "note") \/ UNCHANGED pipe
    BY <1>7 DEF ChildReadsCommands, ChildReadsPack, ChildWritesStderr,
                ChildUpdates, ChildFails, ChildKilled
  <2>2. LeftOf(Inbound', Inbound)
    BY <1>0, <2>1, ElsewhereInbound
  <2>3. child' # "adv" \/ child = "adv"
    BY <1>7 DEF ChildReadsCommands, ChildReadsPack, ChildWritesStderr,
                ChildUpdates, ChildFails, ChildKilled, ChildExits
  <2>4. ChildRuns' => ChildRuns
    BY <1>7 DEF ChildReadsCommands, ChildReadsPack, ChildWritesStderr,
                ChildUpdates, ChildFails, ChildKilled, ChildExits, ChildRuns
  <2> QED
    BY <1>0, <2>2, <2>3, <2>4, FlowShrinks DEF GitIsPast
<1> QED
  BY <1>5, <1>6, <1>7 DEF ReceivePack

\* No step adds to what is under way to git out of its order.
LEMMA FlowPreserved ==
    ASSUME PipesOK, PipesOK', FlowInv, [Next]_vars
    PROVE  FlowInv'
<1>1. CASE OutPump \/ InPump \/ ServerInPump \/ ServerOutPump
  <2>1. PICK p \in Pumps : PumpRead(p) \/ PumpWrite(p) \/ PumpStops(p)
    BY <1>1 DEF OutPump, InPump, ServerInPump, ServerOutPump, OutPumpEnds,
                InPumpEnds, ServerInPumpEnds, ServerOutPumpEnds, Pumps
  <2> QED
    BY <2>1, PumpFlow
<1>2. CASE Client \/ Handler \/ WatchdogFires \/ UNCHANGED vars
  <2>1. /\ UNCHANGED <<held, git, child>>
        /\ Take("stderr") \/ UNCHANGED pipe
    BY <1>2
       DEF Client, ClientGitExited, ClientJoinsOut, ClientReturns, ClientKeeps,
           Handler, HandlerReadsStderr, HandlerChildExited, HandlerJoinsOut,
           HandlerReturns, WatchdogFires, HandlerKeeps, vars, clientVars,
           childVars
  <2>2. LeftOf(Inbound', Inbound)
    BY <2>1, ElsewhereInbound
  <2> QED
    BY <2>1, <2>2, FlowShrinks DEF GitIsPast, ChildRuns
<1>3. CASE ConnectionLost
  <2>1. UNCHANGED <<git, child>>
    BY <1>3 DEF ConnectionLost, clientVars, childVars
  <2>2. LeftOf(Inbound', Inbound)
    BY <1>3, DropInbound
  <2> QED
    BY <2>1, <2>2, FlowShrinks DEF GitIsPast, ChildRuns
<1> QED
  BY <1>1, <1>2, <1>3, GitFlow, ReceivePackFlow DEF Next

-----------------------------------------------------------------------------
(* Type correctness.                                                       *)

\* What is still to be written or read is never none.
LeftInv ==
    /\ child \in {"adv", "cmds", "pack"} => left > 0
    /\ git \in {"adv", "cmds", "pack"} => packLeft > 0

Filled == \A c \in Pipes : Len(pipe[c]) <= Capacity

\* No pipe holds more than it can: what is put into one waits for room.
LEMMA FilledKept ==
    ASSUME PipesOK, Filled, NEW c \in Pipes,
           \/ Take(c)
           \/ \E unit \in Units : Put(c, unit)
           \/ UNCHANGED pipe
    PROVE  Filled'
<1>1. \A d \in Pipes : pipe[d] \in Seq(Units) /\ Len(pipe[d]) \in Nat
  BY LenProperties DEF PipesOK
<1>2. CASE Take(c)
  <2>1. /\ pipe[c] # <<>> /\ pipe'[c] = Tail(pipe[c])
        /\ \A d \in Pipes \ {c} : pipe'[d] = pipe[d]
    BY <1>2 DEF Take, PipesOK
  <2>2. Len(Tail(pipe[c])) = Len(pipe[c]) - 1
    BY <1>1, <2>1, HeadTailProperties
  <2>3. ASSUME NEW d \in Pipes
        PROVE  Len(pipe'[d]) <= Len(pipe[d]) /\ Len(pipe'[d]) \in Int
    <3>1. CASE d = c
      <4>1. pipe'[d] = Tail(pipe[c]) /\ Len(pipe[c]) \in Nat
        BY <1>1, <2>1, <3>1
      <4> HIDE <2>1
      <4>2. Len(pipe'[d]) = Len(pipe[d]) - 1
        BY <2>2, <3>1, <4>1
      <4> QED
        BY <3>1, <4>1, <4>2
    <3>2. CASE d # c
      BY <1>1, <2>1, <3>2
    <3> QED
      BY <3>1, <3>2
  <2>4. Capacity \in Int /\ \A d \in Pipes : Len(pipe[d]) \in Int
    BY <1>1, ExchangeAssumption
  <2> QED
    BY <2>3, <2>4 DEF Filled
<1>3. CASE \E unit \in Units : Put(c, unit)
  <2>1. PICK unit \in Units : Put(c, unit)
    BY <1>3
  <2>2. /\ Len(pipe[c]) < Capacity /\ pipe'[c] = Append(pipe[c], unit)
        /\ \A d \in Pipes \ {c} : pipe'[d] = pipe[d]
    BY <2>1 DEF Put, PipesOK
  <2>3. Len(Append(pipe[c], unit)) = Len(pipe[c]) + 1
    BY <1>1, AppendProperties
  <2> QED
    BY <1>1, <2>2, <2>3, ExchangeAssumption DEF Filled
<1>4. CASE UNCHANGED pipe
  BY <1>4 DEF Filled
<1> QED
  BY <1>2, <1>3, <1>4

\* TypeOK but for the pipes and the hands.
Scalars ==
    /\ env \in {"sound", "lossy", "stalled"}
    /\ file \in BOOLEAN
    /\ shut \subseteq Pipes
    /\ broken \subseteq Pipes
    /\ pumping \subseteq Pumps
    /\ counted \in BOOLEAN
    /\ git \in {"adv", "cmds", "pack", "report", "eof", "ok", "bad"}
    /\ told \in {"nothing", "uptodate", "ok", "ng"}
    /\ packLeft \in 0 .. PackUnits
    /\ client \in {"wait", "joinOut", "joinIn", "ok", "failed"}
    /\ child \in {"adv", "cmds", "pack", "notes", "report", "ok", "bad"}
    /\ left \in Nat
    /\ hook \in {"unrun", "passed", "declined"}
    /\ applied \in BOOLEAN
    /\ handler \in {"stderr", "joinOut", "joinIn", "done"}

\* The type invariant, by parts.
LEMMA TypeParts == TypeOK <=> Scalars /\ PipesOK /\ Filled
BY DEF TypeOK, Scalars, PipesOK, Filled

\* git send-pack's steps keep the types.
LEMMA GitTypes ==
    ASSUME PipesOK, Filled, Scalars, LeftInv, FlowInv,
           Git \/ GitShutsDown \/ GitKilled
    PROVE  Filled' /\ Scalars' /\ LeftInv'
<1>0. /\ {"gitIn", "gitOut"} \subseteq Pipes
      /\ {"cmds", "flush", "pack"} \subseteq Units
  BY DEF Pipes, Units
<1> USE DEF Scalars, LeftInv, GitKeeps, setting, childVars
<1>1. CASE GitReadsAdvertisement
  BY <1>0, <1>1, FilledKept DEF GitReadsAdvertisement
<1>2. CASE GitSendsCommands
  BY <1>0, <1>2, FilledKept DEF GitSendsCommands
<1>3. CASE GitUpToDate
  BY <1>0, <1>3, FilledKept DEF GitUpToDate
<1>4. CASE GitSendsPack
  <2>1. Filled'
    BY <1>0, <1>4, FilledKept DEF GitSendsPack
  <2>2. packLeft > 0 /\ packLeft' = packLeft - 1
        /\ git' = IF packLeft = 1 THEN "report" ELSE "pack"
    BY <1>4 DEF GitSendsPack
  <2>3. packLeft' \in 0 .. PackUnits /\ (git' = "pack" => packLeft' > 0)
    BY <2>2, ExchangeAssumption
  <2> QED
    BY <1>4, <2>1, <2>2, <2>3 DEF GitSendsPack
<1>5. CASE GitReadsReport
  <2>1. Filled'
    BY <1>0, <1>5, FilledKept DEF GitReadsReport
  <2>2. told' \in {"ok", "ng"}
    <3>1. git = "report" /\ Take("gitIn") /\ held' = held
          /\ told' = Head(pipe["gitIn"])
      BY <1>5 DEF GitReadsReport
    <3>2. Inbound # <<>> /\ told' = Inbound[1]
      BY <3>1, TakeInbound
    <3>3. 1 \in 1 .. Len(Inbound)
      BY <3>2, Parts, EmptySeq
    <3> QED
      BY <3>1, <3>2, <3>3 DEF FlowInv, GitIsPast, AllIn
  <2> QED
    BY <1>5, <2>1, <2>2 DEF GitReadsReport
<1>6. CASE GitShutsDown
  BY <1>0, <1>6, FilledKept DEF GitShutsDown
<1>7. CASE GitFinishes \/ GitGivesUp \/ GitKilled
  BY <1>0, <1>7, FilledKept DEF GitFinishes, GitGivesUp, GitKilled, GitExits
<1> QED
  BY <1>1, <1>2, <1>3, <1>4, <1>5, <1>6, <1>7 DEF Git

\* receive-pack's steps keep the types.
LEMMA ReceivePackTypes ==
    ASSUME PipesOK, Filled, Scalars, LeftInv, ReceivePack \/ ChildKilled
    PROVE  Filled' /\ Scalars' /\ LeftInv'
<1>0. /\ {"stdin", "stdout", "stderr"} \subseteq Pipes
      /\ {"adv", "advEnd", "ok", "ng", "note"} \subseteq Units
  BY DEF Pipes, Units
<1> USE DEF Scalars, LeftInv, ChildKeeps, ChildExits, setting, clientVars
<1>1. CASE ChildAdvertises
  <2>1. Filled'
    BY <1>0, <1>1, FilledKept DEF ChildAdvertises
  <2>2. /\ left \in Nat \ {0}
        /\ IF left = 1 THEN child' = "cmds" /\ left' = PackUnits
                       ELSE child' = "adv" /\ left' = left - 1
    BY <1>1 DEF ChildAdvertises
  <2>3. left' \in Nat \ {0} /\ child' \in {"adv", "cmds"}
    BY <2>2, ExchangeAssumption
  <2> QED
    BY <1>1, <2>1, <2>3 DEF ChildAdvertises
<1>2. CASE ChildReadsCommands
  <2>1. Filled'
    BY <1>0, <1>2, FilledKept DEF ChildReadsCommands
  <2>2. /\ child' \in {"pack", "ok"} /\ left' = left
        /\ UNCHANGED <<setting, pumping, counted, clientVars, handler, hook,
                       applied>>
    BY <1>2 DEF ChildReadsCommands
  <2>3. shut' \subseteq Pipes /\ broken' \subseteq Pipes
    BY <1>0, <1>2 DEF ChildReadsCommands
  <2>4. left' > 0
    BY <1>2, <2>2 DEF ChildReadsCommands
  <2> QED
    BY <2>1, <2>2, <2>3, <2>4
<1>3. CASE ChildReadsPack
  <2>1. Filled'
    BY <1>0, <1>3, FilledKept DEF ChildReadsPack
  <2>2. /\ left \in Nat \ {0}
        /\ IF left = 1 THEN child' = "notes" /\ left' = Notes
                       ELSE child' = "pack" /\ left' = left - 1
    BY <1>3 DEF ChildReadsPack
  <2>3. left' \in Nat /\ child' \in {"notes", "pack"}
        /\ (child' = "pack" => left' > 0)
    BY <2>2, ExchangeAssumption
  <2> QED
    BY <1>3, <2>1, <2>3 DEF ChildReadsPack
<1>4. CASE ChildWritesStderr
  <2>1. Filled'
    BY <1>0, <1>4, FilledKept DEF ChildWritesStderr
  <2>2. left \in Nat \ {0} /\ left' = left - 1 /\ child = "notes"
    BY <1>4 DEF ChildWritesStderr
  <2>3. left' \in Nat
    BY <2>2
  <2> QED
    BY <1>4, <2>1, <2>2, <2>3 DEF ChildWritesStderr
<1>5. CASE ChildUpdates
  <2>1. Filled'
    BY <1>0, <1>5, FilledKept DEF ChildUpdates
  <2>2. hook' \in {"passed", "declined"} /\ child' = "report"
    BY <1>5 DEF ChildUpdates
  <2>3. applied' \in BOOLEAN
    BY <1>5 DEF ChildUpdates
  <2> QED
    BY <1>5, <2>1, <2>2, <2>3 DEF ChildUpdates
<1>6. CASE ChildReports
  BY <1>0, <1>6, FilledKept DEF ChildReports
<1>7. CASE ChildFails \/ ChildKilled
  BY <1>0, <1>7, FilledKept DEF ChildFails, ChildKilled
<1> QED
  BY <1>1, <1>2, <1>3, <1>4, <1>5, <1>6, <1>7 DEF ReceivePack

\* The pumps' steps keep the types.
LEMMA PumpTypes ==
    ASSUME PipesOK, Filled, Scalars, LeftInv,
           OutPump \/ InPump \/ ServerInPump \/ ServerOutPump
    PROVE  Filled' /\ Scalars' /\ LeftInv'
<1> USE DEF Scalars, LeftInv, setting, clientVars, childVars
<1>1. ASSUME NEW p \in Pumps, PumpRead(p) \/ PumpWrite(p)
      PROVE  Filled' /\ Scalars' /\ LeftInv'
  <2>1. From[p] \in Pipes /\ To[p] \in Pipes
    BY DEF From, To, Pipes, Pumps
  <2>2. CASE PumpRead(p)
    <3>1. Filled'
      BY <2>1, <2>2, FilledKept DEF PumpRead
    <3> QED
      BY <2>2, <3>1 DEF PumpRead
  <2>3. CASE PumpWrite(p)
    <3>1. held[p] \in Units
      BY <2>3 DEF PumpWrite, PipesOK
    <3>2. Filled'
      BY <2>1, <2>3, <3>1, FilledKept DEF PumpWrite
    <3>3. counted' \in BOOLEAN
      BY <2>3 DEF PumpWrite
    <3> QED
      BY <2>3, <3>2, <3>3 DEF PumpWrite
  <2> QED
    BY <1>1, <2>2, <2>3
<1>2. CASE OutPumpEnds \/ InPumpEnds \/ ServerInPumpEnds \/ ServerOutPumpEnds
  <2>1. /\ UNCHANGED <<setting, pipe, counted, clientVars, childVars, handler>>
        /\ pumping' \subseteq pumping
        /\ shut' \subseteq Pipes /\ broken' \subseteq Pipes
    BY <1>2 DEF OutPumpEnds, InPumpEnds, ServerInPumpEnds, ServerOutPumpEnds,
                PumpStops, Pipes
  <2> QED
    BY <2>1 DEF Filled
<1> QED
  BY <1>1, <1>2 DEF OutPump, InPump, ServerInPump, ServerOutPump, Pumps

\* So do the client's, the handler's, and what fails around them.
LEMMA OtherTypes ==
    ASSUME PipesOK, Filled, Scalars, LeftInv,
           \/ Client \/ Handler \/ WatchdogFires \/ ConnectionLost
           \/ UNCHANGED vars
    PROVE  Filled' /\ Scalars' /\ LeftInv'
<1>0. {"up", "down", "gitIn", "gitOut", "stderr"} \subseteq Pipes
  BY DEF Pipes
<1> USE DEF Scalars, LeftInv, setting
<1>1. CASE Client
  BY <1>0, <1>1 DEF Client, ClientGitExited, ClientJoinsOut, ClientReturns,
                    ClientKeeps, childVars, Filled
<1>2. CASE Handler \/ WatchdogFires
  <2>1. Take("stderr") \/ UNCHANGED pipe
    BY <1>2 DEF Handler, HandlerReadsStderr, HandlerChildExited,
                HandlerJoinsOut, HandlerReturns, WatchdogFires
  <2>2. Filled'
    BY <1>0, <2>1, FilledKept
  <2> QED
    BY <1>0, <1>2, <2>2
       DEF Handler, HandlerReadsStderr, HandlerChildExited, HandlerJoinsOut,
           HandlerReturns, WatchdogFires, HandlerKeeps, ShutdownBoth,
           clientVars, childVars
<1>3. CASE ConnectionLost
  <2>1. pipe' = [pipe EXCEPT !["up"] = <<>>, !["down"] = <<>>]
    BY <1>3 DEF ConnectionLost
  <2>2. \A c \in Pipes : pipe'[c] = <<>> \/ pipe'[c] = pipe[c]
    BY <2>1 DEF PipesOK
  <2>3. Filled'
    BY <2>2, EmptySeq, ExchangeAssumption DEF Filled
  <2> QED
    BY <1>0, <1>3, <2>3 DEF ConnectionLost, clientVars, childVars
<1>4. CASE UNCHANGED vars
  BY <1>4 DEF vars, clientVars, childVars, Filled
<1> QED
  BY <1>1, <1>2, <1>3, <1>4

\* Every variable keeps its type in any environment, and what git takes for
\* the report is a report.
THEOREM TypeInvariant == Spec => [](TypeOK /\ FlowInv /\ LeftInv)
<1>1. Init => Filled /\ Scalars /\ LeftInv /\ FlowInv
  <2> SUFFICES ASSUME Init PROVE Filled /\ Scalars /\ LeftInv /\ FlowInv
    OBVIOUS
  <2>1. /\ pipe["gitIn"] = <<>> /\ pipe["down"] = <<>> /\ pipe["stdout"] = <<>>
        /\ Hand("cIn") = <<>> /\ Hand("sOut") = <<>>
    BY DEF Init, Pipes, Pumps, Hand
  <2>2. <<>> \o <<>> = <<>>
    OBVIOUS
  <2>3. Len(Inbound) = 0
    BY <2>1, <2>2 DEF Inbound
  <2>4. FlowInv
    BY <2>3 DEF FlowInv, InOrder, AllIn, Init, GitIsPast
  <2>5. Filled
    <3>1. ASSUME NEW c \in Pipes
          PROVE  Len(pipe[c]) <= Capacity
      <4>1. pipe[c] = <<>>
        BY DEF Init
      <4>2. Len(<<>>) = 0 /\ 0 <= Capacity
        BY ExchangeAssumption
      <4> QED
        BY <4>1, <4>2
    <3> QED
      BY <3>1 DEF Filled
  <2>6. left > 0 /\ packLeft > 0 /\ left \in Nat /\ packLeft \in 0 .. PackUnits
    BY ExchangeAssumption DEF Init
  <2>7. Scalars /\ LeftInv
    BY <2>6 DEF Init, Scalars, LeftInv
  <2> QED
    BY <2>4, <2>5, <2>7
<1>2. /\ PipesOK /\ PipesOK' /\ Filled /\ Scalars /\ LeftInv /\ FlowInv
      /\ [Next]_vars
      => Filled' /\ Scalars' /\ LeftInv' /\ FlowInv'
  BY FlowPreserved, GitTypes, ReceivePackTypes, PumpTypes, OtherTypes DEF Next
<1>3. Inv => PipesOK
  BY DEF Inv
<1>4. Filled /\ Scalars /\ PipesOK => TypeOK
  BY TypeParts
<1> QED
  BY <1>1, <1>2, <1>3, <1>4, ExchangeInv, PTL DEF Spec

-----------------------------------------------------------------------------
(* A sound exchange.                                                       *)

\* How the end of the stream travels to git: receive-pack exits, the server's
\* outbound pump ends, the handler shuts the socket down, the client's inbound
\* pump ends.  None of them ends before it has passed on what it had.
ClosingInv ==
    /\ client # "wait" => ~GitRuns
    /\ client = "failed" => git = "bad"
    /\ ~GitRuns => ~ChildRuns
    /\ "stdout" \in shut => ~ChildRuns
    /\ "down" \in shut => "sOut" \notin pumping
    /\ GitRuns =>
          /\ {"gitIn", "gitOut", "down"} \cap broken = {}
          /\ "gitIn" \in shut => "cIn" \notin pumping
          /\ "cIn" \notin pumping =>
                "down" \in shut /\ pipe["down"] = <<>> /\ held["cIn"] = None
          /\ "stdout" \in broken => "sOut" \notin pumping
          /\ "sOut" \notin pumping =>
                /\ "stdout" \in shut
                /\ pipe["stdout"] = <<>> /\ held["sOut"] = None

\* A chunk is under way to git.
Has(unit) == \E i \in 1 .. Len(Inbound) : Inbound[i] = unit

\* git gives up on no exchange that moved the ref: the report is to be written,
\* under way, or read.
ReportOnItsWay ==
    /\ git = "bad" => ~applied
    /\ GitRuns =>
          /\ git = "adv" /\ child # "adv" => Has("advEnd")
          /\ Has("ng") => ~applied /\ ~ChildRuns
          /\ applied => \/ child = "report"
                        \/ Has("ok")
                        \/ told = "ok" /\ git = "eof"

Sound == env = "sound" /\ ClosingInv /\ ReportOnItsWay

\* When git meets the end of its stream, receive-pack has exited and nothing
\* is under way.
LEMMA EndMeansAllRead ==
    ASSUME PipesOK, ClosingInv, GitRuns, AtEnd("gitIn")
    PROVE  ~ChildRuns /\ \A unit : ~Has(unit)
<1>1. pipe["gitIn"] = <<>> /\ "gitIn" \in shut
  BY DEF AtEnd, ClosingInv
<1>2. /\ "cIn" \notin pumping /\ pipe["down"] = <<>> /\ held["cIn"] = None
      /\ "sOut" \notin pumping /\ pipe["stdout"] = <<>> /\ held["sOut"] = None
      /\ ~ChildRuns
  BY <1>1 DEF ClosingInv
<1>3. Hand("cIn") = <<>> /\ Hand("sOut") = <<>> /\ <<>> \o <<>> = <<>>
  BY <1>2 DEF Hand
<1>4. Len(Inbound) = 0
  BY <1>1, <1>2, <1>3 DEF Inbound
<1> QED
  BY <1>2, <1>4 DEF Has

\* A pump that reads or writes.
LEMMA SoundPump ==
    ASSUME PipesOK, Sound, NEW p \in Pumps, PumpRead(p) \/ PumpWrite(p)
    PROVE  Sound'
<1>1. UNCHANGED <<env, shut, broken, pumping, git, told, client, child, applied>>
  BY DEF PumpRead, PumpWrite, setting, clientVars, childVars
<1>2. ReportOnItsWay'
  <2>1. Inbound' = Inbound
    BY PumpsMoveNothing
  <2> QED
    BY <1>1, <2>1 DEF Sound, ReportOnItsWay, Has, GitRuns, ChildRuns
<1>3. GitRuns /\ "cIn" \notin pumping =>
         pipe'["down"] = pipe["down"] /\ held'["cIn"] = held["cIn"]
  <2> SUFFICES ASSUME GitRuns, "cIn" \notin pumping
               PROVE  pipe'["down"] = pipe["down"] /\ held'["cIn"] = held["cIn"]
    OBVIOUS
  <2>1. "down" \in shut /\ held["cIn"] = None
    BY DEF Sound, ClosingInv
  <2>2. CASE PumpRead(p)
    <3>1. p # "cIn" /\ From[p] # "down"
      BY <2>2 DEF PumpRead, From, Pumps
    <3> QED
      BY <2>2, <3>1 DEF PumpRead, Take, PipesOK, Pipes, Pumps
  <2>3. CASE PumpWrite(p)
    <3>1. p # "cIn" /\ To[p] # "down"
      BY <2>1, <2>3 DEF PumpWrite, Put
    <3> QED
      BY <2>3, <3>1 DEF PumpWrite, Put, PipesOK, Pipes, Pumps
  <2> QED
    BY <2>2, <2>3
<1>4. GitRuns /\ "sOut" \notin pumping =>
         pipe'["stdout"] = pipe["stdout"] /\ held'["sOut"] = held["sOut"]
  <2> SUFFICES ASSUME GitRuns, "sOut" \notin pumping
               PROVE  /\ pipe'["stdout"] = pipe["stdout"]
                      /\ held'["sOut"] = held["sOut"]
    OBVIOUS
  <2>1. held["sOut"] = None
    BY DEF Sound, ClosingInv
  <2>2. CASE PumpRead(p)
    <3>1. p # "sOut" /\ From[p] # "stdout"
      BY <2>2 DEF PumpRead, From, Pumps
    <3> QED
      BY <2>2, <3>1 DEF PumpRead, Take, PipesOK, Pipes, Pumps
  <2>3. CASE PumpWrite(p)
    <3>1. p # "sOut" /\ To[p] # "stdout"
      BY <2>1, <2>3 DEF PumpWrite, Put, To, Pumps
    <3> QED
      BY <2>3, <3>1 DEF PumpWrite, Put, PipesOK, Pipes, Pumps
  <2> QED
    BY <2>2, <2>3
<1>5. ClosingInv'
  BY <1>1, <1>3, <1>4 DEF Sound, ClosingInv, GitRuns, ChildRuns
<1> QED
  BY <1>1, <1>2, <1>5 DEF Sound

\* A pump that ends has passed on all it had.
LEMMA SoundPumpEnds ==
    ASSUME PipesOK, Sound,
           OutPumpEnds \/ InPumpEnds \/ ServerInPumpEnds \/ ServerOutPumpEnds
    PROVE  Sound'
<1>1. PICK p \in Pumps :
         /\ PumpStops(p)
         /\ p = "cOut" => OutPumpEnds
         /\ p = "cIn"  => InPumpEnds
         /\ p = "sIn"  => ServerInPumpEnds
         /\ p = "sOut" => ServerOutPumpEnds
  BY DEF OutPumpEnds, InPumpEnds, ServerInPumpEnds, ServerOutPumpEnds, Pumps
<1>2. /\ UNCHANGED <<env, pipe, git, told, client, child, applied>>
      /\ p \in pumping /\ pumping' = pumping \ {p}
      /\ held' = [held EXCEPT ![p] = None]
      /\ IF held[p] = None THEN AtEnd(From[p]) ELSE Refused(To[p])
  BY <1>1 DEF PumpStops, setting, clientVars, childVars
<1>3. p \in {"cOut", "cIn", "sIn", "sOut"}
  BY DEF Pumps
<1>4. GitRuns /\ p = "cIn" =>
         held[p] = None /\ "down" \in shut /\ pipe["down"] = <<>>
  BY <1>2 DEF Sound, ClosingInv, AtEnd, Refused, From, To
<1>5. GitRuns /\ p = "sOut" =>
         held[p] = None /\ "stdout" \in shut /\ pipe["stdout"] = <<>>
  BY <1>2 DEF Sound, ClosingInv, AtEnd, Refused, From, To
<1>6. GitRuns => \A q \in {"cIn", "sOut"} : held'[q] = held[q]
  BY <1>2, <1>3, <1>4, <1>5 DEF PipesOK, Pumps
<1>7. ReportOnItsWay'
  <2>1. GitRuns => Inbound' = Inbound
    BY <1>2, <1>6, SameInbound
  <2> QED
    BY <1>2, <2>1 DEF Sound, ReportOnItsWay, Has, GitRuns, ChildRuns
<1>8. /\ shut' = shut \cup (IF p = "cOut" THEN {"up"}
                            ELSE IF p = "cIn" THEN {"gitIn"}
                            ELSE IF p = "sIn" THEN {"stdin"} ELSE {})
      /\ broken' = broken \cup (IF p = "sOut" THEN {"stdout"} ELSE {})
  BY <1>1, <1>3
     DEF OutPumpEnds, InPumpEnds, ServerInPumpEnds, ServerOutPumpEnds
<1>9. ClosingInv'
  <2>1. CASE p = "cOut" \/ p = "sIn"
    BY <1>2, <1>6, <1>8, <2>1 DEF Sound, ClosingInv, GitRuns, ChildRuns
  <2>2. CASE p = "cIn"
    BY <1>2, <1>4, <1>6, <1>8, <2>2 DEF Sound, ClosingInv, GitRuns, ChildRuns
  <2>3. CASE p = "sOut"
    BY <1>2, <1>5, <1>6, <1>8, <2>3 DEF Sound, ClosingInv, GitRuns, ChildRuns
  <2> QED
    BY <1>3, <2>1, <2>2, <2>3
<1> QED
  BY <1>2, <1>7, <1>9 DEF Sound

\* git reads the oldest chunk.
LEMMA TakeHas ==
    ASSUME PipesOK, Take("gitIn"), held' = held
    PROVE  /\ Has(Inbound[1]) /\ Head(pipe["gitIn"]) = Inbound[1]
           /\ \A unit : Has(unit)' => Has(unit)
           /\ \A unit : Has(unit) => Inbound[1] = unit \/ Has(unit)'
<1>1. /\ Inbound # <<>> /\ Inbound' = Tail(Inbound)
      /\ Head(pipe["gitIn"]) = Inbound[1] /\ Inbound \in Seq(Units)
  BY TakeInbound, Parts
<1>2. /\ Len(Inbound) \in Nat \ {0} /\ Len(Inbound') = Len(Inbound) - 1
      /\ \A i \in 1 .. Len(Inbound') : Inbound'[i] = Inbound[i + 1]
  BY <1>1, HeadTailProperties, LenProperties, EmptySeq
<1>3. 1 \in 1 .. Len(Inbound)
  BY <1>2
<1>4. ASSUME NEW unit, Has(unit)' PROVE Has(unit)
  <2>1. PICK i \in 1 .. Len(Inbound') : Inbound'[i] = unit
    BY <1>4 DEF Has
  <2>2. i + 1 \in 1 .. Len(Inbound) /\ Inbound[i + 1] = unit
    BY <1>2, <2>1
  <2> QED
    BY <2>2 DEF Has
<1>5. ASSUME NEW unit, Has(unit), Inbound[1] # unit PROVE Has(unit)'
  <2>1. PICK i \in 1 .. Len(Inbound) : Inbound[i] = unit
    BY <1>5 DEF Has
  <2>2. i - 1 \in 1 .. Len(Inbound') /\ (i - 1) + 1 = i
    BY <1>2, <1>5, <2>1
  <2>3. Inbound'[i - 1] = unit
    BY <1>2, <2>1, <2>2
  <2> QED
    BY <2>2, <2>3 DEF Has
<1> QED
  BY <1>1, <1>3, <1>4, <1>5 DEF Has

\* receive-pack adds the newest.
LEMMA PutHas ==
    ASSUME PipesOK, NEW unit \in Units, Put("stdout", unit), held' = held
    PROVE  \A other : Has(other)' <=> Has(other) \/ other = unit
<1>1. Inbound \in Seq(Units) /\ Inbound' = Append(Inbound, unit)
  BY PutInbound, Parts
<1>2. /\ Len(Inbound) \in Nat /\ Len(Inbound') = Len(Inbound) + 1
      /\ Inbound'[Len(Inbound) + 1] = unit
      /\ \A i \in 1 .. Len(Inbound) : Inbound'[i] = Inbound[i]
  BY <1>1, AppendProperties, LenProperties
<1>3. ASSUME NEW other, Has(other)' PROVE Has(other) \/ other = unit
  <2>1. PICK i \in 1 .. Len(Inbound') : Inbound'[i] = other
    BY <1>3 DEF Has
  <2>2. i = Len(Inbound) + 1 \/ i \in 1 .. Len(Inbound)
    BY <1>2, <2>1
  <2> QED
    BY <1>2, <2>1, <2>2 DEF Has
<1>4. ASSUME NEW other, Has(other) \/ other = unit PROVE Has(other)'
  <2>1. Len(Inbound) + 1 \in 1 .. Len(Inbound')
        /\ \A i \in 1 .. Len(Inbound) : i \in 1 .. Len(Inbound')
    BY <1>2
  <2> QED
    BY <1>2, <1>4, <2>1 DEF Has
<1> QED
  BY <1>3, <1>4

\* git.
LEMMA SoundGit ==
    ASSUME PipesOK, FlowInv, Sound, Git \/ GitShutsDown
    PROVE  Sound'
<1>0. /\ UNCHANGED <<env, held, pumping, client, child, applied>>
      /\ {"cmds", "flush", "pack"} \subseteq Units
  BY DEF Git, GitReadsAdvertisement, GitSendsCommands, GitUpToDate,
     GitSendsPack, GitReadsReport, GitFinishes, GitGivesUp, GitShutsDown,
     GitExits, GitKeeps, setting, childVars, Units
<1>1. CASE GitReadsAdvertisement
  <2>1. /\ git = "adv" /\ Take("gitIn") /\ UNCHANGED <<shut, broken, told>>
        /\ git' = IF Inbound[1] = "advEnd" THEN "cmds" ELSE "adv"
    BY <1>0, <1>1, TakeHas DEF GitReadsAdvertisement, GitKeeps
  <2>2. /\ Has(Inbound[1])
        /\ \A unit : Has(unit)' => Has(unit)
        /\ \A unit : Has(unit) => Inbound[1] = unit \/ Has(unit)'
    BY <1>0, <2>1, TakeHas
  <2>3. Inbound[1] # "ok"
    <3> SUFFICES ASSUME Inbound[1] = "ok" PROVE FALSE
      OBVIOUS
    <3>1. ~ChildRuns
      BY <2>2 DEF FlowInv, AllIn, Has
    <3>2. Has("advEnd")
      BY <2>1, <3>1 DEF Sound, ReportOnItsWay, GitRuns, ChildRuns
    <3>3. PICK i \in 1 .. Len(Inbound) : Inbound[i] = "advEnd"
      BY <3>2 DEF Has
    <3>4. i # 1 /\ Len(Inbound) \in Nat
      BY <3>3, Parts, LenProperties
    <3>5. 1 < i /\ 1 \in 1 .. Len(Inbound)
      BY <3>3, <3>4
    <3> QED
      BY <3>3, <3>5 DEF FlowInv, InOrder, MayPrecede
  <2>4. UNCHANGED <<pipe["down"], pipe["stdout"]>>
    BY <2>1 DEF Take, PipesOK, Pipes
  <2>5. ClosingInv'
    BY <1>0, <2>1, <2>4 DEF Sound, ClosingInv, GitRuns, ChildRuns
  <2>6. ReportOnItsWay'
    BY <1>0, <2>1, <2>2, <2>3 DEF Sound, ReportOnItsWay, GitRuns, ChildRuns
  <2> QED
    BY <1>0, <2>5, <2>6 DEF Sound
<1>2. CASE GitReadsReport
  <2>1. /\ git = "report" /\ Take("gitIn") /\ UNCHANGED <<shut, broken>>
        /\ told' = Inbound[1] /\ git' = "eof"
    BY <1>0, <1>2, TakeHas DEF GitReadsReport, GitKeeps
  <2>2. /\ Has(Inbound[1])
        /\ \A unit : Has(unit)' => Has(unit)
        /\ \A unit : Has(unit) => Inbound[1] = unit \/ Has(unit)'
    BY <1>0, <2>1, TakeHas
  <2>3. Inbound[1] \in {"ok", "ng"}
    BY <2>1, <2>2 DEF FlowInv, GitIsPast, AllIn, Has
  <2>4. UNCHANGED <<pipe["down"], pipe["stdout"]>>
    BY <2>1 DEF Take, PipesOK, Pipes
  <2>5. ClosingInv'
    BY <1>0, <2>1, <2>4 DEF Sound, ClosingInv, GitRuns, ChildRuns
  <2>6. ReportOnItsWay'
    BY <1>0, <2>1, <2>2, <2>3 DEF Sound, ReportOnItsWay, GitRuns, ChildRuns
  <2> QED
    BY <1>0, <2>5, <2>6 DEF Sound
<1>3. CASE GitSendsCommands \/ GitUpToDate \/ GitSendsPack \/ GitShutsDown
  <2>1. /\ (\E unit \in Units : Put("gitOut", unit)) \/ UNCHANGED pipe
        /\ broken' = broken
        /\ shut' = shut \/ shut' = shut \cup {"gitOut"}
        /\ \/ git = "cmds" /\ git' = "pack" /\ told' = told
           \/ git = "cmds" /\ git' = "eof"
           \/ git = "pack" /\ git' \in {"pack", "report"} /\ told' = told
           \/ git' = git /\ told' = told
    BY <1>0, <1>3
       DEF GitSendsCommands, GitUpToDate, GitSendsPack, GitShutsDown, GitKeeps
  <2>2. Inbound' = Inbound
    BY <1>0, <2>1, ElsewhereInbound
  <2>3. UNCHANGED <<pipe["down"], pipe["stdout"]>>
    BY <2>1 DEF Put, PipesOK, Pipes
  <2>4. ClosingInv'
    BY <1>0, <2>1, <2>3 DEF Sound, ClosingInv, GitRuns, ChildRuns
  <2>5. ReportOnItsWay'
    BY <1>0, <2>1, <2>2 DEF Sound, ReportOnItsWay, Has, GitRuns, ChildRuns
  <2> QED
    BY <1>0, <2>4, <2>5 DEF Sound
<1>4. CASE GitFinishes \/ GitGivesUp
  <2>1. /\ git' \in {"ok", "bad"} /\ GitRuns
        /\ shut' = shut \cup {"gitOut"}
        /\ AtEnd("gitIn")
        /\ git' = "bad" => \/ git = "eof" /\ told \notin {"ok", "uptodate"}
                           \/ git # "eof"
    <3>1. CASE GitFinishes
      BY <3>1 DEF GitFinishes, GitExits, GitRuns
    <3>2. CASE GitGivesUp
      <4>1. git \in {"adv", "cmds", "pack", "report"}
        BY <3>2 DEF GitGivesUp
      <4>2. "gitOut" \notin broken
        BY <4>1 DEF Sound, ClosingInv, GitRuns
      <4> QED
        BY <3>2, <4>1, <4>2 DEF GitGivesUp, GitExits, GitRuns
    <3> QED
      BY <1>4, <3>1, <3>2
  <2>2. ~ChildRuns /\ ~Has("ok")
    BY <2>1, EndMeansAllRead DEF Sound
  <2>3. git' = "bad" => ~applied
    BY <2>1, <2>2 DEF Sound, ReportOnItsWay, ChildRuns
  <2>4. ReportOnItsWay' /\ ClosingInv'
    BY <1>0, <2>1, <2>2, <2>3
       DEF Sound, ReportOnItsWay, ClosingInv, GitRuns, ChildRuns
  <2> QED
    BY <1>0, <2>4 DEF Sound
<1> QED
  BY <1>1, <1>2, <1>3, <1>4 DEF Git

\* receive-pack.
LEMMA SoundReceivePack ==
    ASSUME PipesOK, Inv, FlowInv, Sound, ReceivePack
    PROVE  Sound'
<1>0. /\ UNCHANGED <<env, held, pumping, client, git, told>>
      /\ {"adv", "advEnd", "ok", "ng", "note"} \subseteq Units
      /\ ChildRuns /\ GitRuns
  <2>1. ChildRuns
    BY DEF ReceivePack, ChildAdvertises, ChildReadsCommands, ChildReadsPack,
       ChildWritesStderr, ChildUpdates, ChildReports, ChildFails, ChildRuns
  <2>2. UNCHANGED <<env, held, pumping, client, git, told>>
    BY DEF ReceivePack, ChildAdvertises, ChildReadsCommands, ChildReadsPack,
       ChildWritesStderr, ChildUpdates, ChildReports, ChildFails, ChildExits,
       ChildKeeps, setting, clientVars
  <2> QED
    BY <2>1, <2>2 DEF Sound, ClosingInv, Units
<1>1. /\ "stdout" \notin shut \cup broken /\ "sOut" \in pumping
      /\ "down" \notin shut /\ "cIn" \in pumping /\ "gitIn" \notin shut
      /\ client = "wait" /\ ~Has("ng")
      /\ {"gitIn", "gitOut", "down"} \cap broken = {}
  BY <1>0 DEF Sound, ClosingInv, ReportOnItsWay
<1>2. ASSUME /\ shut' = shut \/ shut' = shut \cup {"stdout", "stderr"}
             /\ "stdout" \in shut' => ~ChildRuns'
             /\ broken' = broken \/ broken' = broken \cup {"stdin"}
      PROVE  ClosingInv'
  BY <1>0, <1>1, <1>2 DEF ClosingInv, GitRuns
<1>3. CASE ChildAdvertises
  <2>1. PICK unit \in {"adv", "advEnd"} :
           /\ Put("stdout", unit)
           /\ IF unit = "advEnd" THEN child' = "cmds" ELSE child' = "adv"
    BY <1>3 DEF ChildAdvertises
  <2>2. child = "adv" /\ UNCHANGED <<shut, broken, applied>> /\ ~applied
    BY <1>3 DEF ChildAdvertises, Inv, ReportInv
  <2>3. \A other : Has(other)' <=> Has(other) \/ other = unit
    BY <1>0, <2>1, PutHas
  <2>4. ReportOnItsWay'
    BY <1>0, <1>1, <2>1, <2>2, <2>3 DEF ReportOnItsWay, GitRuns
  <2> QED
    BY <1>0, <1>1, <1>2, <2>2, <2>4 DEF Sound
<1>4. CASE ChildReports
  <2>1. /\ Put("stdout", IF applied THEN "ok" ELSE "ng")
        /\ child' = "ok" /\ child = "report" /\ applied' = applied
        /\ shut' = shut \cup {"stdout", "stderr"}
        /\ broken' = broken \cup {"stdin"}
    BY <1>4 DEF ChildReports, ChildExits
  <2>2. \A other : Has(other)' <=>
                      Has(other) \/ other = IF applied THEN "ok" ELSE "ng"
    BY <1>0, <2>1, PutHas
  <2>3. ReportOnItsWay'
    BY <1>0, <1>1, <2>1, <2>2 DEF Sound, ReportOnItsWay, GitRuns, ChildRuns
  <2>4. ClosingInv'
    BY <1>2, <2>1 DEF ChildRuns
  <2> QED
    BY <1>0, <2>3, <2>4 DEF Sound
<1>5. CASE \/ ChildReadsCommands \/ ChildReadsPack \/ ChildWritesStderr
           \/ ChildFails
  <2>1. child \in {"cmds", "pack", "notes"} /\ ~applied
    <3>1. child \in {"cmds", "pack", "notes"}
      BY <1>1, <1>5 DEF ChildReadsCommands, ChildReadsPack, ChildWritesStderr,
                        ChildFails, Refused
    <3> QED
      BY <3>1 DEF Inv, ReportInv
  <2>2. /\ applied' = applied /\ child' # "adv"
        /\ shut' = shut \/ shut' = shut \cup {"stdout", "stderr"}
        /\ "stdout" \in shut' => ~ChildRuns'
        /\ broken' = broken \/ broken' = broken \cup {"stdin"}
        /\ Take("stdin") \/ Put("stderr", "note") \/ UNCHANGED pipe
    BY <1>1, <1>5
       DEF ChildReadsCommands, ChildReadsPack, ChildWritesStderr, ChildFails,
           ChildExits, ChildRuns
  <2>3. Inbound' = Inbound
    BY <1>0, <2>2, ElsewhereInbound
  <2>4. ReportOnItsWay'
    BY <1>0, <1>1, <2>1, <2>2, <2>3 DEF Sound, ReportOnItsWay, Has, GitRuns
  <2> QED
    BY <1>0, <1>2, <2>2, <2>4 DEF Sound
<1>6. CASE ChildUpdates
  <2>1. child = "notes" /\ child' = "report" /\ UNCHANGED <<pipe, shut, broken>>
    BY <1>6 DEF ChildUpdates
  <2>2. Inbound' = Inbound
    BY <1>0, <2>1, ElsewhereInbound
  <2>3. ReportOnItsWay'
    BY <1>0, <1>1, <2>1, <2>2 DEF Sound, ReportOnItsWay, Has, GitRuns
  <2> QED
    BY <1>0, <1>1, <1>2, <2>1, <2>3 DEF Sound
<1> QED
  BY <1>3, <1>4, <1>5, <1>6 DEF ReceivePack

\* push_refs and the handler.
LEMMA SoundEnds ==
    ASSUME PipesOK, Scalars, Sound, Client \/ Handler
    PROVE  Sound'
<1>0. UNCHANGED <<env, held, pumping, git, told, child, applied>>
  BY DEF Client, ClientGitExited, ClientJoinsOut, ClientReturns, ClientKeeps,
     Handler, HandlerReadsStderr, HandlerChildExited, HandlerJoinsOut,
     HandlerReturns, HandlerKeeps, setting, clientVars, childVars
<1>1. Take("stderr") \/ UNCHANGED pipe
  BY DEF Client, ClientGitExited, ClientJoinsOut, ClientReturns, ClientKeeps,
     Handler, HandlerReadsStderr, HandlerChildExited, HandlerJoinsOut,
     HandlerReturns
<1>2. Inbound' = Inbound
  BY <1>0, <1>1, ElsewhereInbound
<1>3. ReportOnItsWay'
  BY <1>0, <1>2 DEF Sound, ReportOnItsWay, Has, GitRuns, ChildRuns
<1>4. UNCHANGED <<pipe["down"], pipe["stdout"]>>
  BY <1>1 DEF Take, PipesOK, Pipes
<1>5. ClosingInv'
  <2>1. CASE ClientGitExited \/ ClientReturns
    BY <1>0, <1>4, <2>1
       DEF ClientGitExited, ClientReturns, ClientKeeps, Sound, ClosingInv,
           GitRuns, ChildRuns, Scalars
  <2>2. CASE ClientJoinsOut
    <3>1. ~GitRuns
      BY <2>2 DEF ClientJoinsOut, Sound, ClosingInv
    <3>2. shut' = shut \cup {"up", "gitIn"} /\ client' = "joinIn"
      BY <2>2 DEF ClientJoinsOut
    <3> QED
      BY <1>0, <3>1, <3>2 DEF Sound, ClosingInv, GitRuns, ChildRuns
  <2>3. CASE HandlerReadsStderr \/ HandlerChildExited \/ HandlerReturns
    <3>1. UNCHANGED <<shut, broken, client>>
      BY <2>3 DEF HandlerReadsStderr, HandlerChildExited, HandlerReturns,
                  HandlerKeeps, clientVars
    <3> QED
      BY <1>0, <1>4, <3>1 DEF Sound, ClosingInv, GitRuns, ChildRuns
  <2>4. CASE HandlerJoinsOut
    <3>1. /\ shut' = shut \cup {"down"} /\ broken' = broken \cup {"up"}
          /\ client' = client /\ "sOut" \notin pumping
      BY <2>4 DEF HandlerJoinsOut, ShutdownBoth, HandlerKeeps, clientVars
    <3> QED
      BY <1>0, <1>4, <3>1 DEF Sound, ClosingInv, GitRuns, ChildRuns
  <2> QED
    BY <2>1, <2>2, <2>3, <2>4 DEF Client, Handler
<1> QED
  BY <1>0, <1>3, <1>5 DEF Sound

\* In a sound exchange every step keeps all this.
LEMMA SoundPreserved ==
    ASSUME TypeOK, Inv, FlowInv, Sound, [Next]_vars
    PROVE  Sound'
<1>0. PipesOK /\ Scalars /\ env = "sound"
  BY TypeParts DEF Inv, Sound
<1>1. CASE OutPump \/ InPump \/ ServerInPump \/ ServerOutPump
  BY <1>0, <1>1, SoundPump, SoundPumpEnds
     DEF OutPump, InPump, ServerInPump, ServerOutPump, Pumps
<1>2. CASE UNCHANGED vars
  <2>1. Inbound' = Inbound
    BY <1>0, <1>2, SameInbound DEF vars
  <2> QED
    BY <1>2, <2>1
       DEF vars, setting, clientVars, childVars, Sound, ClosingInv,
           ReportOnItsWay, Has, GitRuns, ChildRuns
<1>3. ~WatchdogFires /\ ~GitKilled /\ ~ChildKilled /\ ~ConnectionLost
  BY <1>0 DEF WatchdogFires, GitKilled, ChildKilled, ConnectionLost
<1> QED
  BY <1>0, <1>1, <1>2, <1>3, SoundGit, SoundReceivePack, SoundEnds DEF Next

\* What kind of exchange it is does not change.
LEMMA EnvKept ==
    ASSUME [Next]_vars
    PROVE  env' = env
<1> USE DEF setting
<1>1. CASE Git \/ GitShutsDown \/ GitKilled
  BY <1>1
     DEF Git, GitReadsAdvertisement, GitSendsCommands, GitUpToDate,
         GitSendsPack, GitReadsReport, GitFinishes, GitGivesUp,
         GitShutsDown, GitKilled, GitExits, GitKeeps
<1>2. CASE OutPump \/ InPump \/ ServerInPump \/ ServerOutPump
  BY <1>2
     DEF OutPump, InPump, ServerInPump, ServerOutPump, OutPumpEnds,
         InPumpEnds, ServerInPumpEnds, ServerOutPumpEnds, PumpRead,
         PumpWrite, PumpStops
<1>3. CASE ReceivePack \/ ChildKilled
  BY <1>3
     DEF ReceivePack, ChildAdvertises, ChildReadsCommands, ChildReadsPack,
         ChildWritesStderr, ChildUpdates, ChildReports, ChildFails,
         ChildKilled, ChildExits, ChildKeeps
<1>4. CASE Client \/ Handler \/ WatchdogFires \/ ConnectionLost
  BY <1>4
     DEF Client, ClientGitExited, ClientJoinsOut, ClientReturns, ClientKeeps,
         Handler, HandlerReadsStderr, HandlerChildExited, HandlerJoinsOut,
         HandlerReturns, WatchdogFires, HandlerKeeps, ConnectionLost
<1>5. CASE UNCHANGED vars
  BY <1>5 DEF vars
<1> QED
  BY <1>1, <1>2, <1>3, <1>4, <1>5 DEF Next

\* Where nothing dies and no timeout expires, a push that fails has moved
\* nothing: the half-closes that end the stream travel behind the report.
THEOREM FailureIsTrue == Spec => []FailureMeansUntouched
<1> DEFINE SoundInv == env = "sound" => Sound
<1>1. Init => SoundInv
  <2> SUFFICES ASSUME Init, env = "sound" PROVE Sound
    OBVIOUS
  <2>1. ClosingInv
    BY DEF Init, ClosingInv, GitRuns, ChildRuns, Pumps
  <2>2. /\ pipe["gitIn"] = <<>> /\ pipe["down"] = <<>> /\ pipe["stdout"] = <<>>
        /\ Hand("cIn") = <<>> /\ Hand("sOut") = <<>>
    BY DEF Init, Pipes, Pumps, Hand
  <2>3. <<>> \o <<>> = <<>>
    OBVIOUS
  <2>4. Len(Inbound) = 0
    BY <2>2, <2>3 DEF Inbound
  <2>5. ReportOnItsWay
    BY <2>4 DEF Init, ReportOnItsWay, Has
  <2> QED
    BY <2>1, <2>5 DEF Sound
<1>2. TypeOK /\ Inv /\ FlowInv /\ SoundInv /\ [Next]_vars => SoundInv'
  BY SoundPreserved, EnvKept
<1>3. SoundInv => FailureMeansUntouched
  BY DEF Sound, ClosingInv, ReportOnItsWay, FailureMeansUntouched
<1> HIDE DEF SoundInv
<1> QED
  BY <1>1, <1>2, <1>3, ExchangeInv, TypeInvariant, PTL DEF Spec
=============================================================================
