# TLA+ models and proofs of git-full-send

`git-full-send` ships a developer's whole working tree to a build machine. A
client encodes the tree as two synthetic commits (`code`: everything git
tracks or would track; `extra`: ignored files that include patterns force in),
pushes them into per-stream refs through an unmodified `git receive-pack` that
a small server spawns per connection, and `update-worktree` on the server
checks `code` with `extra` laid over it out into a directory. Source
references below are to `src/crates/`.

## Components

| Component | Source | State it keeps | Operations |
|---|---|---|---|
| sync | `client/src/lib.rs` | none of its own; orders the others | `sync` |
| encoders | `client/src/encode.rs` | client refs `<stream>/code`, `<stream>/extra`, client objects | `encode`, `encode_extra` |
| push, retention | `client/src/push.rs` | client refs `<stream>/sent/code`, `<stream>/sent/extra`; sockets, two pump threads | `push_refs`, `retain_pushed_tip` |
| stream id resolution | `client/src/stream.rs` | `git-full-send.stream-id` in the repository's git config | `resolve_stream` |
| force-include selection | `client/src/select.rs` | none (a walk) | `select_extra_paths_*`, pruning |
| probe | `client/src/probe.rs` | none | `probe` |
| listener | `server/src/lib.rs` 346-535 | a semaphore, a set of handlers, the hooks directory | `bind`, `serve_async`, `accept_loop`, shutdown |
| connection handler | `server/src/lib.rs` 555-931 | server refs and objects (through `receive-pack`); pumps, watchdog | `handle_connection`, `authenticate`, `classify` |
| streams | `server/src/lib.rs` 1159-1368 | server refs | `list_streams`, `forget_stream`, `reap_streams` |
| update-worktree | `server/src/lib.rs` 940-1964 | worktree, persistent index, `last-tree`, advisory lock, git's `index.lock` | `update_worktree` |
| ids and ref names | `common/src/lib.rs` | none | `StreamId::new`, `code_ref`, ... |
| shared secret | `common/src/auth.rs` | none | `read_auth_pkt`, `Token` |
| pkt-line splitter | `common/src/pktline.rs` | where the first flush was | `FlushSplit::feed`, `pump_splitting` |
| metrics sink | `*/src/metrics.rs` | an append-only file | `append`, `aggregate` |
| doctor, trace2, command line | `server/src/doctor.rs`, `common/src/trace2.rs`, `cli/src/main.rs` | none | reports |

How they interact. `sync` calls the resolver, both encoders, then push and
retention once per chain; nothing locks the client repository, so two syncs
interleave freely. A push talks to one connection handler over TCP; the
handler's only effect that outlives it is what `receive-pack` does to the
server's refs and objects. `update-worktree`, `forget-stream`, `reap` and
`list-streams` are separate processes on the server that read and move the
same refs without a lock. Only the checkout itself is serialised, per
worktree, by an advisory `flock`; git's own `index.lock` guards its index.

What is hard, and what makes each part correct:

* **sync, push, retention.** A failure anywhere leaves half a sync; a push may
  fail for the client and succeed on the server; a request may be applied long
  after its client is gone; `forget-stream` may cut in. Correct is: retained
  tips say what the server has, `extra` descends from the retained tip, the
  server never shows older state after newer, `extra` never stands without
  `code`.
* **update-worktree.** Contending runs, failures and kills in the middle of a
  git step, remote edits, a lost index, refs that move between two reads.
  Correct is: a run that returns Ok has made the worktree match its tree,
  dropped files are gone, no two checkouts interleave, every run ends.
* **listener and handler.** Permits, shutdown and drain, deadlines, half-closes
  and full pipes. Correct is: no slot leaks, every handler ends, the hook is in
  place for as long as a `receive-pack` runs, a push that returns Ok had its
  whole pack delivered.
* **streams.** List-then-delete against a concurrent re-sync; ids that nest or
  share a beginning; a job that dies. Correct is: an acknowledged stream stays
  until it (or one it is nested in) is forgotten, reap takes what was stale
  and leaves nothing stale.
* **client, before the push.** The working tree and the index change under the
  encoders; two first syncs generate an id. Correct is: nothing older than the
  sync is delivered, and the id of a repository settles.
* **pure algorithms.** Chunk boundaries of the splitter; pruning against the
  exhaustive walk; the secret's framing; the order of the hidden refs; torn
  lines in the metrics file.

`PROJECT.json` lists every hazard at its line.

## Modules

| Module | What it is |
|---|---|
| `SyncedState` | what `sync` promises, without commits, refs or exchanges |
| `SyncedStateProofs` | that the promise keeps its word |
| `Sync` | invocations of `sync`, client and server refs, exchanges, forgetting |
| `SyncRefinement` | the refinement mapping from `Sync` to `SyncedState` |
| `MCSync` | model values for TLC, and that invocations are alike |
| `SyncProofs` | theorems about `Sync`, and that it implements `SyncedState` |
| `Client` | one repository before the push: stream id, configuration, both encoders, the user |
| `MCClient` | symmetry of syncs and ids, and that one sync encodes before others resolve an id |
| `ClientProofs` | the id settles, what is encoded was on disk |
| `UpdateWorktree` | runs of `update-worktree` on one worktree |
| `MCUpdateWorktree` | two paths, two contents, the trees syncs publish |
| `UpdateWorktreeProofs` | the two locks, what a checkout leaves behind, what of the server it shows |
| `Streams` | stream names, syncs, `forget-stream` and `reap` at the server |
| `MCStreams` | four ids: nested, sharing a beginning, named like a ref |
| `StreamsProofs` | nothing acknowledged is lost, what reap takes and leaves |
| `Exchange` | one push, from `git push` through four pumps to `receive-pack` and back |
| `MCExchange` | buffers and streams of a few chunks |
| `ExchangeProofs` | what the two ends report of a push is true |
| `Listener` | the accept loop, its slots, the tasks, shutdown, the hooks directory |
| `MCListener` | peers as model values |
| `ListenerProofs` | slots are conserved, the hooks outlive the exchanges |
| `PktLine` | the length header and `FlushSplit` |
| `Probe` | `read_advertisement` and the probe's verdict, on `PktLine` |
| `AuthToken` | resolving, framing and reading the shared secret, on `PktLine` |
| `Select` | the include layers, the prune information, the walk |
| `Advertise` | the curated advertisement and doctor's judgement of its anchors |
| `Metrics` | the sink file and its statistics |
| `Algorithms` | the inputs that the last six may be given, and what is claimed of each |
| `MCAlgorithms` | a few of each kind of input |
| `AlgorithmProofs` | the same claims for every input |

`Sync` treats an exchange as four steps; `Exchange` opens it up and justifies
them (a push that returns Ok was applied, one that fails undisturbed was not).
`Listener` takes a whole exchange as one step that ends; `Exchange` shows that
it does (`HandlerEnds`). `Client` opens up what `Sync` calls a read; `Streams`
takes a sync as its two pushes and adds what `Sync` leaves out, several streams
and their names.

### SyncedState

Per stream and chain the server shows some version of the working tree and the
client may have been told which. A shown version only gives way to a newer one
or to a forget; what is told is what is shown then. `SyncRefinement` maps a
server ref to the version of its commit and a retained tip to the version it
pins, so a late, lost or failed exchange is a stutter or a `Deliver` nobody is
told of. `Sync` implements it when the syncs of a stream follow one another;
when they overlap it does not (`SyncOverlapParents` shows the reason: a pin on
a commit that was never sent).

### Sync

State: the tables `local`, `sent` and `srv` are the refs of a stream, per
chain; `written`/`received` are the two object databases as far as synthetic
commits go, `tree` and `history` what a commit records (a version number of the
working tree; its synthetic ancestors). Each invocation has its place in `sync`
(`phase`, `chain`) and its locals. One action per step whose effect others can
see: each encoder is a read (`encode_extra` looks up its parent *before* the
walk) and a write (commit, then forced scratch ref); an exchange is `OpenPush`
(git resolves the ref **by name**), `Advertise`, the server's
`ReceivePack`/`RefuseStale`/`DropExchange`, `PushReturned`, `Retain`. `Fail` is
every `?` and every kill. An invocation that is over leaves nothing but a
request in flight, which the server may still answer. `ReceivePack` and
`RefuseStale` are git's own compare-and-swap of the ref against the advertised
value and are marked external. `ForgetRemote` and `ForgetLocal` are
`forget_stream` in the server's and in the client's repository, one ref at a
time: it may fail or die between two deletions. Abstracted: contents (a version
number), the real branch a `code` commit is parented on, packs and deltas.

### UpdateWorktree

State: the two server refs as trees, the disk, the persistent index,
`last-tree`, the flock and `index.lock`, and each run's locals. `ResolveCode`,
`ResolveExtra` (with the overlay), `Acquire`/`Contended` in the three lock
modes, `Measure`, then the two spawned git steps, **path by path**, then
`Return`. git's steps are modelled from the options the code gives them and
are external. `Fails`, `Terminated`, `PowerLost` and `Orphaned` differ in what
they leave: a failed or terminated read-tree removes `index.lock`, SIGKILL or
power loss does not, and a run killed alone drops the flock (the file is
close-on-exec) while its git child goes on. Which of these happen is the
constant `Faults`. Four variables only observe. `halves` collects, while a run
has not resolved both refs, every pair of a `code` that the server has had
since the run began and an `extra` that it had then or later; `skewed` says
that the index may be another tree's than `last-tree` (a run ended between the
two, or the index was lost) and that no run has recorded its tree since;
`delivered` and `faulted` say which files a checkout wrote and whether anything
has failed. Others edit the worktree only while no checkout is under way
(`EditDisk`). That restricts the environment: the code keeps nobody from
editing during a checkout, and a file that is written behind read-tree's back
stays as it was written.

### Exchange

State: seven bounded pipes (git's socketpair in both directions, the TCP
connection in both, the child's stdin, stdout and stderr), each with the facts
that its writer (`shut`) or its reader (`broken`) is gone; the four pump
threads and the chunk each has read and not yet written; where `push_refs`,
`handle_connection`, git and `receive-pack` are. A pump is `pump_splitting`:
read, write all, count, stop at end of stream or on an error; what each thread
closes or shuts down *after* it differs and is an action of its own
(`OutPumpEnds`, `InPumpEnds`, ...). `Client` and `Handler` are the waits, joins
and shutdowns in the order the code has them. git's two programs are external:
only the order of their reads and writes counts (pack-objects writes the whole
pack before git reads the report; git waits for the end of the stream before
it exits). `ChildUpdates` includes the `pre-receive` hook as its script runs:
it notes the ref as its last command, so it fails when there is no file to
note it in (`file`). `env` says what may go wrong: nothing, processes and the
connection dying, or a client that stops. `Outcome` is `classify`.

### Listener

State: where the loop is, free permits, the kernel's backlog, where each
connection's task is, its `receive-pack`, the hooks directory. The two
`select!`s are biased, so every accept step is guarded by `~shutdown`. A permit
belongs to the loop between `AcquirePermit` and `Accept`; a failed accept, a
break and the end of a task drop it. Authentication reads the preamble in
pieces, each under its own deadline, as `set_read_timeout` has it. `WireFails`
is every `?` between the spawn and the last pump: the handler returns with its
child running, whose pipes are closed. Init is the state in which
`serve_async` enters the loop.

### Streams

State: the server's `code` and `extra` refs, each holding its commit's
committer time; the clock; per stream the sync in flight; per job
(`forget-stream` or `reap`) what it has listed or found stale. Ids are
sequences of characters, so that prefixes, suffixes and nesting are computed
as `stream_prefix` and `stream_id_from_code_ref` do. `forget_stream` is
`ListRefs` and `DeleteListed`: the deletion is unconditional, in one
transaction that a kill may leave half done (`JobDies`). `reap_streams` scans
ref by ref (`ScanRef`) and then forgets the stale streams one by one. That git
keeps no ref below another (`Creatable`) and the order of the scan are
external. `acked`, `raced` and `pushed` only observe.

### Client

State: the edits so far, the user's index, the configured id and the lock on
`.git/config`, and per sync the place it is at and the tree it is building.
`ReadConfig`, `WriteConfig` and `ConfigWritten` are the two `git config`
commands of `resolve_stream`; a kill in the middle leaves the lock. `encode`
opens the index once for the base tree (`LoadIndex`) and once more for the
status pass (`OpenStatus`), then looks at one path at a time (`LookAt`), and
reads what has changed later, in two steps: lstat (`SymlinkMetadata`), which
skips what a tree cannot hold, and the read (`OverlayFromDisk`), which may find
something else there by then (`ReadAs`). `encode_extra` selects everything
before it reads anything. A content is the number of the edit that wrote it,
and an edit makes a path a file, a symlink, a directory, a special file (FIFO,
socket) or nothing. A submodule's gitlink stays as the index has it, modified
or not; any other directory in the place of a file is a file gone, but when it
comes between status and lstat, then the index entry stays. `settled` only
observes: it says of a sync that no other one may have written an id since it
began.

Abstracted: the executable bit, which is taken at the lstat and the content
after it, is part of the content; a path in conflict counts as one that the
index does not have, as in `encode`'s base tree.

### The algorithms

Each is an operator translated from its function, and `Algorithms` compares
it with a second definition that does not follow the code: `SplitOf` splits a
whole stream without chunks, `Meant` selects without a walk, the records of a
sink that count are found from the writes and not from the file, and the median
is a value with half of the values at most and half at least as large. A state
is one input, a property looks at the inputs of its kind. What an input may be
is assumed by name, and only what git, the file system or the protocol
guarantee: the directories of every file are in the tree (`IsTree`), no ref is
below another one, a remote's `HEAD` stands for a ref of that remote
(`IsRepository`), no client but one with a secret begins with the prefix of the
preamble (`SecretsAssumption`). Loops (`FlushSplit::feed`, `pump_splitting`,
`read_advertisement`) are functions that recur once per turn. Strings are
tokens: a hex digit, `+`, or a symbol; the 22 bytes of the preamble's prefix are
one symbol. An answer to a probe may be cut anywhere, end or time out, and the
probe's own flush may fail. A sink is a sequence of records, fragments,
fragments that end within a character, and newlines, and a write leaves one of
five things behind. gix's matching of one segment is a set
of names, git's `ref_is_hidden` is external.

## Runs

| Run | Question | Bounds |
|---|---|---|
| `SyncSerial` | when syncs of a stream follow one another and anything fails, do the tips stay true, does `code` come first, and is `SyncedState` implemented? | 3 syncs, 6 commits, 1 edit |
| `SyncOverlapParents` | violation: an overlap leaves an `extra` parent the server lacks | 3 syncs, 6 commits |
| `Worktree` | does a checkout that succeeds match its tree, is that an `extra` over a `code` no newer that the server had since the run began, and is a report of no change true, after edits, failures, kills, a lost index, forgets? | 2 runs, 2 paths, 3 pushes, 1 edit |
| `WorktreeKills` | with orphaned git steps and stale `index.lock`s, do read-trees exclude each other and runs end? | 2 runs, 2 paths, 2 pushes |
| `WorktreeOrphan` | violation: an orphaned `git clean` deletes files of the next checkout | 2 runs, 2 pushes |
| `Exchange` | are the reports of a push true at both ends, and does everybody come to an end, whatever dies or stops? | pipes of 1 chunk, advertisement of 3, pack of 4, 2 on stderr |
| `ExchangeHang` | violation: the server goes away in the middle of the pack and `push_refs` waits forever | the same |
| `Listener` | do slots survive every failure, does the hook outlive every exchange, does shutdown complete, is the queue served? | 3 peers, 2 slots, a preamble in 2 reads, 2 failed accepts |
| `Streams` | is nothing lost that was not forgotten, is what reap takes stale, and is nothing stale left? | 4 ids, 3 syncs, 1 job, 2 ticks, age 0 |
| `Client` | is what is encoded never older than the sync, and does the id settle? | 4 syncs (1 followed through its encoding), 3 paths, 1 a submodule and 1 ignored, 2 edits, 1 index change, 3 ids |
| `Algorithms` | does each algorithm do what its reference definition says? | streams of 4 chunks; answers of 4 items; secrets of up to 3 characters with a limit of 2; 1 pattern in each of 3 layers; 2 remotes, 8 refs and a symbolic one; 4 writes |
| `EncodeRestaged` | violation: `git add` between the two readings of the index keeps a file out of the commit, or an old content in it | as `Client` |

Why the bounds suffice. A stale request needs one failed sync, a sync that
succeeds after it and one more to see the damage: three syncs, each writing two
commits. A crash of one checkout is only visible in the next: two runs. Paths
matter by two bits, ignored or not and in the tree or not: one tracked and one
ignored path with trees that have and lack each. Two contents tell an edit from
a delivery. A pack of four chunks fills git's pipe, a pump's hand and the pipes
behind them, so that every writer blocks; the advertisement is longer than one
pipe for the same reason. Three peers at two slots queue for one. Four ids are
one, one nested in it, one that only begins like it and one that is named like
a ref of the first; three syncs let a stream be synced, go stale and be synced
again while another one is. One encoding is independent of the others but for
the refs, which are in `Sync`; two edits hit one path twice or two paths once,
which is what a change between status and lstat, or lstat and read, takes. Four
syncs are two that overlap at first, one that comes when they are through and
one that fails or is killed among them. In `Client`, resolving an id and
encoding have no variable in common, so the constraint `OneAfterTheOther`
leaves their interleavings out. Chunks matter by where they cut: four of them
cut a header into up to four pieces, or into fewer with a pkt-line or a flush
in front. A pattern in each layer is enough to override, carve out and override
again; the tree has a directory that no prefix reaches, one above and one below
a prefix, and a `.git`. A secret of three characters is over a limit of two,
one of two is at it. Invocations are interchangeable: `Syncs`, and `Runs` where
no liveness is checked, are symmetric, and `SyncSerial` starts them in one
order instead (`StartInOrder`), which TLC checks faster. Every invocation runs
once, so the systems come to rest and deadlock is not checked.

Properties that need the user not to overlap syncs of one stream
(`Serialised`) say so; overlap is a legal use that the code neither prevents
nor forbids, and `SyncOverlapParents` shows what it costs.

Fairness. `RunEnds` assumes weak fairness of each run's own steps: the kernel
schedules it, git's steps are finite, and a released flock is granted. A
blocking wait needs no strong fairness here because every other run ends too
and starts at most once. Starting runs, pushes, edits and faults owe nothing.
In `Exchange` the server's processes and threads are scheduled, and the
watchdog of a connection that is not sound fires in the end, because
`recv_timeout` returns; the client's side is scheduled unless it is `stalled`,
and nothing it may only choose to do (`GitShutsDown`, dying) is assumed. A
sound exchange is one that stays within its timeout. In `Listener` the runtime
schedules the loop and each handler; a blocked preamble read returns because
of its deadline, an exchange because of `HandlerEnds`; peers, signals and
failing accepts owe nothing.

## Proofs

All theorems hold for any sets of runs, paths, trees, invocations, streams,
peers and commits, any capacities and any bounds that satisfy the named
assumptions (`WorktreeAssumption`, `SyncAssumption`, `NoVersionAssumption`,
`ExchangeAssumption`, `NoneAssumption`, `ListenerAssumption`,
`StreamsAssumption`, `ClientAssumption`, `AuthAssumption`, and one for each
kind of input in `Algorithms`), which the runs evaluate. They say that `None`
and the like are no member of a set, that bounds are numbers, and what the
source fixes (a secret fits in one pkt-line). Two hypotheses say more, and both
are conditions under which the code is used: `Serialised`, that syncs of a
stream follow one another, and `"orphan" \notin Faults`, that no git step
outlives its run; `SyncOverlapParents` and `WorktreeOrphan` show what happens
without them.

* `UpdateWorktreeProofs`. `LockInv`: a run is in the checkout exactly while it
  is the lock's holder, and read-tree works exactly while it has `index.lock`.
  `MutualExclusion` and `OneReadTree` alone are not inductive (they do not say
  that a free lock means nobody is inside); `LockInv` is, and implies both
  (`Exclusion`, `ReadTreeExclusion`). From the lock, nobody else touches disk,
  index and `last-tree` during a checkout (`OthersUndisturbed`), so
  `CheckoutInv` is inductive: what read-tree and clean still owe is exactly
  what is left on their lists, and clean works from an index equal to the tree.
  It gives `CheckoutMatches`, without orphans. `DeliveredInv` says what the index
  records until the first fault, and gives `DroppedFilesGo`, which needs no
  such hypothesis because an orphan is a fault. `LastTreeInv`: unless the two
  are skewed, nothing is orphaned, and the index is the tree in `last-tree`
  except while a run that has written the one has yet to record the other. It
  gives `UnchangedIsNoWork`, whatever failed before, from `SettledInv` (what a
  run has written to the index stays there until it ends). `HalvesInv`: what a run has resolved is a pair among its `halves`;
  with `CheckoutMatches` that is `RunShowsStates`.
* `SyncProofs`, for any syncs. `TypeInvariant` with `StatusInv` (what the state
  of an exchange says of the invocation that opened it), and `CodeComesFirst`
  through `OrderInv`: an `extra` exchange is open only after `code` was seen on
  the server.
* `SyncProofs`, for serialised syncs. The promises themselves are not
  inductive: a request an earlier invocation left behind may land at any time.
  `SerialInv` adds what makes that harmless. `KnownInv`: refs and memories are
  commits that were written. `ReceivedInv`: the tips that an encoder relies on
  are on the server with their ancestors. `OneAtATime`. `JobInv`: what an
  invocation remembers against the refs it took it from. `PairInv` and
  `RequestInv`: a request under way asks for another commit than later
  invocations have, never a newer one, and never to replace something newer or
  a tip the client relies on. `NewestInv`: the server shows nothing newer than
  what an active invocation is about to push. It gives
  `ParentsReceived`, `AckedTipStays` and `ServerExtraDescends`.
* `Refinement`: `Spec` implements `SyncedState`'s, by `SyncRefinement`'s
  mapping. From `SerialInv` each action is a stutter, a `Deliver`, a
  promise or a forget; the one that counts is `ReceivePack` for an invocation
  that is gone. `SyncedStateProofs` proves of the abstract system that a client
  may rely on what it was told until the stream is forgotten
  (`ToldStaysShown`), and `RetainedVersionIsShown` carries that back to the
  retained tips and server refs of `Sync`.
* `ExchangeProofs`, for any capacity and any lengths. `SuccessIsTrue` and
  `QuietIsTrue`: `ReportInv` follows the word "ok" from `receive-pack`
  through pipes and pumps to the client's return, which neither property
  mentions, `CountInv` says commands reach `receive-pack` only after the inbound
  pump has counted them, `FileInv` ties the hook's verdict to its file.
  `TypeInvariant` is not free either: git only meets what it has a case for
  because of the order in which things are under way to it, across pipes and
  pumps (`FlowInv`), and because no count passes zero (`LeftInv`).
  `FailureIsTrue`: `ClosingInv` says how the end of the stream travels from the
  child to git, so that git, undisturbed, meets it only behind the report
  (`ReportOnItsWay`).
* `StreamsProofs`, for any ids, nested or not. The name facts come first: two
  ids share a ref only when they are equal, and a prefix closed by a slash
  covers only the id and those nested in it. `LifeInv` then says what a stream's
  refs are while it is synced, forgotten or reaped (`StreamOf`, `ForgetOf`,
  `ReapOf`), and gives `AckedStays` and `LoneExtraWasRaced`. The action
  properties `FreshSpared` and `NoStaleLeft` follow from it too: a stale stream
  nobody pushed since the reap began is yet to be met, known to be stale, or
  the one being forgotten (`ToReap`).
* `ClientProofs`. `IdIsStable` through `IdInv`: a sync that is settled and has
  resolved an id has the one in the configuration (`SettledInv`), nobody is
  about to write another one while such a sync exists (`QuietInv`), and a given
  id never passes for a resolved one (`GivenInv`). `EncodedIsTrue` through
  `EncodeInv`: a path of the tree under construction is as in the index it is
  yet to be compared with, is listed to be read, or has what it had on disk
  since the walk began (`OpenInv`, `WalkInv`); a path that lstat called a file
  was one at some moment of the walk (`WasFile`), and nothing is staged before
  it was on disk (`IndexInv`).
* `ListenerProofs`. `SlotsAreKept` needs `BacklogInv` (a connection is queued
  once and only before it is a task), or an accept might not add a task;
  `TypeInvariant`, whose upper bound on the permits is a corollary; `HooksStay`
  from `HookInv` (a loop that is gone has no task left).
* `AlgorithmProofs`, for every input. That the input is one of those that the
  assumptions speak of is the invariant (`Given`); what is proved under it is
  the rest of this section.
* `ChunksAreIgnored`. What a `FlushSplit` knows when it has read some bytes of a
  stream, however they came to it, is a function of the stream and of their
  number (`ReadTo`): it is between two pkt-lines, within a header, within a
  payload, or behind the flush or an illegal length. A turn of `feed` goes from
  one such place to a later one (`FeedOnceReads`), so a chunk is read to its end
  and all chunks to the end of the stream; `SplitOf` is there by its definition
  (`SplitIsOfTheStream`).
* `ProbeCountsLikePush`. The probe reads the same packets as its own loop; both
  counts are, up to the flush, the sum of the lengths and the number of packets
  (`ProbeCountsThePackets`). A reading that has counted four bytes, or finds four,
  ends in an error or with at least four counted (`TurnGoesOn`), so only a
  shorter answer is called no `receive-pack` (`ShortIsNotReceivePack`).
* `SecretsAreMatched`. The four digits of a length read back (`FramedIsRead`),
  so that the preamble is accepted exactly for the same secret (`SameSecret`)
  and nothing else is (`NoSecretNoEntry`); a resolved secret is one that fits
  (`Tokens`).
* `SelectionIsMeant`. The pruned walk selects what the definition without a walk
  does (`PruningKeeps`): a directory is entered whenever something below it may
  be matched (`MatchBelowKeeps`), and the recursion down the tree is the closed
  form `Closed`. What `load_search` gives the walk are the layers one behind
  the other, so that the last match is in the last layer that has one
  (`SearchOfLayers`).
* `AdvertisementIsCurated`. In the hidden refs the last match decides, and the
  curated list comes last, whatever the repository hides or shows by its own
  configuration (`HiddenUnlessShown`, `CuratedIsExact`). So everything meant is
  shown; what else is shown is an anchor or a stray, each anchor is a ref of
  its remote, and no remote has two.
* `DoctorIsRight`. What is shown outside the namespace, but for strays, are the
  heads and the anchors that exist, which is what the freshest time is the
  largest of (`DoctorJudges`).
* `TornLineCosts`. Where a write was cut within a character, `read_to_string`
  leaves nothing to count; elsewhere, what is left of each write lies between two places of the
  file (`FileLies`), so a record is alone on its line exactly if the writes
  around it left newlines (`CountedPlaces`); later writes have later places, so
  the limit counts the same records by either (`RecordsKept`). There is a value
  of every rank (`RankedIs`), the one at the last rank is the largest
  (`TopRank`), and rounding the rank of the median leaves half on either side
  (`MedianHalves`).

`AlgorithmProofs` reasons about functions that recur over a sequence and about
choices of a largest or least number. Induction over data is out of the
prover's reach, because the library's theorems for it take an operator as a
parameter; but that inclusion is well-founded among finite sets is a theorem
without one, and it gives every set of numbers a least and, below a bound, a
largest member (`LeastOf`, `LargestOf`). A claim about all lengths is then
proved from its least counterexample, and so is that a recursive function
over 0..n exists and obeys its equation (`Iteration`, `Descent`).

Only model-checked is liveness (`RunEnds`, `HandlerEnds`,
`PushReturnsUnlessUnread`, `ShutdownCompletes`, `BacklogServed`), which takes
ENABLED and fairness. Every other property of a passing run is a theorem.

## What the violations show

* `SyncOverlapParents`: two overlapping syncs push by ref name and each pins
  its own commit, so a retained tip may name a commit the server never got.
* `WorktreeOrphan`: killing an `update-worktree` alone frees its lock while its
  `git clean` goes on.
* `ExchangeHang`: when the outbound pump stops on a write error, the socketpair
  stays open with no reader; git blocks on it and `push_refs` waits for git.
  `PushReturnsUnlessUnread` shows that this is the only way not to return.
* `EncodeRestaged`: `encode` takes the base tree from one reading of the index
  and compares the working tree with another one. What is staged in between
  counts as unchanged, and the tree keeps what the first reading had: a file
  that was on disk all along is missing, or goes out as it was before an edit
  that is older than the sync. `EncodedWasOnDisk` shows that nothing else goes
  wrong.

Met while modelling, and not run:

* `code` and `extra` are resolved by two `rev-parse` under no lock
  (`server/src/lib.rs` 1417-1418), so a sync in between is checked out by half.
  `RunShowsServerStates` says how far apart the halves may be: `extra` may be of
  a later sync than `code`, never of an earlier one that the server had replaced
  before the run began. A run that waited long for the lock may still check an
  older state out over a newer one.
* The persistent index is more than a cache: without it a dropped file that
  `.gitignore` covers stays (`clean` runs without `-x`). Hence `...UnlessFaulted`.
* The hook's status is that of its last command, the noting of the ref
  (`server/src/lib.rs` 926), so without its "best-effort" file a sound push is
  declined, which no property forbids. Were the hook to pass without it, `classify` would call the applied
  push rejected and `QuietMeansUntouched` would fail.
* Reaping or forgetting a stream takes the streams nested in it along, fresh
  ones too (`docs/operating.md` 260-261 speaks of the stream alone);
  `ReapSparesFresh` and `AckedStreamStays` exempt them. A sync that overlaps a
  forget of its stream, or that comes between the scan of a reap and the turn
  of its stream, is lost (`server/src/lib.rs` 1241, 1333); they exempt that too,
  and `ExtraAloneOnlyIfRaced` says what may be left behind.
* A handler that fails while it wires its child up leaves the child without
  pipes (`server/src/lib.rs` 616); that it ends by itself is git's behaviour.
* The commit has the index's entry, and not the disk's content, for a modified
  submodule (`client/src/encode.rs` 302-303, as ADR-0009 says) and for a tracked
  path that is a FIFO or a socket now (513-515); `Encodings` says so path by
  path. A file that turns into a symlink between lstat and read is read through
  (`ReadThrough`).
* The probe counts the four bytes that turned out to be no header, and the
  verdict asks for no bytes at all (`client/src/probe.rs` 138), so a stranger's
  banner passes for an advertisement although the comment at 207 and the error
  at 54-55 say otherwise. `ProbeCountsAsPushDoes` says what the code does: only
  an answer that ends within four bytes is called no `receive-pack`.
* Two first syncs that overlap use two ids, one of which is never used again,
  and a killed `git config` leaves a lock on which every first sync fails.
* A remote's `HEAD` that names a branch which is gone counts as its anchor, so
  `doctor` does not miss one; `DoctorJudgesAdvertised` exempts it. If the server
  has refs below that name, git takes it for a directory and advertises them
  all: more than one ref for the remote, none of which `doctor` judges
  (`Strays`).
* A write that is cut within a character of several bytes leaves a sink that
  `read_to_string` refuses (`common/src/metrics.rs` 168), and then no statistics
  are made of any record, although 162-163 say that unparseable lines are
  skipped. `TornLineCostsTwoOrAll` has it as the second case.

## Plan

The planned model is there, and every safety and action property of the passing
runs is a theorem. What is left:

1. The parts that are only `partly` modelled: doctor's other checks, and the
   validation of a stream id.
2. Liveness for every value of the constants, which needs another prover.

## Not modelled

* `trace2` harvest: parses git's timing output for reports. The command line
  but for `listen_auth`: argument parsing and printing around the library
  calls. Test support: fixtures.
* `doctor` but for the anchors: each of its other checks reads a count or a
  setting and compares it with a threshold.
* Validation of a stream id (gix's rule for ref names); `Streams` starts from
  valid ones. The fields of metrics records, and `flatten_numbers`.
* That two commits of one tree and one parent, written in the same second, are
  one commit (`client/src/encode.rs` 557-574): `Sync` gives each a new id.
  Where they coincide, fewer refs differ.
* In `Exchange`, a failed clone or spawn on the client's side (every `?` of
  `push_refs` before and just after git starts) and a ref outside the
  namespace, which `push_refs` cannot name; in `Listener`, a panic of a
  handler; in `Advertise`, the static set that `hide_refs_values` falls back to
  when the repository cannot be opened.
* The contents of packs, deltas and trees below the path level, which are
  git's. That the comparison of the secret takes constant time is not a
  behaviour of a state machine.
