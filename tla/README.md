# A verification development of exomind

exomind is a family of small C servers that give AI agents a long-term memory.
The centre is `exomind` itself: an append-only log with an in-memory index
(`src/src/store.c`) behind an HTTP API (`src/src/http.c`), with a follower that
replicates a primary and an MCP router in front (`src/src/main.c`,
`src/src/router.c`). Around it stand programs that keep their own state in
exomind by calling that API: `exoflow` (workflows), `exosched` (reminders),
`exoqms` (audits and non-conformities), `exocrawl`, `exocontext`, `exodoc` and
others.

Paths below are those of the repository under `src/`; `store.c:398` is
`src/src/store.c` line 398. `PROJECT.json` has the line ranges each definition
stands for.

## 1. Inventory

| part | state | operations | what is hard | what makes it correct |
|---|---|---|---|---|
| store (`src/src/store.c`) | log file, hash index, garbage count, vector mirror, prefix candidates | open/load, set, append, delete, sync, get, query, snapshot, restore, reset, raw import, compact, close | crashes inside appends and compactions, expiry against compaction, derived structures kept in step | the memory agrees with the log; nothing synced is lost; nothing expired returns |
| replication (`main.c` repl_thread, `http.c` `/repl`) | the follower's offset and log | poll, import, resync | offsets into a log that is rewritten; cut replies; restarts | the follower shows a state of the primary and gets to its last |
| HTTP memory (`http.c`) | two stores, connection threads | the endpoints; paging | several store calls per request, interleaved and cut by crashes; keys that move between pages | acknowledged writes survive; related keys stay related; no key is left out |
| server process (`main.c`, the siblings' `http.c`, `src/common/exo.c`) | connection count, stop flag, token bucket, bytes read so far | accept, read a request, rate limit, shutdown | threads against shutdown; a bucket without a lock; requests cut anywhere | the result does not depend on the cuts; the limit holds |
| router (`router.c`, MCP loop) | the child's pipe, the client's calls | run a sibling for a call | the child shares stdin; a full pipe | a reply is true, and each call gets one |
| self-update (`update.c`) | tree, stash, build, installed programs | fetch, stash, pull, pop, make, install | any command fails or is interrupted | edits come back; "updated" is true |
| keys file and backups (`exo.c`, `http.c`) | files | add, remove; copy the data file | several processes; a file that changes while it is copied | the file has the keys that were answered ok; a backup loads as a state there was |
| exoflow (`src/exoflow/src`) | registry of flows, mirrored in exomind | create, next (claim), done/failed/unclaim, sweep, loops, reload, console commands | console processes, persist failures, lost replies | a step is claimed by one worker; one iteration at a time |
| exosched (`src/exosched/src`) | timer list, durable keys, delivery counters, WebSocket clients | add, cancel, fire with retries, ack, reload | the timer is off the list while it fires; each bookkeeping step may fail | no reminder is lost; every fire is counted |
| exoqms (`src/exoqms/src`) | registry of objectives, NCs and audits; issues; notes | create, transition, audit, scans, reload | nothing is locked while exomind is called | an NC skips no state; closed means evidence; the trail is complete |
| exocrawl (`src/exocrawl/src`) | worker pool, robots policies, pace | fetch, scrape | one condition variable for all; a policy others wait for | disallowed pages are not asked for; everyone who waits goes on |
| exocontext (`src/exocontext/src`) | none of its own: an agent's log and summary in exomind | compress and compose | two requests for one agent; truncated answers | no decision is forgotten |
| exodoc (`src/exodoc/src`) | none of its own: audits kept in exomind | audit a README, also against the running daemon | truncated answers, the daemon restarts meanwhile | a pass vouches for what it says |
| exokit (`src/exokit/src`) | files of a kit | init, extract, verify, audit, diff | edits between commands; limits | a pass vouches for what it says |
| exogit (`src/exogit/src`) | none between requests | file, listing, commits, search at GitHub and GitLab | failing calls and their retries; buffers nobody wrote | what is shown is what was asked for |
| JSON readers (`util.c` of exomind and exoqms, `exo.c`) | none | a field of an object, the strings of an array | three readers of their own make | a value is read as it was written |
| util, exogpl, exoqms UI/SVG analysers | none | conversions, scans of text | little that outlives a call | - |

Interaction: every other server is a client of exomind over HTTP and keeps its
durable state under a key prefix there; nothing is shared in memory between
processes. Inside a process, threads share the store behind `s->mu` and the
registries of exoflow, exosched and exoqms behind a mutex of their own; exoflow
holds it while it calls exomind, exosched and exoqms mostly do not. A call of
exomind from another server has three outcomes in all models: done and
answered, refused, or done while the reply was lost.

## 2. Modules

| module | models | state and actions |
|---|---|---|
| `LogRecords` | a record, what a load accepts, and the meaning of a log (`View`) | operators |
| `Store` | one store: every operation that changes state, load, compaction, kill, power loss, clock | the fields of `store_t`, the file, what is synced |
| `DurableMap` | the abstract specification of a store | the versions a key may have after a crash |
| `StoreImplements` | the refinement mapping from `Store` to `DurableMap` | - |
| `Replication` | a primary's log, the reply of `/repl`, and the follower's thread | two logs, the offset, the reply in flight |
| `Memory` | requests of several threads as sequences of calls of two `DurableMap`s | one action per call |
| `Pages` | `/list`, `/notes`, `/search` with limit and offset, while others write | keys with times; one request per page |
| `Serve` | accept, thread per connection, token bucket, shutdown | each access of the bucket is a step |
| `Request` | reading a request: exomind, its siblings, exocontext | bytes arrived, end of the header found |
| `Router` | the MCP loop and the children it runs | the client's calls in stdin and in the server's buffer, one child, its pipe |
| `Update` | `--update` | origin, tree, stash, build, installed; one action per command |
| `Keys` | `keys add`, `keys remove` of several processes | files, and which of them the two names refer to |
| `Backup` | `exo_backup_now` next to writes, compaction and a follower's reset | the file in pieces, what each copy has read |
| `Flow` | exoflow: daemon, console commands, loops | the flows stored, the daemon's registry and the console's; a request is a plan of calls |
| `Schedule`, `Sched` | exosched: what a body means; timers from creation to the last report | the timer list, keys, note feed, counters; the fire as steps |
| `Ws` | exosched's WebSocket clients | descriptor numbers, the list, the broadcast under way |
| `Checks`, `Qms` | exoqms: what each check makes of its evidence; objectives, NCs, audits, issues | the keys in exomind, the registry, the loader, each thread's place in its request |
| `RegistryLock` | the mutex of exoqms's registry | the word of the mutex and the threads |
| `Child` | `run_child` of exoqms | the child, the pipe, the parent's loop, the clock |
| `Pool` | exocrawl's worker pool | the queue, who sleeps, who runs what |
| `Robots` | reading a robots.txt, what it denies | the line, the rules and the delay so far |
| `Fetch` | exocrawl's robots policies, pace and page cache | the policy of a host, where each fetch is |
| `Git` | a request of exogit: which repository, the calls of its host, the commits of a file | the call under way with its attempts, the file of the commit looked at, the buffers |
| `Json` | the readers of JSON fields and arrays | the text, the place in it |
| `Context` | exocontext: compression and digest | log and summary in exomind, each request's place |
| `Docs` | exodoc: manifest, checks of a document, live checks, records | documents as lines with tokens, the daemon and the binary, each auditor's place |
| `Kit` | exokit: the commands on a kit directory | files of the kit, the software, what the commands said |
| `Parts` | `Qms`, `Serve`, `Child`, `Ws`, `Pool`, `Fetch`, `Router` and `Update`, which share nothing, in one specification | one variable `part`, and `v1`, `v2`, ... for the one it names |
| `StoreProofs`, `StoreImplementsProofs` | the theorems about `Store`, and that it implements `DurableMap` | - |
| `MemoryProofs`, `ReplicationProofs`, `FlowProofs`, `SchedProofs` | the theorems about these modules | - |
| `PartsProofs`, `QmsProofs` | the theorems about `Parts`, those about exoqms in the second | - |
| `MCStore`, `MCReplication`, `MCMemory`, `MCFlow`, `MCSched`, `MCFetch` | constants for TLC | - |
| `MCParts` | constants of `Parts` for TLC, and ten parts more in the same run | see below |

`Memory` is built on the abstract store, which `Store` is shown to implement;
`Replication` uses the meaning of a log that `Store`'s index agrees with; `Sched`
uses `Schedule` and `Qms` uses `Checks` as operators.

### Store

`file` is the log as a sequence of records, an offset is a position in it, and
the last item may be `Torn`, the remains of a write cut short. `size`, `index`,
`dead_bytes`, `vec`, `kix`, `kix_dirty` are the fields of `store_t`; sizes are
counted in records. `synced` is a history of the operating system: the leading
records that `fdatasync` has put on the disk.

All public operations hold `s->mu` throughout, so each is one action. Two loops
are long enough to be cut by a crash and are split into turns: `store_load`
(phase `load`) and `compact` (phase `compact`, with `tmp` the temporary file and
`pending` the slots still to visit; the order of the hash table is arbitrary).
While they run the lock is held and only a crash can interfere. `compact` reads
the clock once, at its beginning, so `Tick` waits for its end.

`Faults` names the calls that may fail. `MCStore` runs the failures the code
tolerates: a short append in `store_set` and `store_import_raw`, and compaction
unable to open its file. The failures it does not tolerate are listed as
hazards, and two runs show what happens.

### Replication

Here offsets are bytes, since the point is what a rewritten log does to an
offset. `Mishaps` lists what goes wrong; each behaviour has at most
`MaxMishaps`. `fresh` and `recopying` are history variables: the copy under way
began after the last time the primary moved its records, and the follower goes
over records it already has. The two stores' in-memory state is not repeated:
`IndexMatchesLog` says readers get `View` of the log.

### Memory and Pages

A request is the sequence of calls of the store its handler makes (`Plans`),
each atomic, with those whose failure the handler ignores marked so. Versions
are numbered by `written`; `acked` is the last version a reply has promised, and
`Base` the oldest a power loss can bring back. Tokens only decide which calls a
request makes at all. `Pages` is about the other direction: a client that asks
page by page, each page computed from the store as it is then.

### Flow

A flow is a record of its steps (state, owner, deadline, timeout, dependencies)
and of its place in a loop. A request is a plan of calls carried out in order,
so that the daemon's death, its background reload and a console command come
between any two. The scenario of a behaviour (`Scenarios`) fixes the flow that
is created and how many calls may go wrong. Doubts a lost reply leaves (a loop
that was forked, a stop whose call failed) are kept as history variables and
named in the properties that must exclude them.

### Sched

The timer thread takes a timer off the list, reports it call by call (note,
key, counter) and puts it back for a retry when a call failed; requests,
reload and a console command come between any two calls. The grid of a
recurring timer, what was due while the daemon was down, and the generation
counter of the reload are those of the code.

### Qms and Checks

A request holds the lock while it looks and while it commits, and not while it
stores: the model has these as separate steps of each thread. Evidence is kept
as far as a verdict depends on it (how a child ended, how many findings of which
severity, which keys there are). What may differ because a reply was lost or two
requests overlapped is in `doubtful`. `changes` is the history of the statuses
exomind was given, `untold` those whose note failed or whose request ended
before it.

### Parts and MCParts

Eighteen modules about parts that share no state are checked in one run: `part`
says which of them a behaviour is about and never changes, and each module is
instantiated on the same variables `v1`, `v2`, ..., of which the unused ones
stay 0. A state of the run is thus a state of one part, and the next-state
relation is the disjunction of theirs. A property `X` of the run reads
`part = "p" => P!X`.

`Parts` has the eight about which there are theorems, with constants and
assumptions of their own; `MCParts` extends it with the ten others, which it
gives their small sets of documents, files and requests. The specification of
the run, `MCSpec`, is that of `Parts` with ten disjuncts more. `LiveSpec` is
`Spec` of `Parts` for the three parts something must end in, with the fairness
of their processes.

## 3. Runs

| run | instance | result |
|---|---|---|
| `store` | 2 keys (one a vector key), 1 chunk, values up to 2 chunks, log of 3 records, compaction from 2, clock to 2, restores of 1 record, imports 0 or 1 old | all properties hold, and `Store` implements `DurableMap` |
| `replication` | 2 keys, 3 writes, 1 mishap of any kind, batches of 2 records, clock 1..3 | all properties hold |
| `memory` | 2 threads, 2 requests of any kind, a plain and a project key, failing writes | acknowledged writes of the main store survive; a marker has its history |
| `flow` | one step with a timeout and two troubles; two dependent steps and one; a loop of one iteration and one; a loop of two with a timeout and none | all properties hold |
| `sched` | 1 reminder (once, recurring, recurring with an end, with a period that wraps around), clock to 3, 1 fault, 1 crash, 1 console command | all properties hold |
| `parts` | eighteen parts, see the `INSTANCE`s of `Parts` and `MCParts` | all properties hold |
| `parts_live` | child, pool and router, with fairness | all properties hold |
| `store_growth` | appends may reach 3 chunks, a load accepts 2 | violated: synced records are truncated |
| `store_disk_full` | writes of the temporary file may fail | violated: a live record is lost |
| `memory_sync` | 1 thread, /set /del /append on a project key | violated: acknowledged and lost |
| `qms_lock` | 3 requests and the reload | violated: a request is never served |
| `crawl_disallow` | 3 fetches of one host, one with `polite=0` | violated: a disallowed page is fetched |

What the properties exclude can be seen with the cfg of a run in which the
properties are replaced by one of these, stated in the modules:

| cfg, changed | property | what TLC shows |
|---|---|---|
| `MCReplication.cfg`, `Mishaps = {"restart"}`, `CompactMin = 99` | `CastOnce` | a follower that restarts begins at offset 0 (main.c:420) over the log it has: records are applied twice, the readers' view is the same in the end |
| `MCReplication.cfg`, `MaxVal = 2`, `BatchBytes = 2`, `Mishaps = {}` | `Converges` | a record larger than the reply buffer (http.c:1016) is answered as a torn log, for ever |
| `MCFlow.cfg`, `Scenarios <- MCTimedLoop`, `MaxNow = 3` | `LateOnlyAfterClaim` | the steps of a loop's next iteration copy absolute deadlines (flows.c:953) and are overdue before anyone held them |
| `MCParts.cfg` | `GitOwnChanges` | `/commits` of exogit takes the first file of the same base name, whatever its directory, and shows for a file without a patch what the buffer held (github.c:594-620) |
| `MCParts.cfg` | `GitFoundByUrl` | `/repo` and `/tree` of exogit ask GitHub for the name without its owner when the repository is given by its url (github.c:327-356) |
| `MCSched.cfg` | `CancelSticks` | a reload that starts between the two halves of a cancel brings the timer back: the generation is counted up before the key is deleted |

`Json!FindsAnything`, `Router!CallAnswered`, `Ws!OwnClose` and `Update!UpToDateIsInstalled` are
stated in their modules and are not true of the code: the `json_field` of exomind
cuts an array or an object at its first comma or bracket (`src/src/util.c:374-378`),
the one of exoqms counts brackets inside strings (`src/exoqms/src/util.c:489-504`),
and `exo_json_str` leaves some escapes as they are (`src/common/exo.c:443-469`);
a child without a body
reads the calls behind its own from the shared stdin; a WebSocket thread may
close a descriptor number that is somebody else's by then; and "up to date"
compares HEAD with origin, while a build or install that failed before is not
looked at. No document promises them, so they are no runs; the properties that
are run (`RouterAnswers`, `WsDelivers`, `UpdateKeeps`) say what does hold.

### Bounds, and why they are enough

- Store: every defect of a log needs at most a record, one that supersedes it,
  and one behind them: three records. A compaction is due from two records, so
  compactions happen in the middle of every behaviour and twice in a row. A TTL
  of 1 and one tick of the clock give every order of write, expiry and
  compaction. Two keys are what an operation on one needs to damage the other.
- Replication: three writes let the primary compact once or twice during a copy
  with batches of two.
- Memory: two threads and two requests give every interleaving of two plans.
- Flow: three flow records are a loop with an iteration to spare; one worker is
  enough for exclusive claims, since the property is about a second handing-out
  while the first lasts.
- Sched: the clock's three seconds are the fire, the retry and the second
  period of an `every 1s`. Durations wrap at 256 instead of 2^64, so that one of
  the bodies has a period that is negative; `MaxTTL` (10 years) is 50.
- Serve: two connections, one token per second; the race on the bucket needs
  two. Request: header and body longer than the reader's first piece, every way
  to cut them. Pages: five keys of two stores, pages of one or two, three
  writes. Router: three calls, of which one has no body, and output beyond pipe
  and buffer. Child: output beyond pipe and `OUT_CAP`, a timeout of two seconds.
  Ws: three connections on two descriptor numbers, so that numbers are reused,
  and two broadcasts. Update: three commits, two of them of one version, three
  runs. Keys: three processes, two keys. Backup: three changes, one copy, files
  of up to two. Pool: two workers, two requests of two jobs. Fetch: three
  threads on one host. Robots: files of up to three lines, a table of two
  rules. Git: one repository of two files of one name in two directories, three
  commits, references of every form, up to two failing attempts. Json: objects
  of up to two members and arrays of two values, whose strings hold quotes,
  escapes, commas and brackets. Context: three entries, two requests. Docs: a README
  that meets the standard, with up to two lines left out or one added, and
  manifests with odd lines; two auditors. Kit: two functions, an audit that
  runs one example at most of two. Qms: the scenarios named in `MCParts`.

### Properties

`store`: `IndexMatchesLog` relates the index to what a scan of the log would
find, `DeadBytesCoverGarbage` the trigger of compaction to the garbage there is;
`KixCoversIndex`: a prefix query misses nothing; `VectorsMirrored`: the mirror
holds what the log says; `LoadKeepsSynced` and `CompactionKeepsLive`: what a
load or a compaction may never lose; `ImplementsDurableMap` says all of it at
once, from outside.

`replication`: `PrefixConsistent` and `CaughtUpIsExact` bound what a reader of
the follower may see; `Converges`: it gets there. They exclude, in their
hypotheses and in the open, the copy during which the primary's log was
rewritten: the code has no epoch in its offsets, so a follower whose offset
happens to be a boundary of the new log carries on there.

`memory`: `MainSurvives` (what a reply promised of the main store is there after
any power loss), `OutdatedHasHistory` (an outdated marker always has the history
that explains it).

`flow`: `ExclusiveClaim`, `DepsRespected`, `DoneSticks`, `LoopWithinBudget`,
`StoppedStays`, `FirstTimedClaims`. `ExclusiveClaim` and `DoneSticks` leave out
the flows a console command stored next to the daemon: the two processes write
back whole flows. `FirstTimedClaims` has them, and leaves out the later
iterations of a loop, which have lost their timeouts, and the steps of which an
unclaim failed; `TimedClaims`, the promise itself, does not hold of the code
(see Findings).

`sched`: `UnracedCancelSticks`, `NeverForgotten`, `FiresOnGrid`,
`EveryFireCounted`, `FiresEventually`. Fires may be counted twice, as a retry
counts again: `delivery.c:88` says never, and the property states the direction
that holds.

`parts`: `RequestsServed` (shutdown waits its three seconds, the token bucket
stays in bounds, the results of a request for many pages are read when all its
jobs ended, rules that were read are kept, requests to a host keep their
distance), `AnswersRight` (cuts of a request do not matter, paging leaves
nothing out, each reader of JSON finds the field that is meant and the strings
of an array in order, what is denied is what the lines of robots.txt disallow,
and its longest Crawl-delay is kept wherever a url may be fetched, exogit tells
every commit once and in order, with changes of its own, stays below `max=` and
finds a file that is there),
`ChildReported` (the verdict is the child's own ending and output), `WsDelivers`
(clients stay registered, acknowledgements within the total), `UpdateKeeps` (edits come back after `--update`
and "updated" means the newest), `KeptAsSaid` (the keys file has the keys that were
answered; a backup loads as a state there was; an entry of an agent's log that is
folded away is in the summary, the newest summary stays, and the digest shows
every decision),
`AuditsVouch` (a passed audit of a kit or a README implies what it says),
`RouterTrue` (ok means done, in order), `QmsLifecycle`, `QmsClosed`, `QmsAgrees`,
`QmsTrail` (every status a record was ever given is named by a note, or will be),
`QmsReopens`. `QmsTrail` leaves out the changes whose note failed, whose reply was
lost or whose request a restart ended, and asks only for the new status. The documents promise
more: `TrailExact`, that a note has the status before and the one after, and
`AnsweredIsNoted`, that no change is answered without its note, do not hold of the
code (see Findings).

`parts_live`: `ChildReturns`, `PoolReturns`, `RouterAnswers`.

### Fairness

`repl_thread` polls until the process ends and imports the batch it got without
waiting for anything else, so `Replication!FairSpec` has weak fairness of its
fetch and of its import, and of nothing else: writes, mishaps, clock and
restarts may stop at any time. `Sched!FairSpec` is fair to the timer thread
(`Take`, `Fire`), to the reload and to the counters' load, loops that retry until
they succeed, and to the clock; requests, faults and crashes are not forced.
`LiveSpec`: the parent of a check polls in a loop that blocks nowhere longer
than 50 ms, and time passes; a child may hang for ever. Pool threads and
requests are threads the kernel schedules; wake-ups go to any one sleeper. The
router and the child it started are processes; the client is not fair.
`RegistryLock` is fair to each thread, with the wake-ups of a mutex.

Deadlock checking is off where an instance ends at its bounds or the program
rightly comes to rest; it is on in `flow`, where something can always happen.

## 4. Findings

- `store_growth`: `store_set` checks the length of a value before it appends to
  the old one; a load refuses the result and drops the rest of the log.
- `store_disk_full`: `compact` treats a failed write like an expired record.
- `memory_sync`: `/set` and `/del` flush the main store for a write to the
  project store.
- `qms_lock`: the reload assigns a fresh registry, mutex and all, over the one
  whose mutex it holds: threads asleep on it are not woken.
- `crawl_disallow`: asking for the pace of a host whose policy nobody has read
  marks it as read, without rules.

Four more were found the same way. Each is a property stated in a module, and
TLC shows it violated when it replaces the properties of the cfg named, with the
change named:

| cfg, changed | property | what the documents say | what TLC shows |
|---|---|---|---|
| `MCParts.cfg` | `QmsTrailExact` (`Qms!TrailExact`) | "every transition is written to the exomind note feed as an audit-trail entry (`nc <id> transition: <from> -> <to> (<body>)`)", `src/exoqms/README.md:156-159`; "the audit trail SHALL be complete for every status change", `src/exoqms/standard.md:144` | nothing fails, and the note of a transition from open to analysis says `analysis -> analysis`: `cur` points into the record of the registry (model.c:371), which has the new status (463) when the note is printed (484) |
| `MCParts.cfg` | `QmsNoted` (`Qms!AnsweredIsNoted`) | "the audit trail is exomind's paper trail, complete by construction", `src/exoqms/README.md:260-262` | one call fails, that of the note of a new NC: it is logged (http.c:544) and the creation answered ok, without a note; transitions do the same (model.c:487) |
| `MCFlow.cfg`, `Scenarios <- MCTimedLoop` | `TimedClaims` | "A step may carry a 5th column `timeout_s`: the claim via `/next` sets its deadline [...] A stuck worker therefore releases the step deterministically", `src/exoflow/README.md:157-161`; the next iteration has the "same steps, all pending", 197 | nothing fails, and the step of the second iteration is held without a deadline: `loop_clone_steps` (flows.c:938-956) leaves out `timeout_s` |
| `MCFlow.cfg`, `Scenarios <- MCFailedCall` | `TimedClaims` | the same | one call fails, the store of an unclaim: it had cleared the deadline, and puts back state and owner only (flows.c:1188), so that no sweep releases the step |

Seen while reading, and not stated as a property: `main` of exocontext clears the flag of
`--rate-limit` after the options were read (`src/exocontext/src/main.c:755`); two
notes of one millisecond may get one key (`http.c:629`); exosched registers its
tool reminders under other ids than those it persists them under
(`src/exosched/src/timers.c:593-651`), so a reload adds them once more, with
other texts. In `Robots`, as in the code: an empty `Disallow:` forbids the whole
site, where the convention lets it forbid nothing; what follows it, or the
sixteenth rule, is not read; and a url without a path whose query has no "/"
is compared with its host in front (`src/exocrawl/src/util.c:131-133`), so that
only a rule for the whole site covers it. A `.pace` file raises the pace of a
host but never lowers it (`src/exocrawl/src/main.c:525`), though
`src/exocrawl/README.md:105` says it replaces it. `/repo` of exogit never reads `path=`, which its README
gives (`src/exogit/README.md:74`), `/commits` leaves `branch=` out of what it asks
GitHub, and GitLab's answer to it, an array, is never found to have changes
(`src/exogit/src/github.c:528-533,584-627`). The `json_field` of exoqms keeps the blanks
behind a raw value, so that `obj_bool` reads `false` with a blank behind it as true
(`src/exoqms/src/project.c:54-62`). The table of what the
properties exclude, above, shows the others.

## 5. Proofs

All theorems are about the specification as it is written, for every value of
the constants; what they assume of constants is named in the modules
(`LogAssumption`, `StoreAssumption`, `MemoryAssumption`, `FlowAssumption`,
`ScheduleAssumption`, `SchedAssumption`, and one for each part in `Parts`) or, where the code tolerates
something only under a condition, is a hypothesis of the theorem. The proofs
have one lemma per action; what an action leaves alone is collected in lemmas of
their own (`StoreStays`, `Steady`, `Unchanged`, ...).

### The store

`StoreProofs!TypeCorrect`: `Spec => []TypeOK`. The inductive invariant also
says, in every phase, that `size <= Len(file)` and that the first `size` items
of the file are records, since the type of a value read through a slot, and of a
record rewritten by a compaction, depends on it.

`StoreProofs!IndexCorrect`: if `Faults` contains none of the failures
`Untolerated`, then `Spec => []IndexMatchesLog`. Alone the property is not
inductive: it says nothing while the store
loads or compacts. The invariant `IndexInv` has the agreement of the index with
the scanned prefix during a load, and during a compaction
`CompactingAgrees`: a slot still to visit agrees with the old log and its key is
not yet in the new one; a slot already visited, or empty, agrees with the new
log. The case of an expired slot skipped by a compaction is why `Agrees` has a
third disjunct: the slot refers to nothing, but stays expired because the clock
does not go back.

The rest of `StoreProofs` is about what is derived from the log:

- `KixCorrect`: `Spec => []KixCoversIndex`, whatever fails. The invariant adds
  that the candidates are dirty during a load, since a load fills the index
  without them; that a compaction makes no slot out of nothing follows from its
  reading the record first.
- `LoadSafe`: if `MaxGrown <= MaxVal` then `Spec => LoadKeepsSynced`. The
  invariant `SyncInv` says that every record of the log and of the temporary
  file is one a load accepts, that no synced item is torn, and that a store that
  serves has synced at most `size` records, so that an append over the remains
  of a failed one destroys nothing synced. The hypothesis is exactly what
  `store_set` fails to ensure (`store_growth`).
- `VectorsCorrect`: without `Untolerated`, `Spec => []VectorsMirrored`. `VecInv`
  also has the vectors that have expired, which stay mirrored until they are
  compacted away, and says which of the two logs the mirror agrees with for each
  key during a compaction.
- `GarbageCounted`: without `Untolerated`, `Spec => []DeadBytesCoverGarbage`.
  `GarbageInv` adds that the log a compaction writes has no garbage, which is
  why its end may set the count to 0; that a superseded put has a slot, whose
  change is counted, is `IndexInv`.

`StoreImplementsProofs!CompactionSafe`: without `Untolerated`,
`Spec => CompactionKeepsLive`, from `SameMeaning` (for the keys already visited
the two logs mean the same).

`StoreImplementsProofs!StoreRefines`: without `Untolerated` and a compaction's
`fdatasync` that fails, and if `MaxGrown <= MaxVal`,
`Spec => ImplementsDurableMap`. Every action is shown to be a step of
`DurableMap` or a stutter under the mapping of `StoreImplements`; a compaction
is one of the latter from its beginning to its end, by `SameMeaning`, and so is
a load. `LayoutInv` says that the file is records with a torn end at most, all of
them counted by a store that serves: without it, a crash that
keeps more of the file than was synced could not be mapped to one that goes back
to a state the map was in.

### Memory and Replication

`MemoryProofs!AckedSurvives`: `Spec => []MainSurvives`, for any number of
threads. `ThreadMain` is what makes it inductive: a thread whose request wrote to
the main store and did not flush it has the flush in the rest of its plan, or
somebody else's flush has already covered it.

`MemoryProofs!OutdatedExplained`: `Spec => []OutdatedHasHistory`. `HistoryInv`
adds that every version either store can come back to, and the snapshot
`/restore` takes its state from, is explained; that the plans have the history
in front of the marker; and that a thread about to write a marker finds the
history written.

`ReplicationProofs!FollowerSeesPrefix` and `NoLagIsExact`:
`Spec => []PrefixConsistent` and `Spec => []CaughtUpIsExact`. `CopyInv` says, as
long as the primary's log was not rewritten during the copy, that the offset is
a boundary, that the reply in flight holds the records behind it, and that each
key means the same in both logs, *now and at every later time*, since expiry is
decided by readers; a key of later records alone means nothing on the follower
unless it goes over records it has. The logs need not be the same: the
follower compacts its own.

### Flow

`FlowProofs!DependenciesHold` and `ClaimsTimed`: `Spec => []DepsRespected` and
`Spec => []FirstTimedClaims`. A process may write any copy of a flow it ever
read back over the stored one, so that the invariant `FlowInv` is about all
copies there are: stored, registered, being loaded, created or spawned. It holds
of the flows two processes overwrite in turn, too. That a copy is of a later
iteration is told by its `root`, which no copy ever changes.

`FlowProofs!ClaimsExclusive` and `DoneStays`: `Spec => []ExclusiveClaim` and
`Spec => []DoneSticks`. Neither is inductive: a claim is decided on the
registry of the process, which is not the store. `ClaimInv` says which copies
may not have forgotten a step that is held or done (`Keeps`), unless the loop is
`mixed`: the stored one, and those a process goes on with. What a reload has
read, or a creation has stored, counts only while the flow is not registered
(`SafeAt`), since then it may be taken over; a new iteration counts while it
waits for its registration, and until then its id is in no registry (`NewOK`). A
command next to the daemon (`Apart`) may have old copies: what it stores is
mixed, and for this all copies of a flow must be of the same loop (`RootsOK`).
A claim or a `done` is safe since the process that does it is the only one that
is not `Apart` (`OtherIdle`, `GrowSafe`); what else it changes keeps what is
done, and makes nothing pending (`Steady`). Ids are numbers that are given out once, as
`FlowAssumption` and `RootsOK` say.

### Sched

`SchedProofs!NotesOnGrid`: `Spec => []FiresOnGrid`. `GridInv` says of every copy
of a timer (key, list, the fire under way, request, what a reload has read) that its
fire is one of those promised; the lemma `CaughtUpIs` does it for the fires a
reload skips, with the least of a non-empty set of numbers. Bodies
whose period wraps to something negative are among those the theorem is about.

`SchedProofs!FiresCounted`: `Spec => []EveryFireCounted`. `CountInv` relates the
counter in memory to the stored one, and counts the fire that is being
recorded.

`SchedProofs!RemindersKept`: `Spec => []NeverForgotten`. `KeptInv`: the last fire
is in the note feed before the key goes, what a reload drops was told of (or its
note was refused), and the request that deletes a key is not about a timer that was answered
ok.

`SchedProofs!CancelsStick`: `Spec => []UnracedCancelSticks`. `CancelInv`: from
the moment a cancel took the only copy of a timer, the daemon's reload either
has read an older generation than the current one, so that it will add nothing,
or began after the key was deleted, and has not seen the timer. `raced` names
the one other case.

### The parts

Each module of `Parts` that a theorem is about has its inductive invariant as
`Inv`. As `part` never changes, a theorem about one of them needs the steps of
that one only; the others make its hypothesis false. The bounds of the runs
(`MaxTime`, `MaxPushes`, ...) are constants about which nothing is assumed.

`PartsProofs!ChildReports`: `Spec => []ChildReported`. `InOrder` says, until the
child has written more than `OUT_CAP`, that output read and pipe together are
all it wrote, and in order; beyond that the last chunks are not told apart.
`ChildAssumption` has no more than that `OUT_CAP` lies within the chunks that are.

`PartsProofs!RequestsAreServed`: `Spec => []RequestsServed`, for any number of
connections, workers, requests, fetches and hosts.

- `Serve`: `Counted` ties the number of active connections to the threads there
  are, `WaitedFor` the end of main to threads that ended or a grace period that
  ran out. Each access of the bucket is a step, so that what a thread is about to
  write is bounded as well (`AllBounded`). `Unraced` is why the bucket stays
  within `PerSec` as long as no two threads were in the limiter at once: whoever
  is in it alone wrote what it read. `raced` names the other case.
- `Pool`: the count of a request is that of its jobs in the queue or at a worker
  (`Counted`); a request that is waited for has handed over all it has
  (`AllSubmitted`, `Accounted`).
- `Fetch`: of the fetches that find no policy one only reads it (`OneReads`), and
  from then on the host has its rules (`RulePassed`), unless one with `polite=0`
  had marked it read (`unheard`, which `crawl_disallow` shows).

`PartsProofs!RouterIsTrue`: `Spec => []RouterTrue`. `Queued` says where each call
is: answered, at work, in the server's buffer, in stdin, or read by a child
(`Swallowed`), in this order; `Truthful`, that the router says ok only of a
call whose child carried it out; `Kept` and `Served`, what the pipe and the
buffer hold of it.

`PartsProofs!ClientsReached`: `Spec => []WsDelivers`, for any set of descriptors,
which are reused. `Numbered` says which connection has a number open;
`Registered`, how the list agrees with the threads that read, of each
connection the broadcaster never closed the number of; `Acknowledged` relates
the clients that acknowledged to those the frame was written to, with
`strays` for the ones that did so on a connection the frame never went to.

`PartsProofs!UpdatesKeep`: `Spec => []UpdateKeeps`, for any number of runs and
commits. `Stashed` says that what is in the stash is about to be popped, unless
there was a mishap: pop comes before the result of pull is looked at. `Pulled`
carries the newest commit from the pull to the tree, the build and the installed
programs.

### exoqms

`QmsProofs!QmsClosedHaveEvidence`, `QmsRegistryAgrees` and `QmsTrailIsComplete`:
`Spec => []QmsClosed`, `[]QmsAgrees` and `[]QmsTrail`; `QmsLifecycleKept`:
`Spec => QmsLifecycle`, an action property. They hold for any number of
threads, ids and scenarios and for all checks of an audit; `QmsAssumption` says
that ids of objectives, NCs and audits differ, which their prefixes ensure, and
that what a scenario creates was not there before.

Requests hold no lock while they store, so that none of the four is inductive
alone. `Inv` of `Qms` has two parts besides the types.

- `Evidence`: a record of an NC that is closed has its evidence or was to be
  verified, and one to be verified is known to be (`Sound`, `Known`), wherever
  a copy of it is: in exomind, in the registry, in what a reload has read, in a
  request. It holds of the records two requests overwrite in turn, too.
- `Settled` is about a record not in `doubtful`, the history of what is excluded:
  a second request on it, a reload that began meanwhile, a lost reply. No more
  than one request is at work on it, and `Stage` says how far: what it found is
  still so when it stores, and what it stored is what it commits. If none is,
  the registry has it once and as exomind has it (`Mirrors`). A reload fills a
  registry of its own, which has what is no longer `Unread`.

`QmsLifecycle` follows from `Stage`: the transition was checked against the
record exomind has.

`QmsTrail` is inductive together with `Inv` (`QmsTrailKept`): a change that no note
names has a thread that has stored it and not yet written its note (`Teller`), or
is in `untold`. It needs nothing of `Settled`, so that it holds of requests
that overlap.

`QmsProofs!QmsReopensCoverRework`: `Spec => []QmsReopens`. The `rework` check
counts cycles in the audits exomind has, the registry counts reopens result by
result as an audit registers them: two counts of the same thing, made at different
times. The model has the cycles of a check as a set, the fails with a mended fail
before them, so that adding a result adds one cycle or none (`QmsCycles`). The
inductive invariant is `Counted`: outside `doubtful`, the entry of a check covers
the cycles of the audits that are stored, and of these together with the audit being
registered, as far as it came (`Covers`). One reopen more must be there already
when the last fail was mended and the issue is still not closed, which is why the
bare inequality is not inductive: the next fail of a closed issue is counted on
both sides, that of an open one only in the audits.

### What is only model-checked

- `LoopWithinBudget` and `StoppedStays` of `Flow`: they depend on which records a
  plan holds, and in which order, which `SelectSeq` and `SetToSortSeq` decide.
- `KeptAsSaid`, `AnswersRight` and `AuditsVouch`: what a text, a file,
  a page or an answer comes to is computed by operators that are recursive,
  fold over a sequence or select from it (`Json`, `Robots`, `Request`, `Git`, `Docs`,
  `Kit`, `Context`, `Pages`, `Backup`, `Keys`), and their properties compare the
  result with a definition of another form. This is induction over data, which
  the provers here do not do.
- All liveness (`Converges`, `FiresEventually`, `ChildReturns`, `PoolReturns`,
  `RouterAnswers`): TLAPS does not reason about `ENABLED` here.
- What a recursively defined operator computes for every input (folds over
  sequences of unknown length). Induction is used in one form: a non-empty set
  of naturals has a least element (`Least`), from the well-foundedness of finite
  sets.

## 6. Not modelled

- Wording, statistics, option parsing, JSON beyond its readers in `Json`, layout of replies and
  reports; scoring of a query beyond the order it gives; cosine similarity.
- A wall clock that goes backwards; a rename that is not durable because the
  directory was not synced; `fdatasync` failures outside compaction and import;
  failures of `fdatasync` that a handler ignores.
- A second process with the same data file open: both append at their own idea
  of the end, and no useful property survives it.
- Writes to a follower by its own clients. What a thread does with a store that
  was closed under it, beyond that it may still be there (`Serve`).
- What a body of an answer that never came leaves behind in exogit's retries;
  the texts its web search extracts.
- The rest of `src/src/util.c`, exogpl and the UI and SVG analysers of exoqms:
  sequential conversions and scans without state that outlives a call. What
  their results decide is a choice in the models that call them.
- exocrawl's search and extraction; the frames of the WebSocket protocol;
  calendar text of exosched beyond the times it means.

## 7. What is left

1. `StoppedStays` and `LoopWithinBudget` of `Flow`, the only safety properties of
   the three programs that keep state in exomind without a theorem. They need
   lemmas about what `SelectSeq` and `SetToSortSeq` make of the records of a loop,
   for loops of any length.
2. The hazards without a property in `PROJECT.json`, each with its reason: the
   tombstone that is not written (`store.c:858`), a second process with the log
   open (`store.c:445`), the keys of notes (`http.c:629`).
