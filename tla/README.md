# TLA+ for tarantool3-webui: supervised failover and browser application

This directory holds TLA+ models of tarantool3-webui, TLC configurations that
check them on small instances, and TLAPS proofs of the properties that matter
most. Two parts are covered:

- the supervised failover of the Lua backend (`src/backend/webui`), where a
  mistake costs data: the agent that decides which Tarantool instance of a
  replicaset is the leader, and the watcher that makes it so;
- the browser application (`src/frontend/src`), where an operator confirms one
  thing while answers about another are still on their way: the session and the
  live feed of the shell, and eleven pages from the recovery wizards to the
  console, with as much of the resolvers behind them as their promises need.

Run inside this directory, with TLC and tlapm on the path:

    tlc -workers 2 -config MCCoordinator_safety.cfg MCCoordinator
    tlc -workers 2 -config MCPages_pages.cfg MCPages
    tlapm CoordinatorProofs.tla

`PROJECT.json` lists components, runs, the source lines each definition stands
for, the hazards and which properties cover them, disagreements between the
code and its texts, and the theorems.

## 1. Inventory

### Backend

Every instance of the cluster loads the role, so every component below exists
once per instance. Instances meet in etcd, in net.box calls, and in Tarantool's
replication and synchronous queue.

| Component | State it keeps | Operations | What makes it correct |
|---|---|---|---|
| Coordinator (`failover/agent.lua`) | `STATE`: lease, witness revision, role, last appointments, last promotion | election loop, appointment cycle, manual appointment, start, reconfigure, stop | one writer of appointment rows at a time; rows carry growing terms; the key is never held for good by nobody |
| etcd client (`config_store/etcd.lua`) | endpoint list | get, transactions, leases, watches | conditional puts let no stale writer through |
| Anti-flap and leader choice (`failover/antiflap.lua`, `agent.lua`) | misses, samples, recent changes, suppression, backoff | observe, failover_allowed, record_change, check_appointment, pick_leader | failovers are dampened, storms end, and so does the dampening |
| Watcher (`failover/watcher.lua`, `fencing.lua`, `failsafe.lua`, `watchdog.lua`, `pause.lua`) | confirmation age, applied term, guards, watchdog fiber | react to a row, self-fence, dead-man watchdog, pause, start, reconfigure, stop | a leader nobody confirms stops being one in time; its own fibers call `box.ctl` one at a time; no older decision overtakes a newer one |
| Timings (`failover/timings.lua`) | none | validate and correct | two renewals fit a lease, deadlines lie inside it |
| Failover assembly (`failover/init.lua`, `commands`, `disabled`, `drain`, `identity`) | etcd keys | start, reload, stop order; operator commands | the queue is handed over before the lease goes |
| Config commit (`config_store/twophase.lua`, `history`, `file_writer`) | prepared entries, etcd config key, local mirror | prepare, commit, abort, fan-out reload | no lost update, no half-applied config without a report |
| Rolling restart (`lifecycle/orchestrator.lua`) | lock, plan | safe_restart, rolling | a majority stays up, the leader goes last |
| Role lifecycle (`init.lua`, `lifecycle/`) | what is started | validate, apply, stop | a reload is a stop and a start in one process |
| Cluster view (`cluster/`) | connections, snapshots, issues | poll, push, suggest | views are advisory |
| Recovery (`recovery/`) | files, checkpoints | assess, takeover, identity reset, rebootstrap | no data deleted without the operator |
| Audit, storage, auth, HTTP/WS, GraphQL/REST, notifications, data explorer | tables, sessions, sockets | requests | local to each; see section 8 |

How the failover parts interact. The coordinator loop of every instance
competes for one etcd key bound to a lease. The winner probes all instances
each cycle, asks the anti-flap layer, and writes one appointment row per
replicaset, bound to the revision of its key. An operator may write a row too,
without that bond. Every instance's watcher polls (and watches) its row,
catches up, and calls `box.ctl.promote` or `demote`. Between confirmations a
self-fencing loop and a watchdog count down. A reload of the role's config
stops and starts all of it **in the same process**, so fibers of before meet
the module-level `STATE` of after.

The behaviours that are hard: fibers yield at every etcd call and go on with
what they read before it; a request may take effect although its caller timed
out, or arrive after somebody else reigns; leases expire while their holder is
between two calls; stop runs beside the loop it stops; the dampening layers run
on five clocks that reset one another.

### Browser application

| Component | State it keeps | Operations | What makes it correct |
|---|---|---|---|
| Session, login, router (`entities/session`, `features/auth-login`, `app/router`) | user and probe state, login form, page on show; the cookie is the browser's | probe, log in and out, navigate, redirect on a refusal | a page its role does not admit is at least being left |
| Live feed (`shared/api/ws`, `app/main.ts`) | socket, state, reconnect timer; old sockets live on | connect, disconnect, listeners, timer | a signed-in page keeps a feed; the indicator does not lie |
| Recovery page, assessment dialog (`cluster-recovery`, `recovery-assessment`; gate in `recovery/`) | wizard, action, assessment on show, acknowledgement, token | open, review, confirm, apply, assess anew | nothing dangerous runs that was not confirmed for what it is and for the state it meets |
| Data explorer (`data-explorer`) | space, filter, pager, grid, dialogs | select, filter, page, edit, create, alter, truncate, drop | the pager is rooted; destructive acts are as typed |
| Tuple form, binary field | a value, its text or bytes, NULL, view | type, switch view, pick file, save | an untouched field of a typed column comes back as it was |
| Space panels (statistics, sequence, indexes) | what is on show, one dialog, one menu, one spinner | load, ask, confirm | an answer lands where it belongs |
| Configuration page (`config-editor`; `config_store/twophase.lua`) | text, prepared id, revisions, two editors | edit, preview, apply, abort, roll back, re-apply | what is applied is what was shown and typed |
| Cluster and failover pages (`cluster`, `failover`, `cluster-ops` store) | dialogs, settings form, one shared pending flag | promote, toggle, expel, pause, resume, change the mode | one action at a time, valid settings only |
| SQL page, console | text, editor, result, banner, spinner, leave for a full scan | run, explain, save, load, switch language | what would run is what is seen |
| Logs page | filters, tail and its timer, kept preferences | load, tail, debounce, restore | one timer |
| Audit page (`audit-entry` store) | entries, cursor, filters; the store outlives the page | load, load more, verify | "Load more" goes on where the table ends |
| Bootstrap wizard (`bootstrap`; `resolvers/bootstrap.lua`) | choice, preview | choose, preview, apply | what the viewer shows is what was rendered |
| Other pages and stores, widgets, texts | | | section 8 |

How they interact. The shell decides what page is mounted and drives the feed
through a watcher that runs after the session changed, not with it. The router
mounts one page at a time, and its refs go with it; stores and the socket stay.
A page talks to the backend through GraphQL queries, of which equal ones in
flight share an answer, and through mutations and REST calls, which do not.

The behaviours that are hard: answers that come late, in another order, or not
at all, and that are written into whatever the page is about by then; a socket
that still fires its close event after the client let go of it; timers armed
over timers; a store that outlives the page whose flag it carries; editors that
are loaded after the page and must take over its text; dialogs that rest on refs
that the page behind them changes; another operator at the same backend.

## 2. Modules

| Module | Models | Proofs |
|---|---|---|
| `FencedRow` | abstract: numbered reigns, one holder, a reign's row written by its holder | |
| `Coordinator` | `coordinator_loop` and all it calls, `appoint_manually`, start, stop, etcd | `CoordinatorProofs` |
| `Watcher` | one instance's watcher, self-fencing, watchdog, failsafe, pause | `WatcherProofs` |
| `AntiFlap` | antiflap.lua as operators on an entry and the backoff table | |
| `AppointmentPolicy` | `evaluate_replicaset`, `pick_leader`, `commit_appointment` over `AntiFlap` | `AppointmentPolicyProofs` |
| `Timings` | `validate_and_adjust` | in the module |
| `WsClient` | the WebSocket singleton, all sockets it ever made, its timer | |
| `Session` | session store, router guard, login, logout, redirects | |
| `Spa` | the shell: the watcher that ties `WsClient` to `Session` | `SpaProofs` |
| `Browser` | what the page modules share: refs, requests in flight, backend | |
| `Recovery`, `DataExplorer`, `TupleForm`, `SpacePanels`, `ConfigEditor`, `ClusterOps`, `Sql`, `Logs`, `Audit`, `Bootstrap`, `Console` | one page (or its panels or form) each | |
| `Pages` | one page at a time: instantiates every page module | `PagesProofs`, `ActionsProofs`, `PageTypesProofs` |
| `MC...` | instances of the modules for TLC: symmetry, constraints, option sets | |

### Coordinator

A fiber yields exactly at its etcd calls and its sleep, so an action is one run
of a fiber from a reply to its next call. `pc[f]` names the call a fiber waits
for and `loc[f]` its locals and the reply on its way; `enabled`, `isCoord`,
`leaseId`, `coordRev` are the fields of `STATE`. `Await` hands a call over, and
the actions `On...` consume its reply. A call may fail before or after it took
effect, and a request may stay in `late` and reach etcd afterwards. `M.stop`
has three steps, because draining and revoking yield. A stop and a start in one
process leave the old loop fiber behind, so an instance has `Slots` fibers.

The model counts etcd's revision in creations of the coordinator key, because
only that key's revision is compared. Revision 0 is "absent", and is also what
`witness_revision or 0` sends for nil. One replicaset's row is kept: all rows
are written by the same code, none reads another's. Whom a row names is left to
`AppointmentPolicy`. `calm` is the point from which nothing fails any more;
only the liveness properties look at it.

### Watcher

Reactions (from the poll, the config watch and the appointment watch),
self-fencing loops and watchdog fibers of one process share `STATE`. `Tick`
moves the clock but never past a wake-up of a sleeping fencing loop or
watchdog; reads and `box.ctl` calls take as long as they like. What the rest
of the cluster does is in the answers: any row, any pause, any owner of the
queue. Other fibers of the process call `box.ctl` too and yield in it (the drain
of `agent.stop` while the watcher still polls, an operator's promote): they
neither ask nor set the guard, so `OtherCalls` and `OtherReturns` fall anywhere
among the watcher's steps, and whichever call Tarantool refuses changes nothing. `box.ctl.wait_ro` after a fence returns at once because `read_only` was
set just before, so it is no step of its own. Catch-up and the vclockkeeper
claim of `prepare_to_promote` are one call that goes through or defers.
`unfenced` and `overdue` are history: how long a leader outlived its deadlines.

### AntiFlap and AppointmentPolicy

One tick is one coordinator cycle (`keepalive_interval`), and holds at most one
evaluation of the replicaset. Each evaluation sees any probes, any disabled set,
a readable or unreadable priority list, and any outcome of its write:
acknowledged, taken effect without a reply, or failed with or without the
office. Out of office, others write the row; an operator does at any time.
`mem` is `STATE.last_appointments`, which outlives office and the role's
restarts. A probe is reduced to whether `score_candidate` qualifies the
instance and whether it is writable: the lag, at most five, only breaks ties
against steps of 50 and 100, so a tie is any of the best. The phi value is any
verdict until the leader has been silent for `SurelyDead`, when a normal tail
is past every threshold. Variables from `synced` on are history and steer
nothing.

### Timings

`validate_and_adjust` over whole seconds, 0 standing for a missing or
non-positive option. The warnings are left out.

### WsClient, Session and Spa

`conn[s]` is a socket as the browser knows it, `socket` and `tracked` are what the
client remembers: listeners of a forgotten socket still fire, and a timer armed
over another is no longer tracked but still runs. The cookie is apart from the
user in the store: it expires, and another tab changes it. A page load starts
with a blank view, whose first navigation waits for the probe; every later one
passes the guard at once and lands when the chunk of its page is there (`Land`),
or never does (`LandFails`; the router has no `onError`). Between the two `bound`
says where it is going: login and logout change the user first and navigate
after, and what was on show stays until the landing; a redirect by
`window.location` loses all sockets and timers. `seen` is what the watcher of
`main.ts` saw last; `up` says whether the backend answers.

### Browser, the page modules and Pages

All page modules have three variables: `ui`, a record of the refs of the mounted
page; `flight`, the requests without an answer; `backend`, the part of the
backend the page is about. `Queries` puts a query in flight, which an equal one
shares; `Posts` numbers a mutation, since equal ones are two calls. An answer is
an action per kind of outcome, and takes any request of its kind in any order. A
guard of a button or a field is the template's `:disabled` or `v-if`; a
handler's early return is a conjunct of its own.

`Pages` chooses one page in `Init` and takes its steps. That is no loss: the
router unmounts one page before it mounts another, and an answer to an unmounted
page writes into refs nobody shows. What outlives pages is modelled where it is:
`ClusterOps` is two pages, with tabs between them, over one store; `Audit` keeps
its store over visits; `Logs` keeps preferences in the browser's storage.

- `Recovery` ends in the gate of `recovery/preflight.lua`: a fresh assessment,
  fingerprint, token and pause. What the action does is any change of the cluster.
- `TupleForm` follows one field of each kind of column; a value is its kind and
  its text, `ParseValue` what the form makes of a text. What the backend delivers
  as a string (`types.lua` `encode_field`: decimals, and integers beyond a double
  with their LL or ULL) is a string there, and a text that reads as a number
  leaves as the double nearest to it.
- `ConfigEditor` and `Bootstrap` have the two-phase commit behind them, with
  other operators who write, and prepared documents that expire.
- Names, rows, codes and texts are members of small sets; what the pages only
  display is left out, as each module's head says.

## 3. Runs

| Run | Question | Result |
|---|---|---|
| `safety` | Two instances, two reigns, late requests, crashes, expiries: who can write the row, and does `Coordinator` implement `FencedRow`? | holds |
| `liveness` | Two instances competing, network calm at some point: is the cluster governed again, by a second reign when the first is lost? | holds |
| `restart` | One instance restarted while its old loop fiber still runs: is the cluster governed again, and does a stopped instance let the key go? | holds |
| `unfenced` | "Every appointment write is CAS-bound to the coordinator key's mod_revision" | violated |
| `retime` | Deadlines and term order across live reconfigurations among three option sets, with calls of `box.ctl` by other fibers | holds |
| `reload` | Deadlines and the `box.ctl` guard across two starts in one process | holds |
| `policy` | Are failovers dampened, those the coordinator heard of bounded, and does the dampening end? | holds |
| `autoreturn` | The first of `failover_priority` gets the lead back after `autoreturn_delay` | violated |
| `spa` | Two accounts and two sockets under logins, logouts, expiries, outages and page chunks that come late or never: is the view admitted, is there a feed, does it return? | holds |
| `pages` | Eleven pages, every order of clicks and answers: is what is sent what was confirmed, and what is shown what is selected? | holds |
| `overwritten` | "commit performs a CAS write at `<prefix>/config` guarded by `expected_rev`" | violated |
| `enable` | "Disable / Enable — toggle through setInstanceState" | violated |

The violated ones, in words; `PROJECT.json` quotes the texts.

- `unfenced`: a cycle that is reading the live row when `M.stop` clears the
  witness writes its row bound to revision 0, which etcd reads as "there must be
  no coordinator key"; stop has just revoked the lease, so there is none. The
  row has no term, and no watcher takes it for stale.
- `autoreturn`: the refresh of an unchanged row (every 30 s) restamps `ts`, from
  which the 60 s of `autoreturn_delay` are counted. With a healthy leader they
  never pass.
- `overwritten`: the page commits by the prepared id alone, no revision reaches
  `commit_etcd_write`, and what another operator committed since the preview is
  overwritten without a conflict.
- `enable`: the toggle decides by a prop that its only user never passes, so its
  second press disables once more.

What else the models reach without a run of its own, because no text of the
repository promises otherwise or because a run of its own would ask nothing new:

- An operator's row written between the coordinator's read for an override and
  its conditional write is lost: the condition is on the coordinator key only.
- A live reconfiguration stops and starts the watchdog without a yield, which
  brings the stopped fiber back with the old deadlines; `DeadMan` bounds from
  above and is not touched.
- After a restart in one process a parked reaction may promote on its old row;
  `PromotesNewest` therefore speaks of one start.
- A failover whose write took effect without a reply is in no window of the
  anti-flap layer, which calls what it counts leader changes
  (`antiflap.lua:23-26`); `FlapBound` therefore speaks of acknowledged ones.
- A call of `box.ctl` by the drain or an operator may run into one of the watcher,
  as the guard is the watcher's own; `CtlExclusive` therefore speaks of its fibers.
- After a logout whose login chunk does not come, the page stays on show without a
  user; `AdmittedView` says that the session was left, not that the page is gone.
- A decimal of a number column, delivered as a string, is written back as a double
  though nobody touched it; `UntouchedKept` says so instead of leaving it out.
- The Apply of the bootstrap wizard sends the choice of now, for which the preview
  may not have been rendered; the Apply of the configuration page sends the
  document prepared, whatever the editor holds by then. `EditorInStep` speaks of
  what pages hold.
- A coordinator new in office takes a standing leader for a cold start and may
  replace it; `FailoverDampened` therefore speaks of a memory in step.
- Rows of one space may stand under another's name for a while; the console
  shows the answer that came last, not the run started last; an audit table may
  hold an entry twice, or of two filters; a settings form opened before the
  first answer presets "off"; the close timer of one settings dialog closes the
  next; the alter dialog names the sequence on show by now; two sockets may be
  open at a time; a string in an untyped column that reads as JSON is written
  back as something else.

### Properties that hold

`NewestTerm`: the row's term is the highest a row ever carried, so the
watchers' stale test never drops a current row. `OneWriter`: the live key's
revision is known as a witness to its owner alone, in `STATE`, in a fiber or in
a request on its way. `NoForeignWrite`: no step of an instance changes the row
while the key names another. `LeaseBacksReign`: a lease in `STATE` that is still
alive is the one the key hangs on, and the key names its holder; so a keepalive
that succeeds proves the reign, and a clean stop frees the key. It starts from
the lease, not from the fiber: an instance with an old and a new loop may hold a
key through a create that arrived late, of which `STATE` knows nothing yet.
`ImplementsFencedRow`: all of that at once, as a refinement.
`EventuallyGoverned`, `StoppedLeavesKey`: section 5.

`FencedInTime` and `DeadMan`: an unconfirmed leader is read-only one probe and
one failsafe poll after `renew_deadline`, and its process ends one probe after
`hard_deadline`, through all reconfigurations and restarts. `CtlExclusive`: of the
watcher's own fibers at most one is inside `box.ctl`, and the guard says exactly
whether one is, whatever calls of others fall in between. `PromotesNewest`: with one start
per process, a promotion goes ahead only on the newest term read.

`FailoverDampened`: a leader the memory knows loses the lead only after
`min_misses` failed probes in a row. `FlapBound`: no window of
`suppress_window` sees more than `suppress_threshold` + 1 failovers whose write
was acknowledged, when the cooldown is not shorter than the window, as with the
defaults.
`LeaderReplaced`: an unfit leader with a fit candidate is replaced after as many
cycles as the longest of the timers lasts: the clocks do not hold each other up.

`AdmittedView`: whatever probes, redirects, other tabs and late chunks do, a
navigation past the guard leads to a page only if the session of now admits it,
and a page on show that the session does not admit is being left, or its leaving
failed. `FeedPending`:
when the watcher and the store agree on "signed in", some socket is open or
opening, or some timer will make one. `IndicatorHonest`: "open" means an open
socket, though a forgotten socket's events write the same field. `FeedReturns`:
section 5.

`ConsentKept`: of all recovery requests on their way, the gate runs a dangerous
one only if its token was typed in a dialog opened on that very action and the
fingerprint has not moved, although the dialog may show another action's
assessment and two actions share a token. `PagerRooted`: the stack of cursors is
empty exactly on the first page and '' is only its bottom. `TruncateAsTyped`,
`DropAsTyped`, `RollbackAsTyped`: one destructive call at a time, for the name
(or revision) typed, with the choices of its own dialog, still under the dialog
that asked (for the rollback, still on show); for the truncation, the sequence is
reset only if that was ticked since that very dialog was opened, though the
checkbox outlives it. `UntouchedKept`: a typed field nobody touched is written
back as read, and the decimal of a number column as the nearest double. `ViewOffered`: bytes are never shown in
a tab that is not rendered. `ResultUnderItsIndex`: a result stands under the
index it was asked for, and a spinner has a request. `PendingHonest`: the shared
flag is up exactly while an action is under way, and there is one at a time.
`SentIsValid`: no setting the form marks as invalid is sent. `ResultOfLastRun`:
result, banner and spinner are of the last run. `EditorInStep`: what an
editor shows is what its page holds, on five pages, whenever the editor arrives:
the statement or code that Run sends, the text that Preview sends, the lines of
the log, and the template rendered last.
`OneTail`: one interval timer, with the period on show. `ContinuesFromLast`: the
cursor belongs to the last row of the table.

## 4. Bounds

- `MaxReigns` 2: two reigns are what a stale coordinator and its successor need;
  what a third could add is excluded by the proofs, which hold for any number. In
  `liveness` and `restart` too, so that the loss of the first reign, by any failed
  call, stop or expiry, must lead to a second one.
  `MaxLate` 1 in `safety`: one late request at a time suffices to meet a later
  reign; 0 under fairness, where lost replies remain and late arrivals do not.
  `Slots` 1 or 2: one loop, or the old and the new loop of a restart. Three
  leases (two in `restart`) outlast the reigns because a revoked, unused id is
  taken again.
- `Unattended` (safety): states after `calm`, states with an operator's row and
  states in which no reign is possible any more are not explored further. The
  first only removes behaviours; an operator's row changes nothing a coordinator
  compares, and what follows one is covered by the theorems only. `QuietRow`, `Reignable` (liveness): only an override in the row is
  ever read back, so an empty row leaves every control path of the election; and
  once the bound on reigns is used up, after the second reign, the liveness
  properties hold for good.
- Watcher: two or three option sets that keep the defaults' shape (one probe and
  one failsafe poll fit between `renew_deadline` and ttl), `TwoTimings` with the longer timing
  with and without the watchdog, `OnAndOff` with one timing and everything on or
  off; one call of another fiber at a time; two fibers of each kind; terms 0 to 2 where
  they matter; a pause of one tick; two starts in `reload`.
- Policy: two instances, and constants of one to five ticks in the order the
  defaults have: a window no longer than the cooldown, a refresh shorter than the
  auto-return delay, a backoff capped at its base (its doubling is left to the
  proofs, which hold for any base and cap). In `policy`, `dampen_cycles`
  equals `min_misses`, because with a larger value three failovers do not fit a
  window small enough to explore; `autoreturn` has 3 and 2 as the
  code does. `MissCap`, `AgeCap` and `SurelyDead` stop where larger values are alike. `WaitCap` 0 switches the history of auto-return off.

- Spa: two sockets and two timers, since one of each forgotten while a new one
  runs is the case that matters; two accounts whose roles differ, and a page for
  each role. 348 thousand distinct states.
- Pages: two requests in flight (three for `ClusterOps` and `Audit`), so that any
  two may be answered in the wrong order. Three recovery requests, two of which
  share a token and a peer, and three worlds, two of which a fingerprint does not
  tell apart. Two user spaces, so that one truncation dialog can follow another, and two pages
  of tuples; a system space only takes buttons away, and the theorems cover any set
  of them. Nine words and two strings of bytes that cover what `ParseValue` and the
  views distinguish, a decimal of more digits than a double and a 64-bit integer
  among them; three tables, two of them with a sequence; two indexes. Two texts,
  interchangeable as the two spaces are (symmetry), three revisions and one prepared
  document. One instance and three modes. Four log entries, pages of two, three
  rows. In `overwritten` and `enable` the audit bounds are at their least, because
  those runs are about other pages. `pages` has 6.9 million distinct states.
- The theorems hold for any sets and any bounds: section 6.

Each property of a passing run has a mutant: the model with one plausible bug
(a forgotten reset, an off-by-one, a conditional put without its condition) for
which TLC finds the property violated within the same bounds.

## 5. Fairness

`FairSpec` of `Coordinator`, for `liveness` and `restart`:

- weak fairness of every fiber: fibers are scheduled, and each etcd call
  returns, if only by the client's timeout (`etcd.lua` passes one to every
  request);
- a stop that began finishes: its steps are bounded calls of one fiber;
- a lease that no instance keeps in `STATE` or in a claim expires: it gets no
  keepalive, and ends by its TTL.

Nothing makes the network calm, starts or stops an instance, or lets a cycle
find a candidate: the properties are conditional on that. After `Calms` no call
fails and no fiber is held up for a TTL.

`FairSpec` of `Spa`, for `FeedReturns`:

- weak fairness of `Watch`: Vue flushes its watchers after the change;
- weak fairness of `Reconnect` and, per socket, of `Handshake` and `SocketEnds`:
  timers fire, and the browser ends every opening or closing of a socket with an
  event;
- weak fairness of `Ask` and of its answer: the page on show asks the backend
  again on every push and every poll, which is how a page learns that its session
  is gone.

Nothing makes anybody sign in or the backend come up: `FeedReturns` is about
behaviours in which the session and the backend hold from some point on.
`Watcher`, `AppointmentPolicy` and `Pages` need no fairness: what must happen in
the first two is stated as a bound on ticks or cycles, and `Pages` claims safety.

## 6. Proofs

All for every value of the constants, from the named assumptions only.

- `CoordinatorProofs`. `TypeCorrect`. `FencingInvariant`: the inductive
  invariant `FInv` says that the live key is the latest revision created, that
  witnesses and late writes never run ahead of it (`HeldBelow`), that a read
  that came back agrees with the key it saw (`ReadsAgree`), that the row's term
  is the newest, and `OneWriter`. `NewestTerm` alone is not inductive: a late
  write under an old witness must be known to lose. From it follow
  `RowIsNewest`, `WitnessIsOwners`, `NoForeignWrites`. `LiveLeaseIsKeys` has an
  invariant of its own, `LInv`: `LeaseBacksReign` is not inductive, because between
  the creation of the key and `OnCreated` the lease is known to the claiming fiber
  only, so the same is said of that fiber (`ClaimBacked`). `OneLiveCoordinator`
  follows: of any two instances at most one holds a lease that lives. A lemma sorts every step
  into five moves (nothing, key created, key gone, row written under the key,
  row written without one), from which `CoordinatorImplementsFencedRow` maps
  each to a step of `FencedRow` or a stutter.
- `WatcherProofs`. `WatcherTypeCorrect`. `CtlGuarded`, whatever other fibers call. `DeadManStops` from
  `DogOnDuty`: while the watcher runs, some watchdog has the deadlines in force
  and its next check comes in time. `LeaderFenced` from `FenceOnDuty`, the same
  for a fencing loop. `PromotionsAreNewest` from `OneReaction`.
- `AppointmentPolicyProofs`. `PolicyTypeCorrect`, on which the other invariants
  rest. `DampeningInvariant`: a memory in step with the row names its leader, and
  antiflap counts no miss that this leader did not have. `DampenedFailovers`
  follows, since whoever takes the row from a known unfit leader passed
  `failover_allowed`. `StormInvariant`, for `AcknowledgedStormsEnd`: antiflap remembers each
  acknowledged failover of the window at its age, and with more of them than the threshold the
  suppression lasts for all of the cooldown from each. The bound alone is not
  inductive, because the next failover is refused by what is left of the
  suppression, not by a count. `VacancyInvariant`, for `UnfitReplaced`: after `k`
  cycles with an unfit leader and a fit candidate every clock that dampens has
  run `k` ticks or is over. Neither of the two needs the cap of the backoff: it
  chooses among candidates and never leaves none, as `pick_leader` falls back on
  those that are backed off. Assumed beside the ranges of the constants: the
  aliases are finitely many, so that a best candidate exists.
- `Timings`. `AcceptedTimings`: whatever whole seconds the operator writes,
  accepted timings satisfy `loop + 2 * retry <= ttl`, `ttl >= 2 * loop` and
  `0 < renew_deadline < ttl`. `RefusedTimings`: refused are exactly leases under
  seven seconds.

- `SpaProofs`. `FeedInvariant`: the socket the client holds is alive, the timer
  it knows is armed, and a session the watcher saw as signed in has a feed.
  `FeedPending` alone is not inductive: a close event must be known to concern a
  socket that was alive, and a cleared timer to be one that was armed. From it
  `FeedStays` and `TypeCorrect`; `IndicatorIsHonest` and `ViewsAreAdmitted` are
  inductive with the types: what `AdmittedView` says of `bound` is what a landing
  needs. Assumed: roles have ranks (`RolesAssumption`), and no
  socket is not a socket.
- `PagesProofs`. `ShownIsHeld` is a conjunction of one invariant per page with an
  editor, viewer, timer or result: who holds what text, which requests may still
  answer, which timers are armed. From it `EditorsInStep`, `TailIsOne`,
  `LastRunIsShown`, `ViewsAreOffered`.
- `ActionsProofs`. `ConfirmedIsSent`, the same for the pages that act: what every
  request in flight was confirmed as, and what the dialogs and flags say
  meanwhile. For the pager it says where each answer's cursor leads, since the
  answer of an earlier filter may still fill the page. From it the eight theorems
  about single properties, `ConsentIsKept` to `ReturnsAreTyped`.
- `PageTypesProofs`. `DataKept`, a conjunction of one invariant per page about
  data: what refs, requests and the backend hold. Its parts that say something of
  their own: `FieldInv`, that an untouched row of the tuple form is the one made of
  the value that was read, from which `UntouchedComesBack` by cases over the kinds
  of columns; `AuditInv`, that the table is a sequence of entries whose cursor, if
  there are more, is its last one, from which `LoadMoreContinues`. The step that
  needs an argument is an answer: a page is a descending sequence of the newest
  rows below the cursor, so its last row is the least of them; that such a
  sequence exists is shown by the rank of each row, the number of rows not below
  it. `PagesTypeCorrect` follows from `DataKept` and `ShownIsHeld`.
- The three about `Pages` rest on `PagesAssumption`: bounds leave room for what a
  page starts with; what stands for nothing is not something; a request that can
  be dangerous has a token; the empty text reads neither as a number nor as JSON,
  and an integer with LL or ULL not as a number;
  entries have positive ids, since 0 is "no cursor"; and what a page opens with
  (an empty filter, the mode "off", Lua and the first line of each language) is
  among what it can show. Each is a fact of the page's source or of the language.

All invariants and action properties that a passing run checks are stated by a
theorem, and so is the refinement. Left to TLC: liveness under fairness, which the prover does not do
(`EventuallyGoverned`, `StoppedLeavesKey`, `FeedReturns`), and the four violated
properties. Induction over data is avoided rather than done: a best candidate or
a greatest rank is taken as a minimal element of the finite subsets without one
(`WFMin` on `FS_StrictSubsetOrderingWellFounded`), which needs no operator as a
parameter, and the doubling of a backoff is a step from the one before it, not a
power of two.

## 7. Plan

In this order.

1. Done: `FencedRow`, `Coordinator`, `Watcher`, `AntiFlap`,
   `AppointmentPolicy`, `Timings`; `Spa` with `WsClient` and `Session`; `Pages`
   with its eleven page modules, and the proofs of section 6.
2. `ConfigCommit` (`config_store/twophase.lua`): prepared entries and their
   expiry, two operators, the CAS on the config key, the quorum check, the file
   mirror, the reload fan-out, history; against an abstract register that is
   replaced only from the version that was read. Hazards: expiry during commit,
   CAS lost after prepare, mirror written and key not, lost reply and retry.
   `ConfigEditor` has the part of it that its page meets.
3. `RollingRestart` (`lifecycle/orchestrator.lua`): lock, majority guard, leader
   last, demotion, convergence waits and aborts; a majority stays up.
4. `Switchover`: several watchers, a coordinator that follows `FencedRow`, the
   synchronous queue with terms, the vclockkeeper CAS, and the stop order of
   `failover/init.lua`. At most one instance is writable under the queue's term.
5. Several replicasets and the global hysteresis; the checkpoint of
   `weak_subjectivity`; the audit chain; identity reset.
6. The pages and stores that are left (webhooks, vshard, snapshots, schema,
   users, metrics, issues, suggestions) as further instances in `Pages`.
7. Proofs, as these modules come: `ConfigCommit` implements its register; the
   majority of `RollingRestart`; one writable instance in `Switchover`.

## 8. Not modelled

- etcd and Raft, Tarantool's replication and queue: taken as they are used.
  Clocks of different instances are not compared; deadlines are local.
- Watch streams: they wake a fiber early, and waking is always possible. In
  `AppointmentPolicy` an early wake-up is not given a cycle of its own, so
  `min_misses` counts probes that are an interval apart.
- The timer values' fractions, live changes of the anti-flap tunables, and a
  clock that jumps (`fiber.time` is wall-clock).
- YAML editing, schema, diffs, HTTP and WebSocket framing, notifications: text
  and I/O with no state that several actors share. Resolvers check rights and
  call the components; the page modules meet them as answers.
- Config commit beyond what its page sees (quorum check, mirror, fan-out,
  history), rolling restart, the failover assembly, the cluster view, the audit
  chain, storage: plan items 2 to 5.
- What recovery actions do once the gate lets them pass: any change.
- In the browser: display (widgets, texts, formats, cells), CSRF tokens, the
  return path of a login, the growth of the reconnect delay, the dispatch of
  pushed messages to subscriptions, exports, imports and downloads, the fields of
  each wizard's payload. None steers the control modelled here.
- The other pages: a list with a refresh and a dialog or two, in the patterns of
  `DataExplorer`, `Audit` and `SpacePanels` (plan item 6).
