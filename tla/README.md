# TLA+ models of etcd-play

These modules model the process-management core of etcd-play (`src/proc`), its
log routing, the web backend's user cache and rate limit (the copy kept at the
end of `proc_cluster.go`) and the revive loop of the web backend
(`src/unnamed/part_001`).
TLC checks them. Each action is written from the Go source and names the lines
it models in `PROJECT.json` ("map").

## The system and how its parts interact

| part | source | what it does |
|---|---|---|
| `NodeWebLocal` | `src/proc/node_web_local.go` | One etcd member run as a local process: `Start`, `Restart`, `Terminate`, `Clean`, `IsActive`. |
| `NodeWebRemoteClient` | `src/unnamed/part_000` | The same operations delegated to a remote etcd-agent over RPC. |
| cluster | `src/proc/proc_cluster.go` 220-512 | `NewCluster`, the by-name operations, `Bootstrap`, `Shutdown`, `Revive`. |
| `Status` / `getStatus` | `proc_cluster.go` 513-658 | One probe per member. Each probe runs three sub-queries with 5 s timeouts. |
| `Stress` / `stress` | `proc_cluster.go` 785-859 | N concurrent puts and a counting fan-in. |
| `WatchPut`, `Put`, `Get`, `Delete`, `Endpoints`, `Leader` | `proc_cluster.go` 659-935 | Client operations on one member. |
| backend globals | `src/unnamed/part_001`, and an older copy at `proc_cluster.go` 937-1143 | `withCache`, `okToRequest` (the per-user limiter), the revive loop (`part_001` only), the status poller, user expiry and port refresh. |
| log routing | `proc_cluster.go` 303-358, `node_web_local.go` 52-70 | `Write` sends a line to the shared stream or to each named stream; `Stream` makes a named stream's channel on first use. Both are buffered channels of capacity 5000. |

How the parts interact:
- `NewCluster` gives every local member the cluster's own mutex as its `pmu`. A critical section of one member therefore excludes every other member and every by-name lookup.
- A lifecycle call is a sequence of separate critical sections with unlocked steps between them:
  1. read `active` and the cool-down stamps;
  2. launch a process or send a signal;
  3. write `active`, `PID` and the stamps.
- The goroutine that `Start` leaves behind waits on the process and only logs its exit.
- The web backend calls the cluster under `globalCache.mu`. Its revive loop calls `Revive` every second while holding that lock.
- A web request passes `withCache` (registers its user) and `okToRequest` (the rate limit), each a critical section of `globalCache.mu`. The cluster operation it then runs writes its log lines with `Write` to the user's stream, which the user's page reads, or to the shared stream, which the presentation layer drains. etcd output also goes to the shared stream.

## Modules

| module | models | state ↔ code |
|---|---|---|
| `NodeWebLocal` | local members, their etcd processes, the pid space, the clock | `active`, `pid`, `sinceT`/`sinceR` (time since `lastTerminated`/`lastRestarted`, saturated at `LimitInterval`), `clusterState`, `dataDir` per member. `pstate`/`powner` per pid. `mu` = `pmu`. `pc`/`target`/`lpid`/`ret` per calling goroutine. One action per critical section or unlocked step (`StartCheck`, `StartLaunch`, `StartCommit`, ...). `ProcExit`/`ProcReap` are the process and its waiting goroutine. `Tick` is time. |
| `Cluster` | `Bootstrap`, `Shutdown`, the by-name calls, `Revive` and the revive loop, composed with `NodeWebLocal` (EXTENDS) | `mainPc` (main goroutine), `cn` (Bootstrap's count), `wstage` (per-member worker goroutine), `wg` (Shutdown's WaitGroup), `revStage`/`revTodo` (revive loop). The loop holds `globalCache.mu` while `revStage` is not `Sleep` (`ReviverHoldsCache`), and a web request (`ClusterRequest`, then `ClusterCall`) first passes `withCache`, so it waits meanwhile. |
| `StatusAgg` | `Status` and `getStatus` | `stage`/`q`/`sub` per probe and sub-query goroutine. `reply` is the value a probe sends. `result`/`err`/`cn` belong to `Status`. |
| `Stress` | `Stress` and `stress` | `sg` (stress goroutine), `put`/`outcome` (put goroutines), the shared `err`, `cnt`, `caller`/`sret` (Stress). |
| `NodeLifecycle` | the abstract Node of spec 4.1 and of the `Node` interface (`proc_cluster.go` 57-81): every operation one atomic step | `on`, `data` per member, and the ages `sinceT`/`sinceR` of its two stamps. |
| `KVClient` | `Put`, `Get`, `Delete`, `WatchPut`, `Leader` called by one handler goroutine while members go up and down | `active` (set by the environment action `Flip`), `kc`/`kop`/`req` (the call), `tgt`/`eps` (its resolved target and dialled endpoints), `kret`, and for `WatchPut` `sub` (each watch), `wst` (each watcher goroutine) and `wg`. Actions: `Put`/`Get`/`Delete` (`Begin`: `Endpoints()` and the target lookup), `WatchPut`, `Leader`, and the rest of each operation (`PutCall`, `GetCall`, `DeleteCall`, `LeaderCall`, `WatchCall`) made of `Dial` (`clientv3.New`), `Rpc`, `WatchOpen`, `Trigger` (the triggering put, `wg.Add`), `WatcherRecv`/`WatcherTimeout` (the select of each watcher goroutine), `WatchDone` (`wg.Wait`); `Finish` runs the deferred closes. |

| `WebBackend` | the backend globals of the copy at the end of `proc_cluster.go`, and log routing | `users`, `requestCount`, `sinceLast`/`sinceStart` (ages of `lastRequestTime`/`startTime`, saturated just past `Second`/`Hour`) and `cacheMu` for the user cache; `pc`/`wch` per request handler; `idToStream`, `owner`, `nchan`, `buf` per channel, `shared`, and `rch` (the channel each page reads); `pollPc`. Actions: `Request` (`withCache`), `OkToRequest`, `Expire`, `Tick`, `Write` (with `Stream`), `SendShared`/`Send` (the blocking sends), `EtcdLine` (`NodeWebLocal.Write`), `SharedDrain`, `ReaderAttach`/`ReaderRecv`, `PollCount`/`PollList`. |

`MC_*` modules give the constants small concrete values for the `.cfg` files.

How the code is abstracted:
- A goroutine's call is a sequence of `pc` labels. Each critical section is one atomic action, and so is each unlocked step that changes shared state.
- An unbuffered send is a stage that blocks until the receive.
- Returned errors are collapsed to ok/err.
- Log text, flags and ServerStatus contents are left out.
- In `stress` the shared `err` is written (`PutCall`), tested (`PutCheck`) and read again for the send on `errChan` (`PutSend`), each a step of its own, so other puts can interleave as the unsynchronised Go accesses can.
- `Clean`'s `os.RemoveAll` fails (its error is returned, the directory stays) only while an etcd of the member is still alive and writing into it.

## Runs

| run | expect | checks | shows |
|---|---|---|---|
| node_clean_stamp | violation | ImplementsLifecycle | With a single caller, so with no race involved, the three-step operations do not implement the atomic `NodeLifecycle`: a `Clean` refused with StillActive has stamped `lastTerminated` (line 272), and the next `Terminate` is refused as too soon. Spec 4.1 updates timestamps only on success. |
| node_double_launch | violation | AtMostOneRunning | Two Starts/Restarts both pass the check and launch two etcds. |
| node_stray_kill | violation | NoStrayKill | A stale `nd.PID`, reused by the OS, gets another member's etcd SIGTERM'd. |
| cluster_lifecycle | pass | ClusterTypeOK, BootstrapStartsAll, BootstrapFailsFast, ShutdownStopsAll | Bootstrap → SIGINT → Shutdown over two members; every etcd exits after Shutdown. `cmd.Start` may fail (`LaunchMayFail`), and so may `Flags.String`, whose error return leaves `pmu` locked so that the other member's Start blocks for good. BootstrapFailsFast checks that a failed Start still ends `Bootstrap` with that error: the first error short-circuits the wait (spec §4.2), and a `Bootstrap` that waited for every worker would hang here. The members already started stay up; spec §4.2 accepts that as best effort. |
| cluster_clean_live_data | violation | CleanOnlyDeadData | Shutdown's Clean removes the data of an etcd still exiting. |
| cluster_web | pass | ClusterRevives | A web caller by name, a worker and the revive loop on one member, the loop holding `globalCache.mu` across `Revive`. Once the caller stops, a cluster with no active member comes back: a `Restart` refused inside the cool-down, or by a call still in flight, is retried on the next round. |
| status_snapshot | pass | StatusTypeOK, CompleteSnapshot | When Status returns, it has one correct entry per member and a correct error. Whether it returns is not checked: the model leaves out the `pmu` that `IsActive` takes in `Endpoints()`, and a `pmu` left locked by a `Flags` error blocks the real Status for good. |
| status_leak | violation | NoGoroutineLeak | Timed-out sub-query goroutines block forever. |
| stress_err_race | violation | NilMeansAllPut | Stress returns nil although a put failed. |
| kv_calls | pass | WatchPutQuiesces, CallsReturn | Every call but `Leader` returns, and after `WatchPut` no watch is open and no watcher waits, on the error paths too. |
| web_backend | pass | LinesReachReader, RequestsReturn | Two concurrent requests of one user, against the expiry sweep, the poller, etcd output and the readers: every line lands in the channel its reader holds, and every request returns, so `withCache` does not hold the lock across the handler. |
| kv_unnamed_target | violation | UnnamedReachesActive | An unnamed call resolves to an inactive member while another is active. |

Each violation run has its finding in `PROJECT.json`. Other traces seen while building the models:
- The `Flags.String` error return of `Start` and `Restart` leaves `pmu` locked (`node_web_local.go` 120, 190). It is reachable in `cluster_lifecycle`, where the other member's Start then blocks for good; every later call, `Status` and the revive loop would block too. No run states that calls return, since this return makes any such property fail.
- The cool-down of `Restart` can be defeated by a concurrent `Terminate` or `Clean`, which stamps `lastTerminated` after `Restart` copied it. The refinement already fails with one caller (`node_clean_stamp`), so no run isolates this race.
- `Shutdown` drops `Clean`'s error and returns nil, so a data directory whose `RemoveAll` failed survives the command unreported.
- The goroutine that waits on an etcd only logs its exit and never clears `active`. After a Restart, a Terminate and an immediate Start, the new etcd exits on the port still held by the old one. The member then stays active with no etcd, and `Revive` (`proc_cluster.go` 381-384) never restarts the cluster. The Cluster model produced this trace; no run checks it now.
- `okToRequest`'s not-in-map branch is reached when the hourly sweep deletes a user between `withCache` and `okToRequest` (`web_backend` fires it): the request of a user older than an hour is refused although it is the first in a second.
- `stressN = 0` divides by zero (`proc_cluster.go` 841).
- `okToRequest` lets 8 requests through within one second, not the 5 of its comment: the 3 that complete a count begun over a second earlier, the reset, and 4 more. With the sweep deleting the user mid-burst, 4 more. `WebBackend` models it exactly; no run states the bound.

Each property of a passing run has a mutant: a plausible bug in the mapped code
under which TLC finds the property violated.

## Refinement

`NodeLifecycle` states what spec 4.1 promises of a Node with every operation
one atomic step. `NodeWebLocal` defines `NL == INSTANCE NodeLifecycle WITH ...`
and `node_clean_stamp` checks `ImplementsLifecycle == NL!LifecycleSpec`, which TLC finds violated. The mapping:
- `on` is `active`, except that a caller between its launch and its commit
  (`pc` = `StartCommit`/`RestartCommit`) counts as on, and one between the kill
  and its commit (`TerminateCommit`) as off. The commit points are therefore the
  launch, the kill and `CleanCheck`.
- `data` is `dataDir`, read as gone once `Clean` has passed its check
  (`CleanRemove`).
- `sinceT`/`sinceR` are the ages of the stamps, read as 0 while the stamp is
  about to be written. The abstract tick may age any of them, since the clock
  ages a concrete stamp that the mapping holds at 0.

A failed call, a `Flags` error and every step of the processes should map to
stuttering steps, since spec 4.1 updates timestamps only on success and
`AClean` requires an inactive member. `CleanCheck` stamps `lastTerminated`
before it checks `active`, so a refused `Clean` changes `sinceT` where the
abstract Node allows no step: that is the counterexample of `node_clean_stamp`.
A `Clean` whose `RemoveAll` fails does the same.

## Bounds, and why they are enough

- **Members:** two in the node and cluster runs. `cluster_web` uses one: one member already has three goroutines contending for `pmu` (web caller, worker, revive loop), and two members run past the time limit.
- **Pid space:** two pids, so that pids are reused.
- **`LimitInterval`:** one tick. The clock only matters as "inside" or "outside" the interval.
- **Callers:** one web caller in `node_clean_stamp` and `node_stray_kill`, two in `node_double_launch`.
- **Status:** three members, so that successes, errors and timeouts mix within one call.
- **Stress:** `stressN` ≤ 2, which is enough for two puts to race on `err`.
- **Web backend:** one user with two request handlers in flight, so that two requests race on `globalCache.mu`, on `okToRequest`'s count and on one stream. Channels hold one line, so that a send blocks. `Second` is one tick and `Hour` two: the sweep and the limit's window both happen. Two users take the state space past 8 million states, and the user's id is all that `Stream` keys on.
- **KV client:** two members, so that an unnamed name can pick the inactive one while the other is active. Two watchers, so that one can time out while the other takes its event. The names are the members, the empty name and one unknown name.

## Fairness

- **Fair:** goroutine steps (the code never parks a goroutine except on a lock or channel, which the model makes a guard), the exit of a signalled etcd and of one that cannot bind its ports (etcd gives up at once), its reap, the clock, the 5 s timers, and the gRPC sub-queries, which are bounded by their 3 s context.
- **Not fair:** web callers and SIGINT, which come from the outside; and the `/metrics` http.Get, which has no timeout.
- `WebBackend`: a handler's steps once the request began are strongly fair. Go's mutex hands the lock to a starving waiter, and the blocked senders of a channel are served in queue order. Each page reads its stream and the presentation layer drains the shared one (weakly fair). New requests, etcd output, the clock, the sweep and the poller are not fair.
- `Stress` has no fairness; its run checks safety only.
- `KVClient`: the handler's steps after a call began are weakly fair (`BoundedStep`); the dial, the RPCs of `Put`/`Get`/`Delete` and the triggering put are bounded by their timeouts. `Leader`'s `MemberLeader` has no deadline (`context.Background()`), so it gets no fairness and `CallsReturn` leaves `Leader` out. Each watcher's 3 s timer is weakly fair. New calls, members going up and down (`Flip`) and watch events are not fair.

## Assumptions

- `FastShutdown`: a SIGTERM'd etcd exits before the clock ticks. It keeps the state space small and does not hide any of the races.
- A running etcd exits by itself only when another etcd of the same member holds its ports (`PortConflict`), and then it does so promptly. Without that, two etcds of one member could hold each other's ports forever and fill the pid space, which no real etcd does.
- `ClusterRevives` is stated over `active`, which is what `Revive` reads. It assumes the web callers stop at some point: a caller that keeps calling `Clean` keeps the cool-down running, and `Revive` then never succeeds.
- `LaunchMayFail`: `cmd.Start` may fail even with pids to spare (EAGAIN, ENOMEM). It is TRUE only in `cluster_lifecycle`, where `Bootstrap` meets the error; elsewhere a launch fails only when no pid is free.

## Not modelled

These parts are listed in `PROJECT.json` with their reasons:
- NodeTerminal: its methods are not under `src`.
- `NodeWebRemoteClient`: its behaviour depends on an etcd-agent that is not under `src`. Its check, act, commit pattern is the local node's, so `node_double_launch` exposes the same race. Its `Clean` removes data without checking `active` (`part_000` 106-111).
- `Write`'s `NodeTerminal` and `NodeWebRemoteClient` branches, and the sends of the lifecycle operations on `sharedStream`.
- The port-refresh loop: it only calls `ss.Ports.Refresh`, which is not under `src`.
- A bound on `okToRequest`'s rate: `WebBackend` models the limiter, but no run states that at most 5 requests pass a second, because the code lets 8 through (above).
- Keys, values and the contents of responses in `KVClient`.
- `NewCluster`'s flags; only the initial state it builds is modelled.
- `part_001`'s copies of the user cache and limiter: `WebBackend` models the same code from `proc_cluster.go`.

## Open work

- The leak of the `stress` put goroutines once `Stress` returned early, and the division by zero for `stressN = 0`. `Stress` has no passing run: every property of its result found so far is broken by the shared `err`.
- `NodeWebRemoteClient`, with an agent whose RPC may fail before or after it acts. The agent's side is not in the repository.
- The lifecycle operations blocked on a full `sharedStream` while the revive loop holds `globalCache.mu`. `Cluster` has no log streams; `WebBackend` has them but no lifecycle operations.
