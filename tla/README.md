# Swirl, specified and verified

Swirl is a web console for Docker hosts: it manages Compose stacks, Swarm
services, secrets, backups, a federation of Swirls and its own upgrades.  This
directory holds TLA+ models of its stateful parts, the TLC runs that check them
and the TLAPS proofs about them.  Every definition is translated from the Go
source in `src/`; `PROJECT.json` maps each one to its lines.

## 1. Inventory

| Component (source) | State | Operations | Hard behaviour |
|---|---|---|---|
| **Self-deploy sidekick** (`cmd/deploy_agent/{lifecycle,engine,health}.go`, `docker/compose/standalone.go`) | Swirl's containers and their names on the daemon, the deploy context, the phase | stop primary, rename to `swirl-previous`, pull, engine deploy, two health gates, remove the previous container, rollback | any call fails, context ends, agent killed between two calls, next deploy over the debris |
| **Self-deploy coordination** (`biz/self_deploy*.go`, `cmd/deploy_agent/{agent,state_writer}.go`) | `job.json`, `state.json`, `.lock` on a shared volume; sidekick containers; boot watchdog; audit events | TriggerDeploy, reclaimStaleLock, watchSidekickBoot, ResetLock, Status poll, sidekick's flusher and lock release | two processes and several goroutines over plain files; crashes; checks that are stale when acted on |
| **Compose stacks** (`biz/compose_stack*.go`) | stack records, version history, background deploys | Save, Deploy/runDeploy, Start, Stop, Remove, Migrate, Import, RestoreVersion | a detached deploy finishing after a later operation; whole-record writes |
| **Standalone engine** (`docker/compose/standalone.go`) | containers, networks, volumes of a project | deploy, remove, start, stop | partial failure after the teardown; process-wide environment during the parse |
| **Stack secrets** (`biz/compose_stack_secret.go`) | bindings, secret volumes, deployed hashes | hook around container creation, drift check, cleanup | bindings and values edited during a deploy |
| **Vault** (`vault/client.go`, `biz/vault_secret.go`) | cached token, catalog, KVv2 entries | authenticate, read, write (append/replace), clean up versions | read-merge-write, metadata read before the destroy |
| **Backup** (`biz/backup*.go`, `backup/backup.go`) | archives, records with key fingerprints, status cache, schedules | create, verify, recover, delete, restore, scheduled run, retention | key rotation, failures between archive and record, stale whole-record updates |
| **Federation** (`biz/federation*.go`, `biz/host_addon_extract.go`) | peers and tokens on both sides, the extract imported from the other side | create, rotate, rotate-self, revoke, push, edit | lost answer of a rotation, read-merge-write of the extract |
| **Hosts and clients** (`biz/host.go`, `docker/{host,docker}.go`) | host records, cached clients | create, update, sync, delete, boot | background sync after an edit or a delete |
| **Sessions, users, roles** (`security/{auth,perm,keycloak}.go`, `biz/{session,user,role}.go`) | sessions with cached permissions, dirty flag | sign in, identify, refresh, renew, edit | stale permissions |
| **Settings** (`biz/setting.go`, `biz/registry*.go`) | stored settings, shared in-memory copy, link to a registry | save with masked secrets, refresh, registry edits | overlapping saves, dropped errors |
| **Persistence** (`dao`, `dao/bolt`, `dao/mongo`) | sixteen collections on either engine | create, update, field updates, search, prune | two engines that should not differ |
| **Autoscaler** (`scaler/scaler.go`) | replicas of labelled services | scale up and down | bounds of unsigned replicas |
| **Image mirror** (`compose_stack_image_mirror.go`, `..._rewrite.go`) | none | rewrite, mirror, warm | partial mirror |
| **Web UI progress** (`ui/src/composables/useAutoDeployProgress.ts`) | polling phases | poll, gate, reload | the old server's answer taken for the new one's |
| Compose loader, addons, Swarm APIs, metrics, HTTP routing, presentation | none of their own, or one daemon call per operation | — | stateless |

How they interact: the primary Swirl spawns the sidekick and shares `/data` with
it (files only, no messages); the sidekick calls the same standalone engine that
deploys Compose stacks; the engine calls the secrets hook around each container;
stacks and the container, image, volume and network operations ask the hosts for
a Docker client; a portal's host record carries the token of a peer user of the
target, and its registry cache is pushed into the target's settings; the backup
key comes from Vault; everything stores its records through `dao`, one call at a
time and without transactions across calls.

What makes each of them correct: the **sidekick** never leaves the host without a
Swirl container that serves, and what it reports is what it leaves; the
**coordination** admits one deploy at a time, gives the lock back and never
leaves a job pending; a **stack**'s status and host are true of its containers
and its history can undo every save; a **secret** reaches every service of a
deploy alike and leaves with the stack; **backups** open with the key their
record names, a restore is complete and retention keeps the newest; a replaced
token or revoked **peer** never comes back and imports are not lost; a **host**'s
client and status belong to its endpoint; a **session** is bounded and follows
the edits of its user; **settings** track the linked registry, in the store and
in memory, and keep their secret; both **engines** do the same.

## 2. Plan

The order was what would hurt most: the upgrade of the program itself
(`DeployAgent`, `SelfDeploy`), the operation users run all day (`ComposeStack`),
what holds or hands out secrets and data (`Backup`, `BackupRestore`,
`StackSecrets`, `Settings`), who is let in (`Access`, `Federation`), which daemon
is reached (`Hosts`), and the ground all of them stand on (`Dao`, shown to
implement the abstract `Store`).  A run asks one question under all the faults that
bear on it; each property names the mishaps the code cannot survive and
excuses no others.  What is still worth doing is in section 6.

## 3. The modules

Each `MCx` module gives `x` its finite instance; `x.tla` has the state, one
action per step, the properties and the plausible bugs (last section of
definitions before the properties, or beside the definition they vary) that
`PROJECT.json` names as mutants.

### DeployAgent (`cmd/deploy_agent`)

One action is one call of the agent to the Docker daemon, together with what the
agent does with the answer; `pc` names the next call.  `st` and `name` are the
daemon's view of the Swirl containers, `peer` the rest of the stack (mongodb),
`net` the project's network.  The sequence is `runDeploy`'s: `Begin`,
`StopPrimary`, `ProbeStale`, `RemoveStale`, `RenamePrimary` (or
`RestartPrimary`), `PullImage`, the engine's deploy (`Teardown`, `CreatePeer`,
`CreateNew`, `StartNew`), `GateA` (`/api/system/ready`), `GateB` (HEALTHCHECK),
`RemovePrevious`; then `RbClean`, `RbLeftover`, `RbRename`, `RbStart`,
`RbHealth` for `rollback`.

Every call may fail, those that change the daemon also after having taken effect
(the answer was lost, or the context ended meanwhile); a call succeeds only while
`ctx`, the deploy's context, is live, because the code hands this one context to
every call.  The environment may end the context, kill the agent between any two
calls, let a container exit, start the next deploy over what the last one left,
apply the documented repair (`ManualRollback`) and start any container again under
whatever name it has (`StartAgain`).  Which images serve (`good`) is chosen
initially.

`astray` remembers how the job's primary came by the backup's name: "left" by a
`RenamePrimary` that took effect although its call failed, so that the primary is
started again as `swirl-previous` and the verdict is failed; "begun" if that Swirl,
or one started by hand under that name, triggers the next job.  That job removes
it as the stale backup (`RemoveStale`), and neither its rename nor its restart finds
a container: the one case in which the host may be left without a Swirl.
`NeverContainerless`, `BackupUntilHealthy` and the failed clause of `VerdictMatches`
except a job that is "begun" and no other; without that premise TLC shows the case
at once (section 4).

`rbFault` remembers that a rollback call failed that could have succeeded: it is the
excuse two properties name.
`HasPeer`, `PortPublished` and `ProjectNetwork` describe the stack Swirl is
deployed with; the proofs hold for each combination, the run takes a Swirl alone.

### SelfDeploy (`biz/self_deploy*.go`, `cmd/deploy_agent/agent.go`, `state_writer.go`)

One action is one access to a file of the shared volume, to the daemon or to the
event log.  `lock`, `jobFile` and `state` are the files; `side`, `spc` and `mem`
a sidekick's container, process and in-memory state; `tpc` and `seen` the
threads of the primary and the copy of `state.json` each works from.  A job's
thread is its `TriggerDeploy` call and then its watchdog; the boot hook,
`ResetLock` and the Status poll have one each.  `reclaimStaleLock` is five
actions shared by its three callers.  The work between two phases is
`DeployAgent`'s and appears here as `EnterPhase`, `StopPrimaryOf`, `Conclude`.
`DeployAgent` names its specification and types `AgentSpec`, `AgentTypeOK`, ..., so
that one module of proofs may extend both.

`Faults` says what a run lets happen: handlers overlapping (`overlap`),
`ContainerInspect` failing for a live sidekick (`inspectFails`), handlers between
a verdict and the sidekick's exit (`slowEnding`), a boot slower than
`sidekickBootTimeout` (`slowBoot`), `spawnFails`, `crash`, `primaryCrash`.

### ComposeStack (`biz/compose_stack.go`, `compose_stack_version.go`, `docker/compose/standalone.go`)

One stack.  `rec` is its record and `versions` its snapshots; `there`, `runs` and
`vol` are what the daemon of each host has for the project; a `Handler` serves an
API call step by step (`req`), a `Deployment` is a `runDeploy` goroutine (`job`),
which outlives the call.  The actions of "The calls" admit a call with the
handler's own guards; each following action is one database access or engine
call: `Snapshot`, `AddVersion` (create and prune), `Update`, `Client`,
`MarkDeploying`, `Spawn`; `Preflight`, `TearDownOld`, `Prepare`, `CreateNext` (one
service), `Report`; `ListForStart`, `EngineStart`, `SetStatus`, `Guard`,
`Teardown`, `CannotList`, `Drop`, `Flip`.  `alive` stands for the identity of the
record a caller works for: status writes by id hit nothing once it is removed.

Any call may fail (`daemonFails`); the failures the code discards are *mishaps*,
remembered in `mishaps` so that each property can name the ones it excuses and no
others.  `ours` remembers on which hosts the containers are Swirl's.

### StackSecrets (`biz/compose_stack_secret.go`, `biz/vault_secret.go`, `vault/client.go`)

The bindings (`row`), the catalog's field (`entry`) and the Vault versions (`kv`,
`destroyed`) against a deploy: `BeginDeploy` builds the hook, `Resolve` reads each
binding's value once, `Teardown`, `Populate`, `Create`, `MarkDeployed` and `Start`
are the engine's calls of the hook per service.  Beside it run the binding form
(`OpenForm`, `Upsert`, `Delete`), `Replace`, the append's two halves
(`BeginAppend`, `AppendValue`), the version clean-up's two (`BeginCleanup`,
`Destroy`) and `StopStack`.  `want` is the ghost of what the operator saved last;
`raced` and `touched` are the bindings a property excuses.

### Backup, BackupRestore (`biz/backup.go`, `biz/backup_crypto.go`, `backup/backup.go`)

`Backup` is about keys: `vault` and `cached` the passphrase and its cached copy,
`blob`, `listed`, `fp` the archives and their records, `status` the cache that
`List` decorates from, `lock` the per-id mutexes, `job` the handlers.  Create,
Delete, Verify, VerifyAll and Recover are split where they touch something
shared.  `torn` holds the archives whose Recover or Create was crossed by a
rotation or a fault, `stale` those whose status was noted under another key than
the cache is pinned to.  `BackupRestore` is about content, record by record: the export
reads the components one by one; a restore goes through its selected components in
order and of each lists the records it deletes (`List`), deletes them one by one
(`Wipe`) and writes the archive's one by one (`Fill`), while other handlers and
another restore write too.  Components are not alike, and the constants say how
each record is treated: `Exported` is what an archive takes (no built-in charts, and
no events, which only a hand-made archive can hold), `Wiped` what a restore deletes
first (also no settings, which it only updates).  A create of a record that is there
may fail, as on Mongo, or replace it, as on Bolt.  `Expected` is what a restore
promises of a record; `mixed` are the records somebody else wrote during it.  An API
client may give a backup any source (`api/backup.go:100-111`); here it is manual or
scheduled, as the UI and the scheduler have it.  The scheduler decides (`ShouldRun`),
exports, stores, marks (`Touch`) and applies the retention.  What one step is in
`BackupRestore` (storing an archive with its record) `Backup` opens up.

### Federation (`biz/federation*.go`, `biz/host_addon_extract.go`, `security/federation_proxy.go`)

`user` is the target's peer users, `host` the portal's record (token, extract,
automatic rotation), `job` the requests in flight, `rot` the rotator, `retired`
the replaced tokens.  `CreatePeer`/`WriteExpiry`, `RotateToken`/`WriteToken`,
`RotateSelf`/`ReplaceSelf`/`Answer` and `Revoke`/`UserDelete` are the read and the
write of each flow; `LoadUser`/`SaveUser` those of the user page and of the profile,
which write back the whole token list they were loaded with (`api/user.go:71-92`,
`biz/user.go:131-136`, `:199-204`); `ReadExtract` and
`UpdateAddonConfigExtract`/`ClearAddonConfigExtract` those of an extract edit; a
request or its answer may be lost.  `Edits` are the kinds of an edit: a file
("upload"), lists without a file, which replace the imported ones (`Drops`), an
attestation ("applied") or none of these ("plain").  `early` and `revived` are the
peers whose token such an outdated write brought back, by `CreatePeer` or by a page.
A peer has one token: those added or taken away by hand in the page are left out.

### Hosts (`biz/host.go`, `docker/host.go`, `docker/docker.go`, `biz/hostop.go`)

`rec` the host records, `client` the cached clients by the endpoint they talk to,
`job` the handlers and the probe of the boot.  `syncHost` runs with the endpoint
it was called with; `Preflight` caches a client and `DockerCall` looks it up
again, falling back to Swirl's own daemon.  `ContainerOp`, `LifecycleOp`,
`ImageOp`, `VolumeOp` and `NetworkOp` are the operation families and differ in
how they resolve the host and how many calls they make; `EnsureLocal` runs at
every boot.  `mixed` holds the hosts an edit or removal overlapped other work on.

### Settings (`biz/setting.go`, `biz/registry.go`, `biz/registry_cache.go`)

The one setting with both a secret and a link: `blob` is stored, `live` its copy
in memory, `reg` the registry catalog, `pc` and `job` the requests.  `Save` is
`Preserve` (read the stored secret), `Overlay` (read the linked registry), `Put`,
`Reload`, `Install`; a registry update ends with `refreshLinkedRegistryCache`, a
`Save` of the live copy.  `drift`, `stale` and `blind` are ghosts of what may be
out of step; an undisturbed request mends the first two.  Of the checks of
`validateRegistryCache` the host name of an enabled cache is kept, whether the cache
is enabled being left open; port and rewrite mode have no part in the properties, and
`Conn` stands for connections whose URL parses.

### Access (`security/auth.go`, `security/perm.go`, `biz/user.go`, `biz/role.go`)

`user`, `role` and `session` rows on either engine; an edit answers first and
marks the sessions from a goroutine (`marks`, `pulls`).  A request is identified
(`IdentifyBySession`, `IdentifyByToken`, `SignIn`, `LdapRealm`, `FindByName` and
`ResolveUser` for Keycloak), refreshed by one read after another (`FillSession`,
`GetPerms`, `UpdateSession`), renewed and served.  `BoltSessionUpdate` and its
peers are the two engines' ways of writing a session, which differ.

### Dao, Store (`dao/bolt`, `dao/mongo`)

`Dao` runs both engines side by side under the same calls: `coll` is the
collection under consideration, each engine's functions for it are records of
operators (`BoltHost`, `MongoHost`, ...), `copy` what a handler read earlier and
writes back.  `Store` is the abstract promise: ids are not reused, no save and no
stale write-back changes the creator or another flow's field or blanks a stored
secret.  `BoltStore` and `MongoStore` are the refinement mappings.  Searches are
operators over the rows: `Part` says which words a name contains, as Bolt's
`strings.Contains` has it (`bolt/vault_secret.go:72`), and `Hits` which match it as
regular expressions, as Mongo's unescaped `$regex` in the search of the vault has it
(`mongo/vault_secret.go:57-58`); the two agree on `Plain` words only.  `BoltSort` and
`MongoSort` say by what each engine sorts: charts by date on both, events by time on
Bolt and by id on Mongo.

## 4. The runs

| Run | Instance | Shows |
|---|---|---|
| `agent` | 3 containers (2 deploys after the first), a stack of Swirl alone; every call may fail | a container that serves survives, verdicts are true, no two Swirls run, rollback gives up only after a failed call; with fairness every job ends |
| `protocol` | 2 jobs; spawn failures, deaths of both processes, slow boots; handlers take turns | one deploy at a time, files that describe it; with fairness the lock is given back and no job stays pending |
| `overlapping_triggers` | 2 jobs, overlapping handlers | **violated** `OneDeployAtATime`: the second trigger reclaims the first one's lock before its sidekick runs |
| `stacks` | 2 hosts, 2 contents, 2 services, 1 handler, 1 detached deploy, retention 1, every fault, 1 mishap | status, containers, history and record agree up to what that mishap excuses |
| `stack_secrets` | 2 services, 1 binding in 3 forms, 2 fields, 3 Vault versions, 2 edits, 1 failure | services of one deploy agree, drift answers are true, edits survive, nothing is left, an append keeps the other fields |
| `backup_archives` | 2 handlers, 2 passphrases, 2 archives, 1 rotation, 1 failure | nothing is resurrected, fingerprints and listed statuses tell the truth |
| `backup_restore` | 1 handler beside the scheduler; a setting, a built-in chart and one that is created in the run; 3 archives, 2 days, 1 edit, 1 deletion, 2 failures | a reported restore has done to each record what it promises, the newest is kept, one run a day |
| `access` | 1 user, 1 role, 1 session, 2 edits, 3 ticks, both engines | no session outlives its grace, edits reach the sessions |
| `dao` | 2 ids, 2 names of which one contains the other, a plain search word and one with a meaning to regular expressions, 4 calls, every collection | the engines end alike, searches agree, both implement `Store` |
| `hosts` | 1 host besides `local`, an editor, a reader and the boot's probe, 1 failure | clients and statuses belong to the endpoint, operations reach their host |
| `settings` | 1 registry, 2 requests, 2 connections, 1 password, 1 failure | blob, live copy and registry agree at rest; the secret survives |
| `federation` | 1 peer, 2 requests and the rotator, 3 tokens, or 2 and 1 lost message or failed write | replaced tokens and revoked peers stay out but for the two outdated writes named, an opted-out host keeps its token, imports survive |

**Why the bounds are enough.**  Three containers are the primary, its
replacement and the next deploy's, so that a stale `swirl-previous` meets a new
rename; a container is used once, deploys that create none are unbounded.  Two
jobs are two triggers of which one finds the other's debris in any state.  Two
hosts are a source and a target; two contents distinguish replaced from new; two
services make a deploy fail halfway; retention 1 with two revisions makes pruning
happen at once.  One mishap or failed call at a time is the strength of the
promise: each property holds with any one of those it does not excuse.  Two
handlers are a pair of racing requests, and `Sole` of `SettingsProofs` shows why a
third adds nothing there: what matters is whether a request is alone.  Two
archives are one from before fingerprints and one made in the run; three in
`BackupRestore` are the one there, the one retention lets it go for, and one more by
a user or a run repeated.  Its records are one for each way a restore treats what it
meets: a setting, which stays or is overwritten, as an event would be; a chart, which
is replaced if the archive has it and goes if not; a built-in chart, which stays.
The other writer is an edit; that overlapping restores disturb each other no more than
edits do is in the proof, which has any number of handlers.
Three tokens are the first, its replacement and one replaced before it was stored; a
lost message takes the place of the third, so that the run stays small, and leaves a
rotation to fall before or after it.  In `dao`
four calls are a create, a read, a foreign write and the stale write-back.
Symmetry is declared only where no liveness is checked and the permuted values
are interchangeable at first.

**Fairness.**  `DeployAgent!AgentFairSpec`: a live agent process keeps calling, each
call and wait having a deadline in the code; the environment owes nothing, so a
deploy may also be killed, which is one of `JobEnds`' outcomes.
`SelfDeploy!FairSpec`: threads of a live primary and live sidekicks run on
(strong fairness for the primary's because the model makes them take turns), and
a primary that is down is started again by its restart policy, by the sidekick or
by the operator; nobody is obliged to trigger, poll or reset.  The other modules
have safety properties only: their requests end when the code's do.

`CHECK_DEADLOCK` is off in `access` and `dao`, whose clocks and call budgets run
out, and in `agent`, where a job begun under the backup's name may leave no Swirl
that could do anything; in every other model something is always possible.

### The reported disagreement

`overlapping_triggers`: `self_deploy_job.go:273-279` says that a racing second
caller never kills the lock under a real sidekick and that the function is safe
to call concurrently.  It reads three things in three steps and acts on the last.

### More disagreements met while modelling

Each of these is a difference between the code and its own comments, documents or
sibling engine; the models follow the code, and where a property would be broken
it names the exception.

*Self-deploy.*  `lifecycle.go:18-19` says that the old container is never removed
until the new one is fully healthy.  A rename that fails after it took effect
(`lifecycle.go:89-92`), or a start of `swirl-previous` by hand after a kill, leaves a
serving Swirl under that name, and the next deploy from it takes it for a stale
backup (`lifecycle.go:235-242`): drop the premise `astray # "begun"` of
`BackupUntilHealthy`.  Rollback removes the stack's other services and networks
(`standalone.go:632`) and recreates none, against `docs/self-deploy.md:300-303`:
set `HasPeer` and drop that premise of `RecoveryOnlyOnFault`.  A deploy that times
out cannot be rolled back, its context is over (`lifecycle.go:97`,
`docs/self-deploy.md:298`).  Rollback probes `127.0.0.1` (`lifecycle.go:386`) where
the gates resolve the container.  The watchdog's verdict may replace the
sidekick's (`self_deploy.go:757-787` against `state_writer.go:185-186`).  Every
`ContainerInspect` error counts as a dead sidekick (`self_deploy_job.go:319`), and
a sidekick removes whatever lock it finds after its verdict is readable
(`agent.go:115-117`).  A failed spawn is audited twice, a terminal event is
published again if the primary dies between publishing and marking it.

*Stacks.*  The volume list carries no usage data, so the confirmation for data
(`compose_stack.go:55-57`) is never asked (`standalone.go:688-703`).  Deploy, stop,
migrate: the detached deploy creates containers on the old host
(`compose_stack.go:991-999`).  Removals ignore the daemon's errors
(`standalone.go:808` against `compose_stack.go:666-669`).  Concurrent saves take one
revision twice or lose a content between; after a crash or a lost last write a
stack says "deploying" for ever; Import writes "active" whatever runs.

*Secrets and Vault.*  `markDeployed` writes back the captured row, so an edit during
a deploy is undone (`raced`).  The drift check reads the catalog's field, the hook
the binding's.  Two appends have no check-and-set.  A stop during a deploy removes
the secret volumes under it.  The client's token cache is cleared by a 403 and
keyed by settings that are overwritten in place (`setting.go:239`).  Vault secret
names are unique on Mongo only (`vault_secret.go:136`), and searching them takes the
word for a regular expression on Mongo only.

*Backup.*  On Bolt `BackupUpdate` upserts: a Verify racing a Delete brings the record
back.  After a rotation and back, cached statuses are listed for the wrong key
until they are recomputed (`backup.go:262-264`, `:756`).  The cached key skips the
length check of the passphrase.  Host exports drop fields, and events are never
exported although `docs/backup.md:3` and `:125-137` list them.  A failed scheduled run is not retried the same day; a
scheduled backup taken during a restore may be the one retention keeps.  A
restore bypasses the live settings and the host clients.

*Settings.*  A failed read of the stored secret stores the mask itself
(`setting.go:161`, ghost `blind`).  Overlapping saves bring back a rotated secret;
errors of the refresh are dropped.  The overlay keeps the old password when the
new registry has none, which its comment says is discarded
(`registry_cache.go:101-104`).  A failed registry read silently unlinks.

*Federation and hosts.*  `CreatePeer`'s second write brings the first token back
when the peer was rotated in between (`early`), and a user page or profile saved
after a rotation brings back the token it was loaded with (`revived`).  After a rotation the token's
expiry is decoded as a time although it was encoded as a number
(`federation_rotator.go:172`, `entity.go:34-36`): the answer is taken for a failure
while the peer's token has changed, and the portal is locked out.  On Mongo a
rotation of a revoked peer answers a dead token.  The proxy drops the headers a
WebSocket upgrade needs.  On Bolt a host form reverts the extract.  `isFederationPeer`
looks for its prefix in the display name.  A client cached between an edit's
write and its removal stays; an operation whose client is removed after its
preflight runs on Swirl's own daemon.  `EnsureLocal` may delete a `local` that
stacks refer to.  The summary asks for a client before any host has one
(`docker/docker.go:110-116`, `api/system.go:115`).

*Access and persistence.*  On Mongo `SessionUpdate` and `SessionUpdateDirty` carry no
`$set` and Bolt's `SessionUpdate` uses the user's id as key, which is why
`ChangesReachSessions` speaks of Bolt.  A sign-in that overlaps an edit stores an
unmarked copy of the old permissions.  Blocking or deleting a user leaves its
sessions; tokens ignore the blocked status.  Bolt's `find` leaks fields from row to
row; Bolt creates and updates are upserts where Mongo reports; Bolt's stack update
writes bucket `role`; Mongo's chart update omits the options; pruning on Mongo
races a write.

*Autoscaler.*  `Start` returns when there *are* checkers (`scaler.go`), so nothing is
ever scaled.

## 5. The proofs

TLAPS proves these for every value of the constants; each module below holds the
lemmas too.

**`DeployProofs`** is about both halves of a self-deploy.  Of the agent it assumes
`First \in Container` and Boolean flags.
`NeverContainerless` is not inductive: it needs to know *which* container
survives.  `IndInv` adds that whatever bears the backup's name serves and is alone
(`BackupNamed`); that the running job's primary exists, serves and bears that name
exactly while the job is past its rename or restarts after one that failed with
effect (`PrimaryKept`); that a job begun under that name has a primary until it
removes it, and ends at its rename (`EndsBeforeRename`), so that no later step is ever
reached without one; what the new container's name is (`NewNamed`); and that past
gate A some new container has answered (`GatePassed`).  The theorems state the one
exception of the properties, `astray = "begun"`, and no other.  With `RunsAlone` (nothing runs between stop and
start) the same invariant gives `OneSwirlRuns`.  `BackupStep` and `RunsStep` have
one case per call.  `Invariant`, `ContainerKept` and `RunAlone` follow, and from
the invariant the action properties `BackupKept`, `VerdictTrue` and
`RollbackRestores`.  The last one needs that the container a rollback renames back
is the job's own and that its name is free when it gets it back (`CanGoBack`,
`GoBackStep`).

Of the coordination it proves `TypeCorrect` from the three assumptions of the
module, for any jobs and faults, and both safety properties, `OneDeploy` and
`FilesNameDeploy`, under `TakeTurns`: three of the seven faults, `overlap`,
`inspectFails` and `slowEnding`, do not happen.  With any of them the code admits a
second deploy (section 4 and `MCDeployOverlap`), so the hypothesis is the code's own
limit; crashes of either side, a failed spawn and a slow boot are all allowed.
`LockInv` says that one thread at most is between a check and what it does about it
(`Solo`), what the lock, `job.json` and `state.json` say while a sidekick is starting
or at work (`Sidekicks`), and of each thread what the copy it took still tells it
(`ThreadOK`).

**`ComposeStackProofs`** proves `TypeCorrect` and `ShapeKept`: the types alone are
not inductive, since `Flip` and `Update` write back a copy of the record that an
external call does not have; `CallShape` and `JobShape` say which operation can be
at which step and that whoever works for a live record finds one.  These hold for
any number of overlapping handlers.  `NothingOrphaned` proves `NoOrphans` assuming
`OneCall` (calls are served one at a time, as in the run): while no removal leaked
and no call came during a deploy, every request and job on the managed stack acts
on the host its record names, at most one deploy is in flight and no request
beside it, and a record moves or goes only after a teardown that left nothing
(`Tracked`, `HostsTracked`).  Three more theorems stand on the same hypothesis:

- `SnapshotsNumbered` (`RevisionsUnique`): while no listing failed, a request about
  to create a snapshot holds a revision above every one stored (`RevisionsApart`);
  pruning only removes, a deploy in flight never writes versions.
- `OverwritesCanBeUndone` (`HistoryKeepsOverwritten`): a request past its snapshot
  either changes no content or the content it will replace is the newest snapshot
  (`Recorded`); that the prune spares it needs that the newest outlives every prune
  (`NewestOutlives`), which uses the cardinality theorems.
- `StatusBelieved` (`StatusTruthful`): while there is no mishap, `Told` says what is
  true at rest (`Truth`), that a host's containers run all or none once a call is over
  (`Even`), and of a request or a deploy under way what its engine calls have already
  made true and its status write will say (`CallTrue`, `JobTrue`).  It also assumes
  that no project that does not fully run is imported (`importStopped`), as the run
  does: Import calls it active all the same.

**`StackSecretsProofs`** proves all five properties of its run besides the types, for
any services, bindings, payloads and numbers of deploys, edits and faults.
`SecretsAssumption` says that `None` and `Mounted` are none of the values they stand
beside and that form and service lists are what they are used as.  `SecretsInv`
follows a deploy: what the hook captured is the row, unless the operator edited it
since, and then the binding is `raced` (`Captured`, `EditsKept`); each container made
so far sees what was resolved for it (`Alike`), directly or through the volume its
binding fills; after the last one exactly the bindings that apply are seen
(`DeployExact`); and the hash recorded with a row is that of what runs (`RowsTell`).

**`SettingsProofs`** proves all three properties of `Settings`, for any number of
overlapping requests, registries, connections, passwords and failed calls.
`SettingsAssumption` says that `None`, `Gone`, "" and the mask are none of the
values they stand beside.  The argument is about who is *disturbed*: `Sole` (a clean
request is the only one at work) and `Undisturbed` (while one of the ghosts says
that all is well, everyone at work is clean) make `Together`: of two requests at
work neither is clean.  `LiveInv` then needs to look at one request only, the one
between its reload and its install.  `LinkInv` says of each step of a request what
it may rely on (`LinkOf`): what a clean one is about to write is linked, what it
wrote is linked, a registry to be erased is not the live link.  `SecretInv`
(`SecretOf`) says that the mask stands only for a secret that is there, and that
after the read nobody carries it.  `BeginX` and `WorkX` reduce each of the fourteen
kinds of step to the request that takes it.

It also proves both properties of `Access`, the other half of who may change what,
whose state has names of its own (`AccessInit`, `accessVars`, ...) so that one module
may extend both.  `AccessAssumption`: an id of a user is no token, `Nil` is none of the
values it stands beside.  `Timely` gives `ServedInTime`: no stored session expires
after the end its sign-in set, every request that found a session carries that end
(`Dated`), and a sign-in's token is nobody else's (`Unborn`).  `ChangesReachSessions`
needs `RowsReached`: on Bolt each stored copy is marked, about to be marked, without a
user, or answers as the stored users and roles do (`Caught`, `Fresh`), unless its
sign-in overlapped an edit; and `ReadRight`: what a request that no edit overlaps has
read so far is what is stored.  Creating an account keeps this only because nobody has
its id yet; for a Keycloak sign-in, which looks first and creates later, that is
`Resolving`.  An edit has to mark what depends on it (`Marked`, `EditTurn`); the
refreshed copy itself plays no part, as Bolt stores it under the user's key.

**`FederationProofs`** proves the four properties of its run, for any peers,
overlapping handlers, tokens and faults.  `FederationAssumption` says that the marks
for no peer and for a revoked one are different and no tokens.  `TokenInv` follows the
tokens: each was generated for one peer (`Issued`), two requests never hold the same
one to write (`Held`), what a rotation holds was in use by nobody yet (`Fresh`), and
what `CreatePeer` writes a second time is its peer's still unless that peer was
rotated early (`Again`), and what a page will write back is the token its peer has or
had, and nobody else's (`Paged`).  A revoked peer is safe because every later write is an
update of a user that is gone.

**`HostsProofs`** proves both properties of its run.  `HostInv` says of a handler
which host it may name and which steps belong to its operation (`JobOK`), what it may
rely on unless an edit overlapped (`Honest`), that two requests on one unmixed host
do not write (`Apart`), and of a host that its client and status are the record's but
for the `Update` that still has to drop or probe (`ClientOK`, `StatusOK`).  `Local`
reduces a step to its handler and its host.  `HostsSettle` assumes the engine is Bolt:
on Mongo the save of a host whose record is gone is no error and leaves a client
behind.  `LocalInv` (whoever works on the local host spares it, unless a failed read
hid that it is immutable) gives the action property `LocalStays`; `BootSettlesLocal`
follows from the types.  These two are proved without a run of their own.

**`BackupProofs`** proves the three properties of its run, that a record has its
archive and that the mutexes are held one each; the run has one rotation, the proof
any number.  `BackupInv` needs to know which archives nobody can have heard of: those
not made yet and the one a Create is about to record (`Numbered`, `Unlisted`), for
which the number of Creates at their write bounds the ids (`Reserved`); hence
`Proc` is assumed finite.  `Sealing` says what a handler that did not see the key move
may rely on: the archive it has just written is under the master key, the fingerprint
it read or the verdict it reached is true of the archive, unless a Recover works on
it (`Under`).  `Pinned` says of a cached status that it is true of the key the cache
is pinned to, which is what makes `ListedTrue` hold after rotations.  `Quiet` and
`Local` reduce a step to its handler and its archive.

It also proves the three properties of `BackupRestore`, whose state has names of its
own (`task`, `RestoreInit`, ...) so that one module may extend both.
`RestoreAssumption`: finitely many handlers, a non-empty order of components, a
retention of at least one.  `OncePerDay` needs `MarkOnce` (on a marked day a run is
on its way to its mark or has left it), `RestoreExact` needs `RestoredSoFar` (each
record nobody else wrote stands as it was, deleted or written according to the place
its component and its step have reached, `Settled`, and the lists are of the current
component, `InOrder`), `NewestKept` needs `Spared` (a newer
archive is not on the list retention works off; that a set of archives has a newest
one, `Greatest`, rests on the well-foundedness of the naturals).  `Room` (an export
under way has its number reserved) bounds the archives.

**`DaoProofs`** proves the four properties of `Dao` and its types, for any numbers of
ids, names, search words, handlers and calls.  `DaoAssumption` says that there is at least one id,
that a name contains itself, as `strings.Contains` has it, that a plain word matches
where it occurs, and that the mark for a missing row or copy is none.  Each collection is looked at once: `UserUpdated` and its
peers show that an update changes one row on each engine, to alike rows if they were
alike (`Updated`, `Replaced`), and `EditRows` that this is all a call may do besides a
create or a delete.  The rest is said once for all collections:

- `EnginesAlwaysAgree` (`EnginesAgree`) is not inductive: copies read before a foreign
  write are written back whole.  `EnginesInv` adds that what a handler read is alike
  on both engines (`PairedCopies`), and of backups, whose update brings a deleted row
  back on Bolt only, that an id in use is on both or on neither and that a copy of it
  was made by the same call (`Backed`, `Stems`).  The excuse is a name given away
  twice (`dup`), which only a collection with unique names can have.
- `BoltAlwaysImplements` and `MongoAlwaysImplements`: every call is a step of `Store`
  or a stutter (`StoreStep`), from the types alone, since what `Store` forbids is a
  matter of which fields each function writes; the collections that are left out
  show `Store` an empty table, which only stutters.
- `SearchesAlwaysAgree` (`SearchesAgree`): the order of an answer is strict and total,
  so the number of rows ahead of one (`Ahead`) is its place and every place is taken
  (`OrderLists`, from the cardinality theorems); a page is an interval of places
  (`InPage`), every place is on a page (`OnePage`), on one only (`PagesApart`); and on
  agreeing rows one order lists the same on both engines (`OrderSame`), which is what
gives charts the same pages.  That Mongo finds nothing else needs the word to be plain
when the vault is searched.  `Order` is defined by rank, not
  by a sort, for the sake of this argument.

Every safety property, action property and refinement that a passing run checks is
thereby proved, under the hypotheses named above; what is only model-checked is
liveness (`JobEnds`, `LockReturned`, `PendingResolves`), which the prover does not
reach, nor ENABLED.  Induction over data and RECURSIVE operators are out of its reach
as well; no module here uses either.

## 6. What is not modelled

- Message texts, logs and progress; validation of compose files; the history files
  the sidekick rotates; addon injection; error messages stored in a record; two
  stack records with one project name; several handlers on one stack (what goes
  wrong then is listed above).
- Networks, dependency order and waiting of the engine are one step or an order
  `1 .. Services`; the process environment during the parse is left out.
- Vault's authentication and token cache; settings without a secret or a link; the
  daemon's own work behind an operation of `Hosts`.
- The autoscaler, which never starts; the UI's polling loop; image mirroring.
- Stateless parts: YAML translation, thin Docker pass-throughs, read-only views,
  identity servers, presentation.
- The database: one call is one atomic transaction.  Writes by two Swirl
  processes on one BoltDB file are excluded by its lock, on MongoDB they are not
  considered.
