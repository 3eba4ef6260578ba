# hideck: a TLA+ model of its concurrent core

hideck is a Go service that runs a rack of cellular modems: it shares each
modem's SIM card between APDU users, switches eSIM profiles, keeps VoWiFi,
VoLTE and modem voice runtimes alive, places calls, sends and receives SMS,
runs automations, and archives messages, calls and recordings to WebDAV. This
directory holds the specifications of the parts whose correctness depends on
interleavings, timeouts, crashes and limits, the TLC configurations that check
them and the TLAPS proofs about them. `PROJECT.json` lists components, runs,
mutants, the map from definitions to source lines, findings, hazards and
theorems.

## Inventory

### The parts and how they meet

* A **device pool** (`internal/device`) owns one worker per modem. It calls
  every other part: it asks the APDU arbiter for the card, drives the VoWiFi
  host, runs eSIM switches and reboots, and charges the outbound limiter before
  it sends or dials.
* The **APDU arbiter** (`internal/apduarbiter`) stands between everybody who
  talks to the card: eSIM management, VoWiFi's AKA authentication, SMSC access,
  identity probes. An eSIM switch raises a *barrier* on it. Its **SIM
  authentication gate** tells VoWiFi when the card answers again after a switch
  or a modem reset.
* The **VoWiFi host** (`internal/vowifihost`) starts and stops the IMS runtime
  of a device. Its commands come from HTTP handlers, the reconcile loop, the
  runtime's own failure events, the eSIM switch and modem reconnects.
* The **phone service** sits on VoWiFi, VoLTE or modem voice and produces call
  rows and recordings; **SMS** rows come from every transport. The **WebDAV
  archive** reads both, and deletes them.
* An **eSIM switch** is the busiest meeting point: `esim.Manager` sends the card
  commands, the pool's callbacks tear VoWiFi down before and restore identity,
  policy, VoWiFi and radio afterwards, while status pages, the recovery loop and
  policy tasks go on.
* The **MBN service** (`internal/mbn`) writes carrier profiles to the modem and
  reboots it, through a session on the pool's worker.
* The **outbound limiter** is consulted by every way to send or dial, and keeps
  its history in SQLite.

| Component | Source | State | Operations | What is hard | What must hold |
|---|---|---|---|---|---|
| APDU arbiter | `apduarbiter/arbiter.go` | queue, active sessions, oneshot, transports, barriers, lease timers, broadcast channel `notifyC` | `AcquireTransport/Session/OneShot`, `BeginBarrier`, `Touch`, `Release`, watchdog, `WaitIdle` | queue order changes with time; watchdog races `Touch` and `Release`; waiters sleep on a channel that is replaced at each signal | leases that cannot share the card never meet; nobody sleeps through a grant; a barrier's holder is not locked out by its own barrier |
| SIM auth gate | `apduarbiter/simauth_ready.go` | generation, ready, probing, channel | `WaitSIMAuthReady`, `InvalidateSIMAuthReady` | an invalidation overtakes a probe | one probe at a time; no result from before the invalidation counts; callers return |
| VoWiFi lifecycle | `vowifihost/*.go` | per device: generation, invalidation, `runCancel`, `runMu`, store slot with epoch, recovery slot | Enable, Disable, Restart, Recover, SwitchBegin/End, scheduled recovery, `TeardownForReconnect`, failure release | preemption, cancelation, several locks with modem calls between them, runtimes that die | no runtime lost; no older start survives a teardown; the card is free during a switch; calls return |
| WebDAV archive | `webdavarchive/*.go` | Running flag, config, ledger, staged files, remote objects | `RunNow`, `PreviewCleanup`, `Cleanup`, scheduler, `Configure` | files and rows deleted in several steps with crashes between them; stale previews; lost answers | nothing is deleted that is not on the remote with the same content; nothing is stranded |
| Outbound limiter | `outbound/*.go`, `db/outbound_usage.go` | rolling history per SIM and kind | `Consume` | racing callers, window boundaries, a clock set back | no rolling window is exceeded; the promised wait is right |
| MBN profiles | `mbn/*.go`, `device/mbn*.go` | operation, policy, session choice, device session | start, cancel, apply, import, delete, trial, restore, automatic policy, recovery at start | writes whose answer is lost, a reboot with another SIM, a crash between checkpoints, repeated requests | nothing is written by itself over an unconfirmed write; success is what the modem shows; a request is carried out once |
| eSIM switch | `device/pool_esim_switch.go` and neighbours, `esim/manager.go` | switch mark with token, context, worker identity with generation, policy epoch | `SwitchProfile`, callbacks, restoration, retries, guard | restoration runs without a lock for a minute and may be superseded at any of its stages | nothing of the older switch touches the newer; identity and policy are the card's; radio and locks come back |
| Device pool, the rest | `device/*.go` | workers, reboot state | bootstrap, reboot recovery, watchdog | composes all of the above | a device comes back usable |
| Voice gateway | `voicehost/*.go`, `internal/vowifi/voice/*.go` (both in `third_party/vowifi-go`), `volte/voice.go` | its own calls, two channels to each subscriber | offer, progress, end, stop; hang up, reject | full channels drop; a stop tells of some ends only | modelled as far as the phone service sees it |
| Phone service | `phone/*.go`, `db/voice_call_records.go` | calls, device and waiting slot, sessions with reservation, binding and timers, early events, history | dial, answer, reject, hang up, take over, auto answer, event handlers, timers | two event goroutines, requests and timers act on one call; events before the call is known; gateway calls between locks; sessions that drop at any moment | no call that nothing will end once the gateway has told of its end; device and sessions are given back; a lost browser is noticed; nobody waits for itself |
| VoLTE, modem voice | `volte`, `modemvoice` | voice sessions | dial, answer, hang up | protocol translation | — |
| Automation, notify, command centre | `automation`, `notify`, `commandcenter` | schedules, channels, confirmations | run, deliver, confirm | retries, duplicates | — |
| the rest | see `PROJECT.json` | I/O, encoding, look-ups, HTTP, packaging | | | |

### Hazards

The hazards at their source lines are in `PROJECT.json`. They fall into seven
groups: who may use the card together and who wakes up (arbiter, gate);
ownership of a runtime across preemption and failure (lifecycle); loss between
two steps of a delete (archive); quotas at their boundary (limiter); what
was read before a switch, a reboot or a SIM change and used after it (eSIM, MBN);
events, requests and timers that meet on one call (phone); and slots or flags that are never given back (all of them).

## Plan

Done, in this order: arbiter with its abstract specification, gate, VoWiFi
lifecycle, archive, limiter, MBN service with its abstract specification, eSIM
switch, phone service; then the proofs of all of these.

Next:

1. Proofs: `InvalidationCancels` for preempting commands, for the mixes in which
   nobody overtakes them.
2. An abstract `RuntimeOwner` specification (none, starting, running, stopping)
   that `VowifiLifecycle` implements, and that `EsimSwitch` uses for its VoWiFi.
3. `DisableProfile` and the carriers whose radio is held off in `EsimSwitch`.
4. `Close` and the hold and switch commands of the phone service; the reboot
   recovery and the health watchdog of the pool.

## Modules

| Module | Role |
|---|---|
| `ApduAccess` | abstract: which grants may be in force together, nothing about queues |
| `ApduArbiter`, `MCApduArbiter`, `ApduArbiterProofs` | the arbiter; menus of calls; proofs |
| `SimAuthReady`, `SimAuthReadyProofs` | the gate (instantiated by its cfg alone); proofs |
| `VowifiLifecycle`, `MCVowifiLifecycle`, `VowifiLifecycleProofs` | the VoWiFi host of one device; mixes of calls; proofs |
| `WebdavArchive`, `MCWebdavArchive`, `WebdavArchiveProofs` | the archive manager, service and store; proofs |
| `OutboundLimiter`, `MCOutboundLimiter`, `OutboundLimiterProofs` | the limiter and its transaction; proofs |
| `MbnJobs` | abstract: requests carried out once, one at a time, with final results |
| `MbnService`, `MCMbnService`, `MbnServiceProofs` | the MBN service, its device session and the modem behind it; proofs |
| `PhoneService`, `MCPhoneService`, `PhoneInvariant`, `PhoneServiceProofs` | the calls of one device, the browser sessions and the history; scenes; the inductive invariants and the kinds of steps the lemmas tell apart; proofs |
| `EsimSwitch`, `MCEsimSwitch`, `EsimSwitchProofs` | a profile switch and everything that acts on the device meanwhile; proofs |

Definitions marked `mutant:` are plausible bugs; no specification uses them.
They exist so that each property can be seen to fail when the code is wrong.
Every module states its `TypeOK`. They are proved, and no run asks for them.

### ApduArbiter

Every critical section of `Arbiter.mu` is one action. A waiter that went to
sleep on `notifyC` is in phase "waiting"; `signalLocked` puts it in `woken`, and
only then may it look again (`Recheck`). `Arbiter.seq` hands every request an id
of its own. Time is two facts: a queued transport is *aged*, a lease is
*overdue*; both may become true at any moment and in any order, because the
enqueue time is taken before the mutex. A watchdog callback that fired is a
separate step that competes for the mutex with `Touch` and `Release`.

`ApduAccess` has only the set of grants in force. `ImplementsAccess` is the
refinement: each arbiter step is a grant, the end of a grant, or a stutter.

### SimAuthReady

`generation` counts invalidations; a probing caller has captured one. A channel
is named by the caller that made it. `calledAt` and `provenFor` are history
variables.

### VowifiLifecycle

A task is one call on one device and is made at most once; `kind` says which. A
step is what happens under one hold of a lock, or one call to the modem, so
every gap the code leaves between locks is an interleaving point. A runtime
instance is named by the task that started it. `live` is what exists on the
modem, `instance` what the store knows. Contexts passed by callers are
process-wide, so cancelation comes from preemption and invalidation only.
`Stop` stops whatever its context says. SwitchEnd is the call with RestoreRadio
set. The three reads that decide whether a command is stale are one step.

### WebdavArchive

A content is a number that grows with each change (no row returns to an earlier
content: a message is marked read once, a fragment is completed once, a call
record is closed once). The operation of each actor is a record in `job`, with
the fields the Go functions keep in local variables. `todo` is what the run has
still to work through, taken in any order (the lists come from queries and
directories, and no property depends on their order), `snap` the rows a preview was computed from, `mine` the files
this cleanup has staged. `remote` is indexed by key and by the row whose month
is in the path, as `datedRemotePath` does. A token stands for the preview it
hashes. `Crash` ends every operation and keeps database, disk, remote and the
browser's token. The lists of SMS and of calls that one preview reads are taken
in one step; files are hashed in a later one.

### OutboundLimiter

`real` is real time and `Now` what the clock shows. `accepted` is a history
variable with the true times. A transaction takes the writer lock with its first
write (`db/outbound_usage.go`), reads, decides and commits or rolls back. `Sums`
adds the units up event by event as the loops do, `Kept` is the list without what is
older than a day, and `deadlines` are the moments of which `consumeHistory` takes
the latest; `limit` may change with a restart only, when nothing is open.

### MbnService

One action per checkpoint, modem command or locked section. `ops` is the table
of operations, `run` the goroutine of the one in progress with its local
variables, `recon` an automatic policy check between its three locked sections.
The modem obeys or ignores a command and acknowledges it or not; a reboot
activates what is selected. `owner` and `epoch` are what the device session
compares before each command; a SIM change or a profile switch alters them.
`dirty` is a history variable: the operation whose write nothing has confirmed.
`Crash` loses everything but database and modem. Asset files, parsing, versions
and capabilities are reduced to the profile a request would add. `Requests` is what
may be asked for; that each of them passes `validateRequest` is an assumption of the
module, since the service turns the others away before they touch anything.

`MbnJobs` knows a list of requests with a key and a state. `ImplementsJobs` is
the refinement: a known key is never accepted again, at most one request runs,
and a result never changes.

### EsimSwitch

`sw[s]` is the s-th call of `SwitchProfile` and the goroutine it leaves behind;
`pc` follows the call through the locks (`lock` stands for `opMu` together with
the device's transition lock) and the goroutine through the stages of
`handleESIMSwitchAfter`, each with the token and owner checks the code has there
and nowhere else. `current` is the pool's context, token and mark, which the code
always sets and clears together. `id` is the identity kept by the worker, with
phase, target and generation. `card` is what is enabled on the card, `shown` what
the modem says; the modem notices a change whenever it likes (`Settle`).

A read of the identity and its publication are two steps, also in the retries
and in a live read, because the modem is asked in between without a lock. So are
the capture of a policy's owner and its projection. ICCID and IMSI are one value,
one retry stands for the three that are scheduled, and a policy is reduced to
whether it wants WiFi calling, which needs the radio off. A projection may give up
before the worker has the policy (`Refused`), with VoWiFi stopped by then or not and
the radio brought back or not, or leave the radio out because of MBN (`SetRadio`
fails). The phase, which is only reported, is left out.

`spoiled` records what the code admits to be able to go wrong; a property names
the entries it excepts with `Without`, and holds through all the others:

| Entry | What happened | What then fails, in the code |
|---|---|---|
| overlap | a switch began while an older goroutine, retry or live read was under way, or before the modem had noticed the last profile | the API's test (`api/device_mgmt.go:2183`) is check-then-act; the snapshot of the newer switch then takes low power or an empty ICCID for the state to restore, and an older retry or `SwitchEnd` may act after the newer teardown |
| radio | a command to the modem failed, or a teardown stopped before it | it is logged, and for the radio not repeated |
| unanswered | the card obeyed a call that reported a failure | the failure path restores the old identity |
| guard | the two-minute guard cleared the mark of a goroutine that is still at work | the goroutine stops at its next check and leaves the radio as it is |
| live | a live read published during a switch | see the finding below |
| torn | the modem changed its answer under a live read | the read writes the old profile: no generation is compared at `pool.go:816`. The policy of a switch suffers only if the guard clears its mark as well |
| refused | the last projection of a switch gave up | the result is ignored (`pool_esim_switch.go:1325`): VoWiFi goes by the policy of the card before |
| replaced | the worker was replaced | the goroutine gives everything up |

### PhoneService

A goroutine is one of the two that receive events and incoming calls, one that
serves a request, or the auto answer of a call. `pc[t].go` is the list of steps it
has still to take, each of them one hold of `Service.mu` or one call of the voice
gateway, and `todo` the events it has still to dispatch: a goroutine that enters a
call replays the events that were put aside for it. `call[c]` is the `activeCall`
of a call, whether or not `Service.calls` still has it (`reg`); `again` tells a
second object for the same ID from the first, as the code's pointer comparison
does. `med[m]` joins what the code keeps on a session in three maps: the call it is
bound to, the request that has it reserved, the pending drop. A timer that has
fired is in `fired` until its callback has the lock.

The gateway (`net`) is the IMS agent or native VoLTE behind `voicehost`, of which the
model keeps what the service sees. It announces calls and reports progress, one
terminal event and `CallFinalized`, in the order in which they happen, on two channels
of 32 places (`queue` and `rings`) that drop what comes when they are full
(`voicehost/subscriptions.go:33`, `:76`). Each drop, alone or with those beside it in
one step, costs one of the scene's failures (`Loses`). So do the ends of which the
gateway itself tells nothing or too late (`Ended`): an agent that stops finalizes a
call that is not its active one without a terminal event
(`internal/vowifi/voice/call_cleanup.go:93`), or before the terminal event of whoever
else was ending it, and native VoLTE emits nothing when its voice session is gone
(`volte/voice.go:418`). That native VoLTE leaves `CallFinalized` out for a call that
was never connected costs nothing. `unheard` keeps the calls of whose end the service
is not told, or not before they are finalized. `HangupCall` and `RejectIncomingCall`
end a call, succeed for one that is gone without any event
(`volte/voice.go:327`, `:361`), or fail. A second call is announced twice, as an event
and as an incoming call, on the two goroutines. Removal of a session and the report of
its closed connection are one step. The kinds of ended calls are one status. A scene
(`SceneType`) says how many calls and sessions there are, whether one call is up
already, whether the auto answer is on, and how many requests and failures may
come.

## Runs

| Run | Instance | What it shows |
|---|---|---|
| `arbiter_safety` | 3 requests, each of any of 10 kinds | `Exclusion`, `BarrierIsolation`, `TouchedLeaseKept` (a lease touched in time is not taken by a callback that already fired), and the refinement of `ApduAccess` |
| `arbiter_live` | 3 requests: kinds that do not age, or a switch barrier, a transport and anything else | `NoLostWakeup`, `EveryWaiterServed`, `BarrierHolderServed`: whoever holds the barrier gets its transport |
| `arbiter_aging` | two eSIM transports and an AKA | **violation**, see findings |
| `simauth` | 2 callers, 2 invalidations | `ReadyIsFresh`, `SuccessIsFresh`, `CallsReturn` |
| `vowifi_safety` | five mixes of 2 to 4 calls | `NoOrphan`, `OwnershipBoundary`, `CardReleased`, `InvalidationCancels`, `StartingHasOwner`, and that every call returns |
| `vowifi_restart` | restart, enable, disable | **violation** |
| `archive_safety` | scheduler and browser; an SMS and two calls that share a recording; 2 contents; 2 outside events, crashes included | `RowSurvives`, `RecordingSurvives`, `LedgerHonest`, `StagedRecoverable` |
| `limiter` | 2 callers; hour 3, day 6 ticks; three limits; 7 ticks; clock 2 ticks back | `WindowRespected`, `RetryExact` |
| `mbn` | 2 SIMs, 3 profiles, 2 operations, 2 faults | `RunningIsBacked`, `NoBlindRewrite`, `VerifiedEnding`, `RightCard`, `ChoiceKept`, and the refinement of `MbnJobs` |
| `esim` | 2 switches, 2 profiles, with and without RadioCycle, 1 fault | `MarkKept`, `IdentityHonest`, `QuietCard`, `PolicyFitsCard`, `PolicyProjected`, `RadioRestored`, `NothingLeft`; no deadlock |
| `esim_policy` | the same | **violation** |
| `phone` | six scenes of 1 or 2 calls, up to 2 sessions, 2 requests, 1 failure | `NoGhost`, `SlotsHonest`, `SessionsAccounted`, `NoDeadWait`, `RecordingClosed` |

### Bounds, and why they are enough

* Arbiter: a holder, a queued request and one that overtakes it are three. All
  its rules compare two requests, or one request and what is in force.
* Gate: one invalidation before and one during a probe are two; a prober and a
  sleeper are two.
* Lifecycle: the bound is the mix of calls. Each mix pairs a start with what can
  overtake it: another start, a stop, a teardown that takes no lock, a preempting
  command, a switch. Counters need no bound, since each call advances them once.
* Archive: `MaxEvents` = 2 allows a change and a crash, or two changes. Every
  hazard listed needs at most two. A third row lets two calls share a recording,
  with the second one arriving late. `MaxContent` = 2 tells archived from changed.
* MBN: the first operation leaves the modem in any state an apply, import, trial
  or deletion can leave it in, the second is a restore or the automatic policy's;
  nothing in the code looks at three operations. Two faults are a lost command
  and a crash, or a SIM change under a reboot that also fails.
* eSIM: a token is compared with one other token, so two switches are enough for
  every order of an older and a newer goroutine. One fault lets each failure,
  live read, policy task, guard or replacement happen at each stage of both.
* Phone: a call has one owner and one challenger, so two requests, or one beside the
  auto answer, meet in every order, and a failure is added where the scene stays
  small. Two calls are enough for device and waiting slot; the scene that starts
  with a call in progress lets the second one come during it and after it, and its
  session be used again while the end of the first is still being worked off. One
  failure is enough for a lost or late end: the sixth scene has it beside another call,
  whose own end then waits behind the stuck goroutine; that a browser's Hangup frees
  the goroutine again is in the scenes with requests.
* Limiter: `MaxTime` is one tick past the day's window, so events are pruned; the
  clock goes back by up to two ticks, less and more than the interval.

`CHECK_DEADLOCK FALSE` is used where every request, call or event of the
instance may be used up; the gate's instance never stops, and the eSIM switch may
rest only when every goroutine is over and locks and mark have been given back.

### Fairness

* Arbiter (`FairSpec`): a woken goroutine is scheduled, and holders release:
  every production caller releases in a `defer`. Nothing is assumed of a
  barrier's holder, who waits for transports; `EveryWaiterServed` names as its
  premiss that no barrier is kept for ever. Expiry of a context is never required
  to happen.
* Gate: a probe returns (it carries a deadline), awakened callers run.
  `CallsReturn` assumes besides that callers do not come back for ever.
* Lifecycle: weak fairness of each task: one that can take a step takes it, and
  modem calls return or see their canceled context. A waiter for `runMu` is not
  passed over for ever, since each call of the mix takes the lock once.

The archive, limiter, MBN, eSIM and phone runs state safety only. What must
eventually happen to a phone call is said as an invariant: while it lives after the
gateway's call its end is on its way (`NoGhost`), and who waits has somebody at work to
wait for (`NoDeadWait`); both except a call of whose end the gateway does not tell in
time, see the findings.

## Findings

1. `arbiter_aging`: `selectedTransportLocked` compares ages by the clock at each
   waiter's own look. An eSIM transport and an AKA transport that look just
   before and just after the first one ages each prefer the other; both sleep on
   an idle card until somebody else signals.
2. `vowifi_restart`: a preempting command installs its cancel function before it
   has `runMu`. An Enable that wins the lock overwrites and then clears it, so a
   later Disable cancels nobody and the older Restart starts a runtime.
3. `esim_policy`: a status page reads the identity live during a switch. If it
   publishes the target first, the switch starts another transition whose
   generation nobody tells its context; the policy of the confirmed target is then
   refused and the switch goes on with the old card's.

Other disagreements met while modelling, which no run asks for:

* docs/mbn.md:36 promises that an exit in the middle of an operation marks it as
  needing attention. A trial that observes a candidate when the pool's context is
  cancelled is saved as cancelled instead (`mbn/operations.go:56`), with the
  candidate in force, and the next start lets the automatic policy write.
* The gateway may end a call without telling the phone service: its channel of events
  is full and drops the terminal event (`voicehost/subscriptions.go:76`), an agent that
  stops has a second live call (`internal/vowifi/voice/call_cleanup.go:99`), or native
  VoLTE has lost its voice session (`volte/voice.go:418`). The phone service goes on
  showing the call and keeps its device or waiting place engaged until a browser hangs
  it up: `Hangup` alone makes up for a silent gateway (`phone/calls.go:177`,
  `phone/call_lifecycle_test.go:278`), neither the timers nor the auto answer do, which
  only ask the gateway to hang up. `NoGhost` excepts such a call and no other.
* When such a call is finalized nevertheless, or before its terminal event has been
  sent, `finalizeRecording` waits for it on the only goroutine that reads events
  (`phone/recording.go:118`). Until a browser hangs that call up no event of any call
  or device is handled, the terminal event that comes behind included; the channel
  then fills, and more ends are dropped. `NoDeadWait` excepts the wait for that call
  and no other.
* A second call that was entered through `CallWaiting` and is finalized before its
  `IncomingCall` is delivered is entered again: `terminalSeen` makes
  `alreadyEnded` true, there is no event left to replay, and the device stays
  engaged until the program restarts (`phone/lifecycle.go:58`). `NoGhost` excepts
  it. `phone/call_lifecycle_test.go:78` covers the order in which the end is still
  among the pending events.
* A call record is copied under the lock and saved without it
  (`phone/lifecycle.go:72`, `:224`): the copy made while a call rang may be saved
  after that of its end, and the history shows a call in progress until the next
  start. `AbandonIncomplete` (`db/voice_call_records.go:102`) leaves out the status
  "waiting", which `activeCallStatus` counts as in progress, so such a record can
  never be deleted.
* `Answer`, `Reject` and the auto answer overwrite the session that `RefreshMedia`
  gave the call meanwhile (`phone/calls.go:146`, `:414`, `auto_answer.go:324`): the
  displaced session stays bound and is never removed, and a disconnect timer it
  has set keeps the call's new session from setting one. When the displaced
  session's connection comes back, it stops the timer of the session the call has
  now, since `cancelDisconnectTimer` asks only for the call (`phone/recovery.go:28`).
  `SessionsAccounted` excepts both.
* `RefreshMedia` and `finishCall` free a session under the lock and remove it
  afterwards (`phone/calls.go:303`, `lifecycle.go:312`). A tab that takes the call
  back at once with the same session loses it a moment later; the report of the
  closed connection then sets the timer and the call is hung up.
* `Answer` that fails to attach the final SDP returns without a hang-up
  (`phone/calls.go:116`): the call is up and no browser controls it until one takes
  it over.

* A scheduled VoWiFi recovery made stale by an Enable returns without giving its
  slot back (`vowifihost/reconcile.go:85`); if that Enable fails, the loop does
  not recover the device until something invalidates it.
* A recording removed by a recordings-only cleanup fails every later archive run,
  because the file is hashed before the ledger is asked
  (`webdavarchive/service.go:192`): later recordings are not archived and the
  automatic cleanup is never reached.
* Under RadioCycle a SIM that does not converge leaves the radio in low power:
  the comment at `pool_esim_switch.go:1119` takes `bringRadioOnlineAfterSwitch` to
  have run, which the degraded path has not reached. `RadioRestored` excepts it.
* `handleESIMSwitchAfter` ignores what `resolveAndApplyPolicy` returns
  (`pool_esim_switch.go:1325`). An MBN operation, the resolver, a modem or native
  call that cannot be hung up, a failing teardown or the carrier's check make it
  return before the worker has the policy; the switch then decides on VoWiFi and
  radio by the policy of the card before. `PolicyProjected` excepts such a switch.
* `restorePostSwitchConnectivity` reports "degraded" without a token
  (`markESIMSwitchPhase`), which may be written on a newer switch's context.
* The delayed retries compare the generation when their timer fires and not
  again before they publish.

## Proofs

Every theorem speaks of the module's `Spec` for all values of its constants: any
number of callers, switches, rows, profiles or operations, any bound on events and
faults. What each run shows of a small instance is thereby shown of all of them.

| Theorem | Statement |
|---|---|
| `ArbiterTypeOK`, `ArbiterExclusion`, `ArbiterBarrierIsolation`, `ArbiterIdleWaiter`, `ArbiterNoLostWakeup` | `Spec => []P`, for any finite set of ids, any calls, any limits |
| `ArbiterTouchedLeaseKept` | `Spec => [][A]_vars`: no step takes a lease that was touched in time |
| `ArbiterImplementsAccess` | the refinement of `ApduAccess` |
| `GateInvariant`, `GateSingleProbe`, `GateReadyIsFresh`, `GateSuccessIsFresh` | `Spec => []P`, any callers |
| `LifecycleTypeOK`, `LifecycleNoOrphan`, `LifecycleStartingHasOwner` | `Spec => []P`, any tasks and any mixes of calls |
| `LifecycleCardReleased` | the same where no mix has more than one SwitchEnd |
| `LifecycleOwnershipBoundary` | the same where no mix has a Restart |
| `LifecycleOrdinaryCanceled` | the part of `InvalidationCancels` about commands that take turns, for any mix |
| `ArchiveInvariant`, `ArchiveTypeOK`, `ArchiveRowSurvives`, `ArchiveRecordingSurvives`, `ArchiveLedgerHonest`, `ArchiveStagedRecoverable` | `Spec => []P`, any rows, recordings, configurations and bounds |
| `EsimTypeOK`, `EsimQuietCard`, `EsimNothingLeft`, `EsimIdentityHonest`, `EsimPolicyFitsCard`, `EsimRadioRestored`, `EsimPolicyProjected` | `Spec => []P`, any switches, profiles, settings and faults |
| `EsimMarkKept` | `Spec => [][A]_vars`, the same |
| `MbnInvariant`, `MbnTypeOK`, `MbnRunningIsBacked` | `Spec => []P`, any SIMs, profiles, requests and bounds |
| `MbnRightCard`, `MbnChoiceKept`, `MbnNoBlindRewrite`, `MbnVerifiedEnding` | `Spec => [][A]_vars`, the same |
| `MbnImplementsJobs` | the refinement of `MbnJobs` |
| `PhoneTypeOK`, `PhoneSlotsHonest`, `PhoneRecordingClosed`, `PhoneNoGhost`, `PhoneNoDeadWait`, `PhoneSessionsAccounted` | `Spec => []P`, any calls, sessions, clients, requests and failures |
| `LimiterInvariant`, `LimiterTypeOK`, `LimiterWindowRespected`, `LimiterRetryExact` | `Spec => []P`, any windows, limits, sizes and callers, however long it runs and however often the clock is set back |

The proofs are in the `...Proofs` modules. Each has one inductive invariant
(the phone service three, one on top of the other, in `PhoneInvariant`), in named
parts, one lemma for each part and action (or group of actions that disturb
it in the same way), and short theorems at the end.

*Arbiter.* `Exclusion` is not inductive alone: a grant looks at the queue, so the
invariant adds that ids in the queue are unique and that a queued request is a
waiting one (otherwise the same request could be granted twice).
`IdleWaiterNotLost` needs that every change to the actives signals (`SignalIdle`).
One lemma per group of actions; grants and removals of a lease have lemmas of
their own (`AcquireSafe`, `RemoveSafe`) since several actions make them.
`HolderInv` adds that what is in force has a granted request behind it and one id
each: `Release` and `releaseExpired` look leases up by id, and only so do they take
one lease and no other. `NoLostWakeup` follows from two facts: each step that can
make a request admissible ends in a signal, and every other step leaves what the
test reads alone (`CanAcquireStable`). The refinement adds that the tests on the
queue imply the abstract rules for what is in force (`AdmitStep`).

*Gate.* `SingleProbe` needs that a raised `probing` flag has a prober behind it;
freshness needs that nobody has seen a generation that is still to come.

*Lifecycle.* `NoOrphan` says that somebody answers for each live runtime. The
strengthening: whoever is to stop a runtime knows its name and that runtime's own
start has returned (`TargetsUnwound`), deletion follows the stop
(`DeletedIsStopped`), and the store holds only runtimes whose start has returned
(`InstanceUnwound`). Steps that change none of this are covered by one predicate
(`Walk`). The others rest on the run lock (`Mutex`): what its holder does between
two steps nobody else can. A start that is marked has its own epoch (`Epochs`) and
an owner that has not been canceled (`MarkOwned`); after SwitchBegin the device is
marked and the store empty, and the one thing that may still be live is being
stopped by its release (`SwitchMarked`, `CardQuiet`). `OwnershipBoundary` needs
that a command under an old version has been canceled or will refuse itself
(`Reached`), so that every start the store would accept is later than every boundary
drawn (`StartsAreLate`, `LeavesLate`). Its hypothesis is what the code needs: with a
Restart it is false, as `vowifi_restart` shows. That of `CardReleased` is how the
pool calls the host: one SwitchEnd belongs to one switch, under the transition lock.
`OrdinaryCanceled` is what is true of the one `runCancel` slot in every mix of
calls: a queued command installs itself when it has the lock, so no other queued one
can take the slot from it, and a preempting one that takes it cancels it in the same
step (`Watched`). The other half of `InvalidationCancels`, of preempting commands,
is false where a queued one overtakes them while they wait: finding 2.

*Archive.* Only one operation is under way (`Exclusive`). A ledger entry is never
ahead of its row, and one with the row's present content is true of the remote
(`RowInv`); for a recording the same of its newest file, which is under its name, or
staged, or on the remote (`RecordingInv`, `CopyInv`). The rest says what the
operation relies on between its steps: an item under upload is not older than the
ledger's entry and the remote between the two, which is where a change during an
upload and an answer that was lost have to be told apart (`ArchiveInv`); what a
cleanup staged is archived and nothing is left under the name it would be put back
to (`CleanupInv`).

*eSIM switch.* The properties except what the code admits to spoil, so each part of
the invariant says under which entries of `spoiled` it holds. Locks and tokens are
in order without any exception (`Booked`); hence `NothingLeft`. A mark belongs to
the newest switch, which still works or whose goroutine does, and while it lasts
nothing uses the card (`MarkOK`). A goroutine past the command aims at the profile
on the card, and generations only grow (`Aimed`): that is why a comparison of
generations is worth anything. A ready identity is the card's once the modem has
noticed, also in the hands of a retry or live read that has not published it yet
(`Known`); a policy's owner that still passes the check was therefore read from
this card. `RadioOK`, `FirstTry` and `PolicyOK` follow the goroutine through its
stages. Stating `PolicyProjected` for every instance showed that a torn read
spoils it only along with the guard: the check was exact where it had been generous.

*MBN service.* `RunInv` says for each place of the goroutine what kind of request
it serves, which session and owner it has, what it is aiming at and what it has
read back; the goal of a finished operation is said of the modem itself (`GoalMet`),
so that `VerifiedEnding` is no matter of the operation's own records. `Backed` ties
the table to the goroutine. `DirtyAt` ties each write nothing has confirmed to an
operation whose saved stage announces it (`MarkedAt`: the stage is saved before the
command), which is what the next automatic operation looks for, also after a crash.
`ReconAt` says what a policy check still knows to be true when it takes the lock
again. `RightCard` is then a matter of the comparison of the owner before each
command, `MbnImplementsJobs` of the table only growing and final states staying.

*Phone service.* What a goroutine still has to do is a list, and the proofs rest on
which lists there are (`Shape`): one that dials, one that takes a call with a session,
one that ends a call, or steps in any order. A request that is about to dial, has
dialled or gives up has the device, and no other has (`SlotInv`): that is what
`SlotsHonest` needs to be inductive. One goroutine ends a call, the one whose Ended
event found it in progress; until it is done the call is not finalized, and it closes
the recording first (`EndInv`), hence `RecordingClosed`. A call that is dialled is not
announced as an incoming one before BeginCall has returned (`FreshInv`); otherwise
the request would enter a call that is there already. Most steps neither give the
device away nor end a call nor announce one; one predicate covers them (`Calmly`,
`CalmKeeps`), so that each action has one lemma, and the dozen that do have their own.
`NoGhost` and `NoDeadWait` follow a call's two last events, Ended and Finalized, from
the gateway through the queue, the events put aside and the lists of the goroutines
(`LastInv`). The end of a call that is gone is on its way as long as the call is in
progress, or could still be entered for the first time (`GhostOf`). Finalized is in
one place only and of a call that is known when a goroutine has it (`OneFin`), and it
comes after Ended in the same list unless another goroutine has Ended in hand
(`LedFin`), which is the one finalizeRecording then waits for. All three leave out a
call of whose end the gateway does not tell in time (`unheard`), whose events nothing
can be said of; those of the other calls go on beside it. That nothing brings a call
back that is gone (`NoNewcomer`) comes with the invariant before.

`SessionsAccounted` has an invariant of its own on top of these (`SessInv`). A
session that is reserved belongs to a request under way and no call has it
(`HeldInv`). A call in progress has its own session and that of its timer, and no
other call has either (`BoundInv`). A call whose session is lost has the report of
the lost connection still to come, a timer, a goroutine that will see to it, or is
excepted (`LostInv`). The session the auto answer makes is its goroutine's until the
call has it, and goes once the call lets go of it (`OwnInv`). `ThreadInv` says what
a goroutine's list still holds about closing, unlinking and resuming, and that
after a step at which the rest of a list may be dropped nothing is left in it that
somebody relies on. There is a lemma for each kind of change (`FrameKeeps`,
`HoldKeeps`, `BindKeeps`, `LossKeeps`, `FinishedKeeps` and so on) and one for each
action (its name with `Sess`). Looking for the inductive form of `LostInv` showed
the displaced session that comes back and stops another session's timer: it takes
two lost connections, one more than the run's bound, and `DropNoticed` was restated
to except it.

*Limiter.* Every limit has an interval of at least one, so what is allowed comes
after everything in the history: the list is in order of time (`Ordered`), although
the clock that wrote it is set back. What a window counts and what pruning keeps are
therefore tails of the list (`WithinTail`, `KeptTail`), and `windowDeadline` finds the
last event that has to leave before there is room (`DeadlineShape`), in the pruned
list the same as in the whole (`KeptDeadline`). Hence `AllowedExactly`: a request may
go when the interval is over and both windows have room; `RetryExact` follows, since
windows only empty while nothing is added. Sums are compared by counting up, with
the least-number principle in place of induction (`CountUp`, `Shift`). For
`WindowRespected` the invariant relates the history, which shows the clock's times,
to what was accepted in real time (`Books`): it is the end of that list, its times
lag by no more than the clock is behind now, and what was pruned is over a day old.
With the writer lock (`Serial`) a transaction decides on the history as it is.

Assumptions are the named `ASSUME`s of each module: finiteness of ids, shape of
calls, mixes, limits, rows and policies, valid requests, and that the "nobody" value
is no task, caller, owner, transaction or context. TLC evaluates them in every run.

Only model-checked:

* everything about liveness (`EveryWaiterServed`, `BarrierHolderServed`,
  `CallsReturn`, `EveryCallReturns`), which is beyond the prover;
* `InvalidationCancels` of preempting commands, for the mixes of `vowifi_safety`. It
  is not true of every mix (`vowifi_restart`);
* that the violations of `arbiter_aging`, `vowifi_restart` and `esim_policy` exist.

`IdleWaiterNotLost` and `SingleProbe` are proved and no run repeats them.

## Not modelled

* Times themselves: lease durations, aging, backoff and archive intervals appear
  as events that may come at any moment.
* Startup texts, health records, counters and summaries that nothing reads back.
* `CardReleased` excepts a failed runtime that is still being
  stopped: the code empties the slot first and nothing waits for the stop.
* In the lifecycle, restoration of radio and SMS around a switch and disabling all
  devices at once.
* In the MBN service, the library of asset files (upload, digest, deletion), the
  parsing of the modem's lists, versions and capabilities.
* In the eSIM switch, `DisableProfile`, carriers whose radio is held off, the data
  connection, reported phases, downloads and the overview cache; the replacement of
  a worker is one step, with the SIM unchanged.
* Of the voice gateway, SIP dialogs and QMI, media, hold and captures. Which of its
  events are dropped is a choice: the model does not count the 32 places of a channel.
* In the phone service, `Close`, hold, DTMF and switching between calls, the loading
  of the prompt, SDP, RTP and codecs, the events sent to browsers and notifications;
  sessions are there from the start, and all browsers are one owner's.
* The archive's HTTP client (its Put succeeds, fails, or succeeds and loses the
  answer), a change of server (the ledger does not record which one it speaks
  of), and files created under a staged recording's name during a cleanup, which
  a rollback would replace.
* Forward jumps of the clock, which shorten the limiter's windows by their size;
  the documentation asks for a correct clock.
* The components listed as not modelled in `PROJECT.json`, each with its reason.
