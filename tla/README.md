# k8s-ext-connector in TLA+

k8s-ext-connector lets pods of a Kubernetes cluster talk to servers outside of it
with fixed source addresses. An `ExternalService` names an external server, the
pods and services that may use it (sources) and, for each, the gateway IP their
traffic has outside. The *operator* turns an `ExternalService` into a `Forwarder`
resource and entries of `Gateway` resources; a *forwarder agent* in a pod and a
*gateway agent* on a host outside turn those into ssh tunnels and iptables rules.

This directory holds TLA+ models of that program, the TLC configurations that
check them on small instances, and theorems about them whose proofs TLAPS checks.
Paths below are relative to the repository.

## 1. Inventory

### Parts, their state, their operations

| Part | Source | State | Operations |
|---|---|---|---|
| `Forwarder`, `Gateway` resources | `pkg/apis/submariner/v1alpha1/{forwarder,gateway}_types.go`, `pkg/{forwarder,gateway}/status.go` | spec (egress and ingress rules); conditions Updating and Syncing; RuleGeneration, SyncGeneration; resource version | `needSync`, `needCheckSync`, `setSyncing`, `setSynced`; the operator's marks before and after an update |
| Operator, reconcile of one `ExternalService` | `pkg/controller/externalservice/reconciler.go` | none of its own but a cache; the maps of relay ports in use live for one reconcile | pod and service of the forwarder; `updateForwarderRules`; `updateGatewayRules`; finalizer and deletion |
| Operator, watches and main | `externalservice_controller.go`, `cmd/manager/main.go` | the manager's queue | which object's change makes which `ExternalService` reconcile |
| Operator, pod and service | `resource.go` | none | builds the two objects |
| Agents' controller | `pkg/util/controller.go` | informer cache, rate-limited work queue, one worker | event → key, take, reconcile, forget or retry; resync every 30 s |
| Forwarder agent | `pkg/forwarder/reconciler.go`, `forwarder/forwarder.go` | two maps of tunnels (memory); the nat table (survives the process) | `Reconcile`: check or sync; `syncRule`: tunnels, remote tunnels, chains; `ruleSynced` |
| Gateway agent | `pkg/gateway/reconciler.go`, `gateway/gateway.go` | map of ssh servers per gateway IP; nat table | the same, with sshd and chains per gateway IP |
| ssh tunnel | `pkg/util/ssh.go` | goroutine, ssh client, listener, connections, a context and a backoff | `ForwardNB`, `RemoteForwardNB`, `Cancel`; accept, connect, copy |
| ssh server of the gateway | `pkg/util/ssh.go` | the server of gliderlabs/ssh | `NewSSHServer`, `DirectTCPIPHandler`, `IsPortOpen` |
| iptables helpers | `pkg/util/iptables.go` | none | `ReplaceChains`, `AddChains`, `CheckChainsExist` |
| Generated client code | `pkg/client/**`, `zz_generated.deepcopy.go` | – | – |
| Deployment, end-to-end tests | `deploy*`, `Makefile`, `test/e2e` | – | – |

### How they interact

    ExternalService, pods, services, endpoints
            | watch (cached)
            v
        operator --- writes spec, Updating, RuleGeneration ---> Forwarder, Gateway
                                                                  | watch   ^
                                                                  v         | Syncing,
                                                       work queue of agent  | SyncGeneration
                                                                  |         |
                                                                  v         |
                                                              Reconcile ----+
                                                                  |
                                                      ssh tunnels, iptables

The resource is the only thing operator and agent share. Both write its status,
the operator its spec as well, and nothing but the resource version keeps them
apart. A watch event is the only message; events for one key are merged by
the queue. The forwarder's tunnels and the gateway's sshd meet over ssh.

### What is hard, and what makes each part correct

* **Resource and its two writers.** Several API calls per reconcile, on each side,
  any of which may conflict, fail, or be done with its answer lost, and a restart
  of either side between any two. Correct means: what is announced as synced is
  what is in force; rules do not change under an agent that applies them; no change
  is forgotten; what is left of older rules is gone; the last rules that the operator writes
  are in force in the end. (Of a Forwarder these are the last rules; of a Gateway, those that
  the operator's cache listed.)
* **Relay ports and gateway rules.** The ports in use are looked up in resources read
  from a cache that lags, by reconciles of different services, some of which stop
  half way. Correct means: no two rules share a port where both would use it;
  ports do not move without need; the gateways hold the rules of all forwarders.
* **Inputs of the rules.** Sources, endpoints, services and the pod's address change while a
  reconcile reads them one by one from lagging caches, and map functions look up in the same
  caches whom to wake. Correct means: no forwarder is left behind its inputs with nothing on
  its way; a source that cannot be served does not keep others waiting.
* **Tunnels.** Goroutines that are canceled, expire, lose their client, and fight for
  one address, and maps that know only that a tunnel was created. Correct means: a canceled
  tunnel carries nothing and ends; no connection outlives its client; a connection ends with
  its sides; no tunnel works on that nothing could stop; a rule that stays is served.
* **Work queue.** Events, tombstones, the queue's dirty and processing marks, delayed retries and
  a deferred `Done` interleave. Correct means: every change is followed by a look at the
  resource, and the controller comes to rest when nothing changes.
* **Gateway agent.** As the forwarder's, plus a server that may take up to 15 minutes to
  come up or never does.
* **Deletion.** Finalizer, four resources, errors that are ignored.

`PROJECT.json` lists the individual hazards with their lines and the properties that
cover them.

## 2. Modules

| Module | Models | Extends / uses |
|---|---|---|
| `CRStatus` | the resource: its status, the setters, the two kinds of write | |
| `RuleDelivery` | abstract: what operator and agent promise about one resource | |
| `ForwarderSync` | operator and forwarder agent over one Forwarder, with watch, queue, chains, faults | `CRStatus`, `RuleDelivery` |
| `ForwarderSyncProofs` | theorems | `ForwarderSync` |
| `GatewaySync` | operator and gateway agent over one Gateway, with servers, chains, jumps, an address that moves, faults | `CRStatus`, `RuleDelivery` |
| `GatewaySyncProofs` | theorems | `GatewaySync` |
| `Operator` | reconciles and deletions of several services: relay ports, Forwarders, Gateways, cache | |
| `OperatorProofs` | theorems | `Operator` |
| `RuleInputs` | reconciles as a function of inputs that change: caches, map functions of the watches, gateways written and not written | |
| `RuleInputsProofs` | theorems | `RuleInputs` |
| `Tunnel` | the goroutines of ssh tunnels and their connections | |
| `TunnelMap` | composition: the forwarder agent's maps of tunnels over `Tunnel` | `Tunnel` |
| `TunnelProofs`, `TunnelMapProofs` | theorems | `Tunnel`, `TunnelMap` |
| `Wakeups` | abstract: what a controller promises its reconciler about one resource | |
| `WorkQueue` | the agents' controller: informer, handlers, work queue, worker | `Wakeups` |
| `WorkQueueProofs` | theorems | `WorkQueue` |
| `Lifecycle` | an ExternalService from creation to deletion: finalizer, pod, service, Forwarder, gateway entry, caches and watches | |
| `LifecycleProofs` | theorems | `Lifecycle` |
| `MC*` | the instances for TLC | |

### ForwarderSync

One action per API call, per chain flushed and per rule appended. Between two of them any
other process may step.

| State | Code |
|---|---|
| `cr` | the Forwarder in the API server |
| `opObj`, `op`, `plan`, `opDirty` | `fwd` of `updateForwarderRules`, the line it is at, the rules computed, the manager's queue |
| `obj`, `ag`, `todo` | `fwd` of the agent's `Reconcile`, where it is, the chains not flushed yet |
| `event`, `dirty`, `retry` | an event not delivered, the key in the queue, the key waiting for its rate-limited retry |
| `tunnels`, `remoteTunnels`, `nat` | `r.tunnel`, `r.remoteTunnel`, the two chains of the nat table |

The answer of an update is stored in the copy where the code stores it, and is not where
the code assigns it to a parameter (`setSyncing`): the agent's next write then
conflicts with its own last one, and the pass is done twice. The copies are records, so
a stale read is an old record. A key already taken from the queue can be added again, as
the dirty mark of client-go's queue does. Rules are sets: the order of rules in a chain and
duplicates of them are left out, since a rule names its addresses and ports completely.
A tunnel in the map counts as in force, as it does for the code's check; `TunnelMap` says when it is.

### GatewaySync

The conversation is the one of `ForwarderSync`, written for the gateway's side of it.

| State | Code |
|---|---|
| `cr`, `fresh` | the Gateway in the API server; who holds a copy with its current resource version |
| `listed` | the rules for this gateway in the Forwarders that the operator's cache lists |
| `queue`, `mode`, `named` | requests that touch the gateway (an update of a service, the clean-up of a deletion), the one at hand, and whether its service still names the gateway, so that a failure is retried here |
| `op`, `opObj`, `plan` | `updateRulesForOneGateway` |
| `obj`, `ag`, `todo`, `event`, `dirty` | as in `ForwarderSync`; a retry is in the queue at once, and its delay is the time before `Take` |
| `started`, `server`, `addr` | `g.ssh`; what the goroutine of each server does, whose 15 minutes may be over at any time; whether the host has the gateway's address |
| `nat`, `jumps` | the two chains named after the address; the chains that jump to them |

A gateway whose server is down is announced and recalled for ever (the check looks at the port, the synchronization
at the map), so a count of versions has no bound. All that the code uses of a version is whether a write is
made on the current copy; `fresh` says that, and the state is finite without a bound on passes.

The operator writes what its cache lists (`reconciler.go:508`, `591`), which may be from before its own last write of a Forwarder, and
nothing asks it to look again when the cache catches up. So `listed` moves by itself (`Change`), with a request or with none,
and requests come and go by themselves: a service that stops naming the gateway before its request is taken, or while a try fails, gets
this gateway no write (the loop at line 514). Hence the model promises neither that the gateway has the rules of the services nor
that one marked as updating will be completed. What holds without a supposition about the list is the agent's side, and one thing of the operator's: an update
that is requested, and is still wanted when its calls have failed, brings the rules that are listed then. When the list is right is the subject of `Mirrored`, `GatewaysFollow` and `EventuallyInGateway`.

### Lifecycle

Each resource is in the API server and in the operator's cache, and the cache follows kind by kind. What the rules
of a Forwarder and a Gateway are is abstracted to whether there are any. A deleted pod is `terminating` until it is
gone. `trusted` is history: it records that the clean-up read current copies and that none of its Deletes failed.
ExternalServices are created and deleted at any time and any number of times.

### Operator

One reconcile at a time (the manager runs one worker), of any service. The reads and
writes of other resources are its steps; the cache follows in steps of its own, object
by object. `genRelayPort` is the pair of functions that return a relay port;
`MapsOf` is what a Go map of port → key may hold after a list was entered.
`todo` is what the loops over sources, ports and addresses go through: any set, in any
order, so that a reconcile may be of any content the `ExternalService` could have. A deletion takes the Forwarder
(`DeleteForwarder`), then waits until it is no longer listed and rewrites all gateways (`ListRemaining`); `dying` has the services whose
finalizer is still there, which are not reconciled. The history variables
`clean`, `current` and `undisturbed` record which reconciles read current copies and went
through; no guard reads them.

### RuleInputs

| State | Code |
|---|---|
| `spec`, `eps`, `ports`, `podIP` and their caches | sources of each ExternalService; addresses of each endpoints object; ports of each service; address of each forwarder pod |
| `fwds`, `gws` and their caches | the rules in the Forwarders and Gateways |
| `esNotes`, `podNotes`, `epNotes` | events that are in the cache and were not handed to the watch's map function |
| `queue`, `at`, `cur`, `cr`, `todo`, `new`, `list` | the manager's queue, and the reconcile: its line, its request, the sources it read, what its loops have left, the spec so far, the forwarders listed |

The rules are a function of the inputs, without relay ports (those are `Operator`'s). The queue here is a set: the
manager's rate limits are left out, and fairness takes each request in its turn.

### WorkQueue

| State | Code |
|---|---|
| `store`, `behind`, `initial` | the informer's store; resources whose last events it has not processed; those of its first list among them |
| `notes` | what it handed to the three handlers of `NewController` and they have not enqueued |
| `queue`, `dirty`, `processing`, `waiting` | client-go's work queue, and the keys whose `AddRateLimited` delay is not over |
| `at`, `cur` | `Run`, `processNext` and the head of `Reconcile` |
| `seen` | history: Own was read since its last change by a reconcile that did not fail; no guard reads it |

The order of events is kept per resource, and between resources in the notifications and the queue. `Wakeups` has
three variables: the resource exists, its last change was seen, a look is on its way.

### Tunnel and TunnelMap

A tunnel's goroutine is `pc`; `GivesUp`, `AfterWait` are the backoff's. Both kinds run the same
loop in the code, with the ends swapped. `Listen` and `Accept` of a remote
tunnel need the client, those of a local one do not, hence a local tunnel whose client was lost
notices at the next connection only. `TunnelMap` adds `map`, the entry of `f.tunnels` and of `f.remoteTunnels` for the
one address of each kind, and the agent's side: a rule goes (`deleteUnused`), a rule comes (`ensure`), the process restarts.
The number of `Tunnels` bounds how many one process creates; nothing else is bounded. Two rules at a time have two
addresses (`ForwarderPortsDistinct`), and the two maps share nothing.

## 3. What TLC checks

| Run | Instance | Shows |
|---|---|---|
| `forwarder` | 2 inputs with 3 specs, one moment without pod IP, 1 change, 1 fault, fair | type, `NoLeftovers`, `NoLostWork` (of agent and operator), `AnnouncesOnlyApplied`; the protocol implements `RuleDelivery`; `EventuallyDelivered` |
| `gateway` | 1 rule, 1 change of list or requests or both, 1 fault, fair | type, `AnnouncedHasAddress`, `NoLostSync`, `NoLeftovers`; the protocol implements `RuleDelivery`; `EventuallyServed`, `DeadServerNoticed` |
| `lifecycle` | 1 ExternalService, created and deleted without end, 1 fault, fair | type, `NoLostRequest`, `ClearedIsGone`, `DeletionCompletes`, `EventuallyServed`, `EventuallyInGateway` |
| `operator_ports` | 2 services, 1 gateway, 2 sources, 3 ingress keys, 2 ports, 3 reconciles or deletions | type, `ForwarderPortsDistinct` always; `PortsSuffice`: when a port is not found; `GatewayPortsDistinct` and `IngressPortsStable` while undisturbed, and no new clash by a reconcile that read a current list; `Mirrored` |
| `inputs` | 1 ExternalService, 1 source service, 2 gateways of which one is no IP address, 1 address, 1 port, a pod that comes and goes, 2 changes, 1 fault, fair | type, `NoStaleForwarder`, `ForwarderFollows`, `GatewaysFollow` |
| `queue` | the agent's resource and another, 2 notifications, 1 fault, fair | type, `NoLostChange`, `Settles`; the controller implements `Wakeups`, with its liveness |
| `tunnel` | the maps over 2 tunnels of any kinds, 1 connection, fair | type, `FarHalfNeedsClient`, `NothingCopiedAfterCancel`, `NoOrphanTunnel`, `NoDeadEntry`, `ConnectionsEnd`, `RuleIsServed` |

Five more runs are expected to end in a violation: they show where the code does something else than its comments or its
README say (section 6).

**Bounds, and why they are enough.** `MaxChanges` and `MaxFaults` bound how often the environment interferes;
one change gives two reconciles of the operator with different rules, so that an agent's pass can be
overtaken, and a fault adds a retry of it, or leaves a pass half done. That a second fault hits the repair of the first is
left to the theorems, which hold for any number. The two renderings of one
input stand for the relay ports that move at every reconcile. `MaxRounds` bounds the operator's
reconciles and deletions: three let a service reconcile before and after another did, or be deleted and created again. Fewer
ports than keys make the allocation run out, of egress ports and of ingress ports (`PortsSuffice` is about these states). The 3.6 million states of `operator_ports` take four minutes. Services, pods and keys are interchangeable, as no operator chooses among them.
One gateway is enough for `Mirrored`, as gateways are written one by one and never read together; the theorem is about any number.
In `GatewaySync` one rule is enough for chains that are half full, since there
are two; the address, the servers and their 15 minutes are not bounded at all. One change moves the list under a reconcile that has read it, adds or withdraws a request, or does both. The 0.5 million states take four minutes, most of it for liveness. In `Lifecycle` creations, deletions and
resyncs are not bounded; one fault is a failed Delete, an eviction, a restart or a failed call. In `RuleInputs` two changes let
an input change between the reads of another and of itself, or the sources between the endpoints' event and its map
function; resyncs are not bounded. In `WorkQueue` two notifications let a tombstone and the event of the resource created again
be under way together; changes and resyncs are not bounded. Two tunnels are an old one and its successor, or one of each kind.

**Deadlock** is checked for `ForwarderSync`, `GatewaySync` and `Lifecycle`; `Operator` stops when its rounds are used
up, and a tunnel that is canceled or has given up stops by design, so their configurations switch it off. It is checked for `RuleInputs`
and `WorkQueue`, where a resync is always possible.

**Fairness.** `ForwarderSync`: the operator and the agent take steps when they can (goroutines of
running processes), a watch event is delivered, a rate-limited retry fires. Nothing is
assumed of resyncs (a resync that repaired lost work would hide it), of changes or of faults.
`GatewaySync`: the same, and the goroutines of the servers run; the address moves as it likes, and `EventuallyServed` is about behaviours in which it
ends up on the host and the server did not give up, and, of the operator, about an update that is requested once list and requests change no more; no request and no move of the list is supposed to happen. `DeadServerNoticed` supposes, in the property, that something keeps waking the agent, as the informer's resync does every 30 s: nothing else starts a check.
`Lifecycle`: the operator runs, the caches follow, pods that were deleted go, and every request is taken in its turn (strong fairness of
`Take`: the queue is first in, first out, and its retries fire). `EventuallyInGateway` alone supposes that requests keep coming: from endpoints of a source, or the resync of controller-runtime, 10 hours by default.
`RuleInputs`: the same, and map functions run; `GatewaysFollow` alone supposes resyncs.
`WorkQueue`: informer, handlers, timers and worker run; no resource's events are passed over for ever (strong fairness of `Observe`: the
informer processes them in order). Nothing is assumed of resyncs, and `Settles` supposes that they stop.
`TunnelMap`: the goroutine of a tunnel runs, apart from `Accept`, which needs a client that connects; a copying
goroutine starts, and ends when the side it reads is closed; nobody is assumed to close a connection.

## 4. What TLAPS proves

Assumptions on constants: in `ForwarderSync`, `NoRules` is a spec, `Rendering` maps inputs to sets of specs, the bounds
are natural numbers; in `GatewaySync`, the gateway's address is not the empty one, and the bounds are natural numbers; in `Operator`, the ports
and the bound are natural numbers; in `RuleInputs`, every source is one that an ExternalService may name, no pod's address is the missing one, and the
bounds are natural numbers; in `WorkQueue`, Own is a key, a tombstone is none, the
bounds are natural numbers; in `TunnelMap`, `NoTunnel` is no tunnel, and in `Tunnel` neither is the owner of what is no connection. Everything else, such as finiteness of a
set of constants, is not needed.

**ForwarderSyncProofs.** `IInv` is inductive (`Invariance`), and `TypeCorrect`, `SyncedHasNoLeftovers`, `WorkIsNotLost`,
`AnnouncementIsTrue`, `RulesChangeOnlyWhileUpdating` and `Refinement` (every step of
the protocol is one of `RuleDelivery` or leaves it alone) follow. The properties alone are
not inductive: that an announcement is true rests on `Progress` (how far a pass has come in putting
the rules *of its copy* in force) and on `AgentCopy` (a copy with the current version is the
resource; one with an older version has a wake-up on its way, which is also why work
is not lost when the write of an old copy fails). `NotAnnouncedWhilePassing` says that nobody
else announces, so that flushing the chains never hurts an announced resource. `NoLostWork` has two halves: the agent is woken for what it has to
apply, the operator for what it has to write. `RestMeansDelivered` draws the two together: in a state where nobody has work left or on its way, the
last rules are in force and announced. There is no other state in which the protocol rests; that it gets to rest is what `EventuallyDelivered` adds in the run.

**GatewaySyncProofs.** The argument is that of `ForwarderSync`, with "the copy is the resource" for "the copy has the current version": `IInv` is
inductive, and `TypeCorrect`, `AnnouncedGatewayHasAddress`, `SyncedHasNoLeftovers`, `SyncIsNotLost`, `RestMeansServed`, `AnnouncementIsTrue`,
`RulesChangeOnlyWhileUpdating` and `Refinement` follow. They suppose nothing of the rules that the operator lists, nor of when it is asked: `RestMeansServed` is about the rules that are in the
resource when the operator has completed it, whatever list they came from, and says that the agent does not rest before they are announced and exactly in force on the gateway's address. `Wrote` lists the six writes of the
resource, so that one lemma (`StatusStep`) says what any step may do to the status. Two parts are new. That no gateway without an address is announced rests on
`Progress`: the pass gets to the chains only with the hexadecimal form of the address. And that a check finds an announced gateway in force only if it is
(`CheckIsRight`) rests on `Servers`: the check looks at the port and the pass at the map, so the invariant has to say that an open port belongs to a server in the map,
and that a server without an address, which listens on the gateway's address too, does not answer for one that the agent lost in a restart.

**OperatorProofs.** `IInv` is inductive; `TypeCorrect`, `ForwarderPortsStayDistinct`, `PortsSufficeAlways`, `GatewaysMirrorForwarders`,
`GatewayPortsStayDistinct` and `IngressPortsStay` follow. The ports are distinct because every rule generated so far is entered in the map under its key (`PortsInv`), so that
a port is handed out again for the same key only; nothing about the age of the list is used. A port is not found only if the map has all of them; the map of egress ports has those of the old rules and of the new ones and no other,
so that counting its keys gives `PortsSufficeAlways` (`NoPortMeansAllUsed`, `AsManyKeysAsPorts`; an egress key counts twice because its old port is kept and not found again). If the gateways were listed as they
are, the map of ingress ports has theirs (`ListedInv`), so that a new rule shares a port with a rule of another key only where two of the gateway did before, whatever was disturbed. The mirror needs that the gateways done so far are right
(`MirrorInv`), that a reconcile that listed an old copy of a service leaves that service unclean, and, for deletions, that what is not there has no rules (`AbsentIsEmpty`). The stability of ingress ports and the distinctness of a gateway's need `SharedInv`, about whole reconciles that nothing disturbs: between them a gateway shows
the ingress rules of all forwarders, so that the map of its ports has them; ports and keys are one-to-one in the map, so that the rules of a forwarder that is written, but
is not in the gateways yet, clash with none, and a key that was there gets its port back.

**RuleInputsProofs.** `IInv` is inductive; `TypeCorrect` and `ForwardersAreNotLeftStale` follow. `ReadInv` says of every line of the reconcile what the spec generated so far has
in common with the caches: the sources it went through are those of the ExternalService in the cache, their addresses those of the endpoints in the cache, or else the service
is queued, or the notification is under way that will queue it. `CacheInv` says that every
forwarder follows the caches, or its service is queued, or the reconcile at hand is going to write it. `OnlyWholeSpecsAreWritten` is the other side of a source that
cannot be served: nothing is written for its service, not even the ingress rules, whose loop does not look at the gateway's name. Its invariant `WholeInv` is separate: it follows the names
that the egress loop has looked at (`cr \ todo`) up to the gateways that are written from the cached Forwarder. TLC has checked it on the instance of `inputs`.

**TunnelProofs.** `IInv` is inductive; `ConnectionsNeedTheirClient`, `CanceledTunnelCarriesNothing`, `ForwardLeavesNothing` and
`OnlyCancelAndTimeEnd` follow. They need that a tunnel listens exactly while its goroutine is in the loop (`Listening`), that it has a client exactly
while it is in `Forward` (`ClientInForward`), and that late connections are of canceled tunnels. `ForwardLeavesNothing` is about the deferred calls: at whatever line
`Forward` returned, client and listener are closed and every connection is cut off.

**TunnelMapProofs.** `MapInv` is `IInv` with `NoOrphanTunnel`: what is in the maps is what was started and not canceled
(`NoTunnelIsOrphaned`). It rests on `RunningKeepsStarted`: no step of a goroutine starts a tunnel or forgets that one was
started. With it every step of maps and tunnels is a step of `Tunnel` (`MapsRefineTunnels`), so that the theorems of
`TunnelProofs` hold under the maps. One of them, that only Cancel and the 15 minutes end a goroutine, gives `NoEntryIsDead`: what a map holds works or will try again until
its time is over, which is when it is right that a pass skips what is in the map.

**WorkQueueProofs.** `IInv` is inductive: `Queued` says that the queue holds exactly the dirty keys that are not being processed, without
duplicates, which is what makes the deferred `Done` safe; `Coming` finds the key that was not seen in one of the places it may be in.
Two lemmas about sequences (`AppendElements`, `TailElements`) reduce the queue to the set of its keys. `ChangesAreNotLost` follows,
and `Refinement`: every step is one of `Wakeups` or leaves its variables alone.

**LifecycleProofs.** `CleanupInv` is inductive as it stands, for any names: at each line of the clean-up, and as long as every copy it read was current,
what it has gone through is gone (`CleanupIsComplete`). `RequestInv` is inductive if no two ExternalServices have one name (`DistinctNames`, a hypothesis of the theorems
and not an assumption of the module, as the code does not see to it), and `RequestsAreNotLost` follows. The argument is about caches: a copy of an ExternalService is
behind, but never of a life before the last (`CacheInv`); a reconcile gets past the writing of the rules only with the pod in its cache, so a pod that goes later wakes
the operator by leaving the cache (`DoneInv`, `KeptInv`), even if the server never told of its end before.
`CleanupSparesTheLiving` is the safety of the clean-up with respect to everybody else: without a fault, no step takes service, Forwarder or pod from an ExternalService that has its finalizer and
is not being deleted. What is taken, is taken in a clean-up under the name at hand (`OnlyCleanupTakes`), and `AtHandInv` says that the one at hand is not such a one, although the copy that says
so may be of its former life. No run states it, as `lifecycle` has one ExternalService; a search of 13 million states with two of distinct names found no counterexample, and it finds one as soon as they share a name.

## 5. Only model-checked, and not modelled

Model-checked only: liveness (`EventuallyDelivered`, `EventuallyServed`, `DeadServerNoticed`, `DeletionCompletes`,
`EventuallyInGateway`, `ForwarderFollows`, `GatewaysFollow`, `Settles`, `ConnectionsEnd`, `RuleIsServed`, and that of `ImplementsWakeups`), which
is out of the prover's reach. Every invariant and every action
property of the passing runs is proved (those of `tunnel` that are about tunnels alone by way of `MapsRefineTunnels`), and so is the safety of the refinements.

Not modelled: two ExternalServices of one name (a hypothesis
of `Lifecycle`'s theorems); two egress rules of one key at a time, which share a relay port and so the address of two tunnels in one map
(`TunnelMap` has two kinds of rule with an address each; that a tunnel retries while another holds its address is in `Tunnel`); a failed List in the map function of endpoints
(`externalservice_controller.go:131`), which drops the request and does not happen with a synced cache; the bytes of a connection and the gateway's half of it (`DirectTCPIPHandler`, which has no state
of its own beyond a connection and joins its halves as `doForward` does); `stopSshd`, which nothing calls; the set-up in
`cmd/manager/main.go` (configuration); generated clients (their calls are the atomic steps of the API server), deep copies and listers, manifests
and scripts. External code is modelled from its use: the API server's versions, the watch, client-go's informer and work queue, backoff/v4's
retry loop, gliderlabs/ssh, iptables.

## 6. Where the code and its comments differ

* `EgressPortsStable`: `reconciler.go:131` of the operator says that a relay port in use is kept; `genUsedPortsForEgress` enters keys
  that `genRelayPortForEgress` never looks up, so all egress ports move at each reconcile.
* `GatewaysUpToDate`: `README.md:19`, "keep configurations for forwarder and gateway up-to-date"; `updateGatewayRules` writes the gateways that the ingress
  rules name now, and one that a service has left keeps its rules (and the mark Updating, if a failed update set it). `GatewaysFollow` says what is kept up to date.
* `CancelEndsForward`: `pkg/util/ssh.go:105`; the `break` at line 135 leaves the `select` only.
* `CreatesTunnels`: `README.md:20`, "It creates ssh tunnels to gateway"; a failure more than 15 minutes after a tunnel's start is not retried (the
  backoff's `MaxElapsedTime` runs from the start, `pkg/util/ssh.go:41`), and `ensureSSHTunnel` skips what is in the map. A canceled
  tunnel that keeps its listener has the same effect on its successor. `RuleIsServed` says when neither is in the way.
* `DeletesAllRelated`: `reconciler.go:557` of the operator; a failed Delete, and a copy that is not in the cache yet, count as deleted.
  `ClearedIsGone` says when the comment is right.

More, without a run: the greatest relay port is 65536, which is no TCP port (`pkg/util/util.go:17`). `ensureSshdRunning` of the gateway agent skips a server that
gave up, as `ensureSSHTunnel` does (`pkg/gateway/reconciler.go:91`): `EventuallyServed` supposes that none did, and `DeadServerNoticed` shows that the gateway is
recalled at least. `pkg/forwarder/reconciler.go:77` and `pkg/gateway/reconciler.go:67` say that a failed check returns an error to requeue; it returns nil, and the
repair is started by the event of its own write, which is why `NoLostWork`, `NoLostSync` and `EventuallyDelivered` hold all the same. And `README.md:20` says that a forwarder
pod is created per external server; pods are looked up by name in one namespace, so that two ExternalServices of one name in two namespaces share one.

## 7. Plan

Done: the two protocols over `CRStatus`, the operator's allocation of ports with the ports that deletions free, the rules as a function of inputs that change, the life of an
ExternalService, the agents' controller, the tunnels under the agent's maps. Next, in this order:

1. **Lemmas about `RuleInputs`' gateways**: that a gateway which the rules name is written with what the caches hold, as a theorem.
2. **Forwarder with gateway**: a connection gets from pod to server once both are announced, and what happens when only one is; this is where
   `DirectTCPIPHandler` belongs.
