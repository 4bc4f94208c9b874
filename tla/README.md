# Verification of masson and the ryba recipes

`masson` (`src/legacy/masson`) is the orchestrator which deploys the services
of `ryba`: from a description of clusters, services and nodes it computes a
complete configuration, then runs a command (`install`, `start`, `check`, ...)
on every node over SSH. The recipes themselves (`src/legacy/ryba`,
`src/packages`, `src/legacy/masson/{commons,core}`) are idempotent actions in
literate CoffeeScript, executed by the external library nikita.

The logic of the program is in three places, which this project models in
detail: the normalisation of the configuration (`lib/config/normalize.js` and
`affinities.js`), the run of a command on the nodes (`lib/commands/clusters.js`)
and the secret store (`lib/secrets.js`). Paths below are
relative to `src/legacy/masson/` unless they start with `src/`.

## Inventory

| Part | State | Operations | Interacts with |
|---|---|---|---|
| Loading (`lib/index.js`, `lib/config/load.js`, `lib/params.js`) | none | reads and merges files, declares the command line, one command per name found in the services | hands the merged object to normalisation |
| Discovery (`lib/config/normalize.js:123-262`, `341-467`) | the registered services, their dependencies, the calls of `discover_service` under way | load a module, bind a dependency, register an auto service (recursive call), enable, disable or reject dependencies, validate what the nodes declare | module loader (`await`); hands its result to placement |
| Placement (`normalize.js:469-652`) | the graph, the affinities and instances of the services, the lists of services of the nodes | sort, resolve affinities from dependents to dependencies, hand nodes over to auto dependencies, sort the lists, validate local dependencies | affinity handlers |
| Configuration (`normalize.js:653-754`) | the options of the instances | merge the options of a service, run its configure functions | functions of the recipes, which read and write the options of other services |
| Affinity handlers (`lib/config/affinities.js`) | none | resolve generic, tags and nodes affinities to node ids | called by placement |
| Run of a command (`lib/commands/clusters.js`) | per node: phase, position; globally: what is up | filter, open SSH, call plugins, call commands, report errors | nikita sessions in parallel; recipes which wait for services of other nodes |
| `exec` (`lib/commands/exec.js`) | none | one shell command per node in parallel | - |
| Secret store (`lib/secrets.js`, `lib/commands/secrets`) | encrypted file, copy cached in memory | init, get, set, unset | several promises or processes on one file |
| File server, PKI (`lib/server.js`, `lib/commands/{server,pki,grpc}`) | pid file; certificates | start, stop, status; openssl | child processes |
| Store, graph, configure, init (`lib/config/store.js`, `lib/commands/{graph,configure,init}.js`) | none | lookups, printing, project creation | - |
| Recipes (`core`, `commons`, `src/legacy/ryba`, `src/packages`) | that of the machines | install, configure, start, wait, check | each other, through waits on ports |

What is hard in this code:

* **Discovery.** It iterates over objects to which recursive calls add
  services, so some services are visited by the recursion only and others
  twice; the variables `did` and `dcluster` outlive an iteration; a dependency
  is bound to what is registered at that time. It must end on cyclic auto
  dependencies, register a module once per cluster, and leave no dependency
  which the rest of the file cannot follow.
* **Placement.** One pass in reverse dependency order has to deliver the nodes
  of every chain of auto dependencies; the affinities are resolved once.
* **Configuration.** Configure functions read what other services computed:
  the order of the graph is a correctness condition.
* **Run.** Parallel nodes, each sequential, which wait for each other without
  any time limit: circular waits, nodes kept by the failure of another one,
  plugins which have to come before the actions they hook.
* **Affinities.** A small language of nested conditions, with a default which
  depends on the number of values, and handlers which accept more than they can
  resolve.
* **Secret store.** Read-modify-write across awaits, a cached copy which must
  follow the file, a file which is truncated before it is written, processes
  which overlap.

`PROJECT.json` lists each of these at its line, with the properties which
cover it or the reason why none does.

## Modules

| Module | Models |
|---|---|
| `Discovery` | `normalize.js:132-262` and `341-467` |
| `PlacementInput` | what discovery hands over to placement |
| `Placement` | `normalize.js:469-755` |
| `RunInput` | what placement hands over to the run of a command |
| `Affinities` | `affinities.js:42-338` and the calls of its handlers at `normalize.js:272-304`, `501-531`, `573-595` |
| `ClusterRun` | `clusters.js:14-133`, `lib/utils/array_get.js` |
| `Rollout` | what a run promises, the abstract specification of `ClusterRun` |
| `Secrets` | `lib/secrets.js`, `lib/commands/secrets` |
| `SecretStore` | what the secret store promises, the abstract specification of `Secrets` |
| `MCDiscovery`, `MCPlacement`, `MCAffinities`, `MCClusterRun`, `MCSecrets` | inputs for TLC |
| `DiscoveryProofs`, `LoadingProofs`, `BindingProofs`, `HandoverProofs`, `PlacementProofs`, `AffinitiesProofs`, `ClusterRunProofs`, `SecretsProofs` | TLAPS proofs |

`Discovery`, `Placement` and `ClusterRun` are stages of one pipeline. What a
stage receives is one record chosen from the constant `Inputs`; the assumption
`InputsAssumption` (predicate `WellFormed`) says what the former stage
guarantees. The stages are composed through these predicates, which stand in
modules of their own: `Discovery` instantiates `PlacementInput` and shows that
what it ends with satisfies it (`ReadyToPlace`), and `Placement` does the same
with `RunInput` (`ReadyToRun`). A theorem about one stage therefore holds of
what comes out of the stage before it. Both properties name the configurations
which they exclude, because on those the code does break the contract.

Definitions whose comment begins with *Mutant* are wrong variants of the
definition which follows them. They are used to confirm that the properties can
fail and are no part of any specification.

### Discovery

`svc` is `config.clusters[].services`, keyed by cluster and id; `order` is the
order of the keys of these objects. `at` and `queue` are the two loops of
normalize.js:240-262. `queue` is fixed when the inner loop starts, because
`for in` does not visit keys added later. `stack` holds the calls of
`discover_service`: the service, the next dependency (`next`; 0 before the
module is loaded) and the locals `did` and `dcluster`. The code never runs two
calls at once, since every call is awaited; the steps are `Load` (143-165),
`Bind`, `RegisterAuto` and `RejectBind` for one dependency (165-236), `Leave`,
the loops `NextCluster` and `Visit`, `Check` (341-412), then `AcceptNodes` and
`RejectNode` (413-467).

A dependency is a record of its options. `"c:s"` is split into `prefix` and
`service`, as line 175 does. The options come from the module and from the
configuration (`given`), and a visit writes `service` and `cluster` into them;
`Merged` says what is left of each when the module is merged over them (160). A
dependency written as a string (`text`) replaces what it is merged over. `listed`
are the services of the nodes, written as an object or an array. The final status
says how the normalisation ends: `done`, or a rejection, one per
`Promise.reject` or TypeError (`crash`; `nocluster` is the one of line 455).

Left out: a dependency which only the configuration has, or options for some of
the dependencies of a module only, which would change their order; the
collision of an auto service with a declared service whose *id* is a module
name but whose module is another one (`WellFormed` excludes it; line 233 would
overwrite the declared service); an option `id` of a service which is not its
key (199 would bind a dependency to that id, under which no service is
registered); the check of the type of the input (98-131) and
of commands (305-330).

### Placement

The services and enabled dependencies come from discovery. `Sort` chooses any
topological order: the order tsort returns depends on insertion order, and
nothing may rely on more. `Place` treats one service, last to first:
`instances` are the nodes its affinities match, `nodeServices` receives it, and
its nodes become an affinity of its auto dependencies (496-596). `Reorder`,
`Validate`, `Merge`, `Configure` and `NextService` are the following loops, a
configure function being one step. `Reorder` chooses, for every node, any
rearrangement of its list (`Rearrangements`) which is sorted by position in the
graph (`Sortings`): `Array.sort` promises no more. That there always is one is
proved (`SortingExists`). `graph.add` is skipped when the target has
the same name as the service, in whichever cluster (481): predicate `Orders`.
An affinity is a set of nodes, and several combine to their union, as the
generic any affinity of 502-510 does. Left out: a dependency which is present
but which the configuration disables; when it is also local and required, 616-651
still validate it.

### ClusterRun

`each(nodes, true, handler)` (26) starts one handler per node; `phase[n]` is
what it does and `pos[n]` its position in `node.services`. `Filter` is 26-49,
`Open` 50-72, `Plugin` and `EndPlugins` 73-90, `Command` and `EndCommands`
91-118. The steps of different nodes interleave freely. `Command` is enabled
once the instances its recipe waits for are up, as in
`src/legacy/ryba/hive/server2/start.coffee.md:14-16`. It is one step: the
waits of a recipe come first. `Orphan` is `array_get` throwing.

A call can fail on the nodes of `flaky`, or because of an orphan service. What
nikita, which is not part of the repository, then does with the calls already
scheduled is left open: the node stops (`Fail`), goes on with the commands
(`AbandonPlugins`) or with the next command (`AbandonCommand`).

The code does not know what is up: it runs the command of every selected
service, also of one which is up beforehand, and the waits of the recipes are
all that depends on it. `up` is therefore a matter of the machines, and the
history variable `ran` tells the commands which this run has run.

`Rollout` has only `input`, `ran` and `up`. It says when the command of an
instance may run: once, when those its recipe waits for are up and, on a node
where nothing fails, after the commands of those before it there (`Before`),
whether or not these are up beforehand. Its fairness says that a command which
may run on such a node runs. `ClusterRun` implements it with the same three
variables: `InOrder` is the safety part, `Served` the fairness.

### Affinities

One service goes through the three places of `normalize.js` which deal with its
affinities: `Normalize` treats one affinity (272-304), `HandOver` one dependent
which is placed (573-595), `Place` the service itself (501-531). A node is a
record of its id, its fqdn and its tags; the key of a node, its id and its fqdn
are different things in the code, and in the model. `shape` says how the values
of an affinity are written in the configuration, a string, a list or an object;
`names`, `tags` and `values` are the keys of the object which `normalize` makes of
them, and which everything after it reads.

The handlers call each other for the affinities inside a generic one. Each of
these recursions is one step operator which is given what the recursive calls
return (`Accepts`, `Resolved`, and for the properties `Means`, `Leaves` and
`Affects`), and a recursive function over the set `Affinity` of affinities
(`Accepted`, `Resolution`, `Meaning`, `Alternative`, `LeftOpen`, `Affected`). The
constant `Depth` bounds, for every affinity, how deep it nests others; `Affinity`
is its domain. Affinities come from a file and are finite trees, so there always
is such a bound.

`match` models the functions of `affinities.js:246-327`, with the elements a loop
reaches before it returns, because an element which is not reached does not
throw. `Crash` stands for a TypeError, `Undefined` for what the stub of type
`services` returns. `Meaning` is the definition by sets the results are compared
with; `Placement` takes this result as given. `Alternative` is what the handlers
return when every match which is not given is read as `any` instead of the
default `all`, and `LeftOpen` tells the affinities for which that makes a
difference: `normalize` wants a match for several values of a tag, of a tags or
of a nodes affinity (129-142, 220-222), but neither for none nor for several
parts of a generic one (44-74), of which line 91 takes those all parts agree on.

Left out: two nodes with the same `id` in an affinity of nodes (166-170 collects
ids in a list, of which 521-530 would make two instances; here they are a set);
malformed values of a tag or a node inside an array are one shape; an
empty string as a tag; a number given as the values of a nodes affinity, which
is taken for an empty list.

### Secrets

A client is a terminal, which runs one command after the other, each in a
process and with a `Store` of its own. A step ends at an `await`: `Exists`
(160-172), `StoreInit` (100-107), `Read` and `ReadFails` (45-59, 116-140),
`SetProperty` and `UnsetProperty` (38-43, 78-98, the synchronous part up to
`writeFile`), `Open` and `Write` (the two halves of `fs.writeFile`).
`copy` is `Store.iv` and `Store.raw`, which the steps of one command share, so
that the loop of `secrets unset` (14-31) works on the cached copy. `Kill` may
end a process anywhere, and `Remove` is the user doing what the message of
`secrets init` tells him. A content is its size and its secrets: `Over` says what
two writes which overlap leave.

`secrets set` has no option `overwrite` in the model: the guard reads a variable
which is always undefined (`set.js:12-17`), so the option has no effect. `get`
stands for all the readers. As it is written, `get.js` fails after it has read the
store (it assigns to an import at line 16), and `show.js` does not load (it
calls `require` in a module); the state is not concerned. The name and value of
a secret are opaque: generated passwords (`set.js:39-42`) and nested properties
(`lodash.set`) are left out. A failure of the file system other than a missing
file is left out too.

`SecretStore` is the promise to a user. Its two variables are the secrets and, for
every client, the change it was `asked` to make: `Create`, `Put` and `Drop` change
the secrets at the property that was asked for and nowhere else, to the value
that was asked for, and `Proceed` takes the next property of an `unset`. There are
two limits, and both are tied to what causes them. A client may leave `Broken`
only when its command ends while the secrets show its own change (`End`, `Made`):
that is a process killed inside `writeFile`. And the secrets become `Unknown` only
when a change begins while another is under way (`Begin`), or when the file is
removed meanwhile (`Remove`); they stay so until the last command has ended. So
the promise says nothing of commands which overlap: the lost updates of
`secrets.js:92` and the second `init` of `secrets.js:100-107` are outside it, and
`PROJECT.json` lists them as hazards without a property.

The refinement mapping takes `store` to `View`, the content handed to `writeFile`
while a write is under way and the file otherwise, and `asked` to the job of the
clients whose command changes the store (`Asked`); `overlapped` is a history
variable.

## What is checked

| Run | Result | Shows |
|---|---|---|
| `discovery` | holds | `NoReentry`, `AutoOnce`, `AllLoaded`, `EnabledExist`, `BoundByModule`, `AutoWanted`, `ReadyToPlace`, `Shrinks`, `Settles` |
| `discovery_leak` | violated | a dependency by module is bound to the service named by the dependency before it (`did`, 174-180) |
| `discovery_early` | violated | a required module is reported as not defined although an auto dependency bound later, of the same service in the trace, registered it |
| `discovery_cluster` | violated | a dependency by module to an undeclared cluster is a TypeError at 191 instead of being disabled or rejected (354-368) |
| `placement` | holds | `RejectsCycles`, `ConfiguredAfterDeps`, `MergedBeforeRead`, `AutoCoLocated`, `ListedOnce`, `NodeOrder`, `ReadyToRun`, `AutoSatisfiesLocal`, `Settles` |
| `placement_clash` | violated | services of the same name in two clusters are not ordered (481), so an auto dependency misses nodes |
| `placement_orphan` | violated | a node may list a service without an instance there, on which `array_get` throws |
| `cluster_run` | holds | `PluginsFirst`, `LocalDepsFirst`, `NoDeadlock`, `Isolation`, and the refinement of `Rollout` (`InOrder`, `Served`) |
| `affinities` | holds | `UnionOfMeanings`, `HandedOver`, `DefaultSettlesOnlyOpen`, `AcceptedResolves` |
| `affinities_none` | violated | `match: none` throws on a node without the tag (`affinities.js:305-317`) |
| `secrets` | holds | the refinement of `SecretStore` (`Promise`), `MixedByOverlap` |
| `secrets_overwrite` | violated | `secrets set` replaces a secret without the option `overwrite` (`set.js:12-17`) |

The violated properties state what the repository says (a test, a comment or
an assertion, quoted in `PROJECT.json`), and their counterexamples are
behaviours of the code. The properties that hold take these defects into
account explicitly: `Orders` in the placement properties, `Unnamed` in
`BoundByModule`, `Forced`, `Unforced` and `Listed` in `EnabledExist` and
`ReadyToPlace`, `MayFail` (which includes orphans) in those of the run.

### Bounds

* *discovery*: clusters `c1`, `c2` declared and `c3` not; up to two declared
  services per cluster, or none, with and without an empty object; module `a`
  with two dependencies of any of twenty-one kinds,
  `b` with none or one, `m` with none. The two dependencies of `a` are what the
  leak of `did` and the order of binding need. Auto dependencies of `a` on `b`
  and of `b` on `a` close cycles, and those to `c2` register services in a
  cluster still to be visited, so that second visits happen. With the modules in
  which `b` has no dependency, the configuration adds one of six options to the
  first dependency of `a` in `c1`, or a node declares one of four lists of
  services: known and unknown ones, without a cluster, without a service, and
  one twice. The stack reaches depth four, and every rejection occurs.
* *placement*: three services, two with the same name; two dependencies from
  all pairs and five kinds, so that chains, diamonds, cycles and self
  dependencies occur; two nodes; affinities which overlap, or are absent; one
  service declared by a node. Two dependencies give a chain of auto
  dependencies of length two, which is where a one-pass propagation could fail.
* *cluster_run*: three services, two nodes, four lists per node, three graphs,
  three filters, a flaky node and an orphan. Beforehand nothing is up, or `a` is
  wherever it is listed, or `b` on one of the nodes only, or all but `a`: what is
  up may come before or after what is not, and differ between the nodes, while
  its command is run like any other. Two nodes with three services are enough for
  a circular wait.

* *affinities*: three nodes, one with two words of a tag, one with one of them,
  one without the tag; a node whose id or fqdn is not its key; every type, shape
  and match; up to two affinities, generic ones nested at most twice, and up to
  two dependents. Two words and two tags are what separates the modes. Generic
  affinities with one, two and no parts come with and without a match, also inside
  another one: each of the cases `LeftOpen` names makes a difference in some input.
* *secrets*: two terminals, two properties, two secrets, `unset` of one or both
  properties. Two processes are what overlapping needs; two properties show that
  one command keeps the other property, also between the two writes of one
  `unset`. A content has the size of what it holds, a secret counting for one, so
  that a shorter content is written over a longer one.

All the systems are finite for a given input, so no counter is capped. The runs
of the pipeline do not check deadlock, because these systems legitimately stop:
the normalisation returns or rejects, and a run ends, or waits for ever for what
a failed or unselected node does not start. The runs of `Secrets` check it. `Settles` and `Isolation` state
when stopping must be an orderly end.

### Fairness

`Discovery` and `Placement` are sequential programs which wait for nothing but
the loading of a file: weak fairness of `Next`. In `ClusterRun` each handler has
weak fairness of its own (`WF_vars(Advance(n))`), because the event loop and the
independent SSH sessions do not let one node hold another. Failures have no
fairness. A command is assumed to end once what it waits for is up. `Affinities`
and `Secrets` have no liveness property and no fairness.

## What is proved

TLAPS checks the following for every value of the constants, from
`InputsAssumption` and, for `Discovery`, `NoneAssumption` (the sentinel is no
option) and `FiniteAssumption` (finitely many clusters and names); for
`Affinities`, `AffinityAssumption` (the fields of an affinity, and that what it
nests is less deep) and `SentinelAssumption` (a missing value, a TypeError and a
set are different things). Every invariant and every action property which the
runs check is proved.

* `DiscoveryProofs`: `TypeOK`, `NoReentry` and the action property `AutoOnce`.
  The inductive invariant `Inv` adds to these `Known` (everything listed,
  queued or on the stack is registered) and `OwnModule` (a service whose id is
  a module some dependency gives has that module, and the dependencies of a
  service are those of its module). `OwnModule` is needed because the key of a
  new auto service is its module: that no service *with the module* exists must
  imply that the *key* is new.
* `LoadingProofs`: `AllLoaded`, on top of `Inv`. `AllVisited` says where a
  registered service can be: on the stack, still to be visited (`Awaiting`: in
  the queue, or in a cluster the outer loop has not reached), or loaded.
  `CallsLoaded` says that a call has bound the dependencies before the next one,
  so that a service is loaded when its call ends, and `NothingLeft` that the
  last pass starts with nothing to visit. A service is registered with its call
  on the stack, which is why the loop which has passed its cluster is not needed.
  Then the action property `Shrinks`, which says why the discovery ends: every
  step makes the six numbers of `ToDo` fewer, in the order of their positions. A
  registration, which adds a visit and a call, takes a service from the finitely
  many which are not registered; a second visit takes one from the queue; and
  the dependencies a call has left are at most those of its module, by
  `OwnModule`. That such lists of numbers cannot become fewer for ever is the
  supporting lemma `FewerWellFounded`, which is about numbers and says nothing of
  the code by itself. What is missing for `Settles` is that a step is taken as
  long as the status is not final, which is the fairness, and stays with TLC.
* `BindingProofs`: `BoundByModule`. `VisitedOnce` says that a declared service
  which is to be visited still has the options of the configuration only, which
  holds because the keys of an object are distinct (`NoDuplicates`) and what is
  registered is new. So `CallsUnnamed`: its call remembers no service before one
  is named, and has bound nothing past its position. `DeclaredSelected` is then
  the property itself, at every moment; a binding lasts because services are only
  added and keep their module. Then `AutoWanted`. `CallsFit` says that a dependency which has been
  loaded keeps what its module defines, and `Wants` lists what makes a dependency
  want a service again after a second merge: the module may name neither another
  service nor another cluster, nor disable it. That the module does not is known
  when the service is registered, because nothing was found then. It relies on a
  dependency written as a string not being auto.
* `HandoverProofs`: `EnabledExist` and `ReadyToPlace`, on top of `Inv`. The
  invariant `Switching` follows the option `disabled` of a dependency: before
  `Check` it is `FALSE` only if the module or the configuration says so, however
  often the dependency is merged and bound; after it, the option is decided, and
  what is not forced is to a registered service. `Validated` keeps the verdict
  on the nodes until the end. For `ReadyToPlace`, `Inv` gives the types and
  `OwnModule` the module an option comes from.
* `PlacementProofs`: all the invariants of the placement. `IInv` is made of
  `GraphSorted`, `Handover` (a placed dependent has given its nodes to its auto
  dependencies; a placed dependency has those of all its dependents), `Progress`
  (what is before the current position is merged and configured, and nothing
  after it) and `Listed` (the lists of the nodes hold registered services, each
  once, every instance is in the list of its node, and past the sort the lists
  follow the graph). A rearrangement is a composition with a bijection, so the
  sort keeps what the lists hold (`SortedList`), and sorting by positions, which
  are distinct, is strict. `SortingExists` shows by insertion that a list can
  always be sorted, so `Reorder` is never stuck; `OrderingExists` lists the services
  one after the other, taking one which needs none of those left, so `Sort` is
  possible unless there is a cycle (`RejectsCycles`). `ListedOnce`, `NodeOrder` and
  `ReadyToRun` follow from `Listed`; the latter is what `ClusterRun` assumes.
* `AffinitiesProofs`: all the invariants of `Affinities`. The proof first shows
  that the handlers' recursion is well-defined, once for every recursion: a
  function whose value at an element depends on less deep elements only exists
  and is unique in what it returns (`RecursionExists`, then `AcceptedRecurs`,
  `ResolutionRecurs`, `MeaningRecurs`, `AffectedRecurs`, `AlternativeRecurs`,
  `LeftOpenRecurs`). `MatchCombines` says that
  the loops of `affinities.js:246-327`, with their early returns, compute the
  intersection, union or complement of `Combine`, for values listed in any order.
  From it follow what a tag, a tags and a nodes affinity resolve to, and by
  induction on the depth (`AllSettled`) that every accepted affinity resolves to
  its meaning unless it is `Affected`. For the default, intersection and union of
  one set are the same (`DefaultsMatch`), which settles the affinities with one
  value or part; for those with several values `normalize` wants a match; and by
  induction (`AllReadTheSame`) what is nested resolves alike, unless it is
  `LeftOpen`. The inductive invariant `IInv` says that
  what is normalised was accepted (`AllAccepted`), that the nodes handed over are
  still among the affinities (`HandedKept`) and that the instances are what the
  affinities resolve to (`Decided`).
* `SecretsProofs`: `TypeOK`, the action property `MixedByOverlap` and the
  refinement `Promise`. `IInv` adds `InHand`, what a command holds in each phase
  whatever the others do, `Alone`: unless commands have overlapped, at most
  one is changing the store, and what it has read is still what the file has
  (`UpToDate`), and `OverlapEnds`, which ends an overlap with its last command.
  `SecretsInHand` states the part of it which says that no command writes back
  secrets it has not read. Every step is then a step of `SecretStore` on `View`
  and `Asked`, or a stutter: `Open` is where a command takes effect (`OpenView`),
  `Kill` of a writer breaks the store, and it can, since the view shows the change
  of that writer (`ChangeMade`), and `Write` only goes on to the next property.
  The steps of commands which are alone (`LoneStep`), which begin to overlap
  (`OverlapBegins`) and which do (`OverlapStep`) are three lemmas. The assumptions
  are that the sentinels are no contents, that there are finitely many
  properties, and that `unset` is given at least one.
* `ClusterRunProofs`: `TypeOK`, `PluginsFirst`, `LocalDepsFirst`, `NoDeadlock`
  and the refinement `InOrder`: a step of `Command` is a `Start`, since the node
  passed the filters (`Targeted`) and, if nothing fails there, has run what comes
  before (`Reached`, `EarlierRan`, and the order of its list). That no command
  runs twice needs the position of every node, failures or not (`Behind`,
  `NotYetRan`).
  `Reached` says what a node without failures has done in each phase. For
  `NoDeadlock`, if no node of an independent set can advance, each unfinished
  one waits in a command; the one whose command comes first in the graph waits
  for an instance which comes earlier still, on a node of the set, which must
  have run it. The least rank exists because the order of the naturals is
  well-founded, so the argument needs no bound on the number of nodes.

Model-checked only: the liveness properties (`Settles` of `Discovery` and of
`Placement`, `Isolation`, `Served`), since liveness under fairness is outside what
the prover does, and that nothing but a final state stops `Secrets`, which is
about `ENABLED`.

## What is not modelled

* The loading and merging of files, printing, project creation, PKI: input
  and output without interleaving.
* `params.js` is a declaration of the command line; the model of the secrets
  commands takes their arguments from it.
* `server.js`: a shell script per operation; `start` calls `require.resolve` in a
  module which has no `require`, and always throws.
* `enrich.js`: nothing imports it. `exec.js`: nodes without interaction.
* The bodies of the recipes: sequences of idempotent shell actions whose
  scheduling is nikita's.
* Option values, templates and data merging, except where a merge decides how a
  dependency is bound.
* The exit status of a run, whose errors are written and dropped
  (`clusters.js:119-132`).

## Plan

In order; each module comes with its runs, mutants and, where it applies, proofs.

1. What makes `Placement` and `ClusterRun` end, as `Shrinks` does for `Discovery`,
   by proof.
2. Procedures of the recipes which span nodes: HDFS high availability
   (`src/legacy/ryba/hadoop/{hdfs_nn,zkfc,hdfs_jn}`), rolling upgrades
   (`src/legacy/ryba/lib/upgrade`), MongoDB replica sets
   (`src/packages/storage/mongodb`) and MariaDB replication
   (`src/packages/mariadb/server/replication.coffee`).
