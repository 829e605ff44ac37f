# A TLA+ model of arena_planners

This directory holds TLA+ modules for the parts of this repository that keep state:
the planner bridge, the moves and chunks it executes, the observation pipeline that
feeds it, the weights cache, the planner registry and the social cost layer; TLC
configurations that model-check them on small instances; and TLAPS proofs.
`src/` below is the root of the repository; `bridge/`, `sdk.py`, `weights.py` and
so on are under `arena_planners/arena_planners/`.

## 1. The system

A planner (a learned local planner for a robot) runs in a subprocess with its
own Python environment.  An edge node in the Arena process drives it:

    Arena adapter --> PlannerEdgeNode --obs, control--> PlannerSDK --> Planner
                      (asyncio loop,  <-action, acks--  (one loop)
                       I/O thread)
                          |  cmd_vel
                          v
                        robot

| component | source | state it keeps | operations | interacts with |
|---|---|---|---|---|
| wire protocol | `bridge/protocol.py` | none (frame classes) | encode, decode | both ends |
| transport | `bridge/transport.py` | four PUSH/PULL sockets, high-water marks | send (may block, raise), poll, close with linger 0 | both ends |
| planner process | `bridge/edge_node.py` 132-189 | the child and its return code | start, is_alive, stop | edge node |
| edge node | `bridge/edge_node.py` | stage, `_dead`, two queues, `_seq`, `_driving`, `_execution`, `_signal`, last twist | setup, `_io_loop`, run_loop, `_follow_loop`, request_cancel, request_reset, teardown | transport, process, robot, owner |
| planner SDK | `sdk.py` | `_active`, the episode, the poll loop | handshake, reset, cancel, obs, shutdown, heartbeat | transport, planner |
| move and chunk execution | `bridge/discrete.py`, `bridge/chunk.py` | a Move or Chunk (frozen), its deadline | start, step | edge node |
| projection, geometry | `bridge/projection.py`, `geometry.py`, `observations/utils/` | none | pure functions | edge node, observations |
| observation pipeline | `observations/pipeline.py` | named collectors and generators | add, alias, from_config, collect, reset, shutdown | edge node, ROS callbacks |
| data sources | `observations/data_sources/` | last message, cached value, staleness | update, get_observation, reset | ROS callbacks, pipeline |
| goal inputs | `goal.py` | none | declared, reveal, withhold_pose, initial_state | launch, pipeline |
| weights cache | `weights.py` | files, markers and links on disk | read, missing, fetch | several processes, Hugging Face cache |
| registry and resolver | `registry.py`, `resolver.py` | none (reads `.gitmodules`, directories, manifests, the ament index) | all_planners, planner_dir, is_vla, resolve | adapter, command line |
| command line, MCP, CoHAN bridge | `__main__.py`, `mcp.py`, `cohan_peds_bridge.py` | none worth the name | print, republish | registry, weights |
| social cost layer | `arena_social_cost_layer/` | pedestrians, box of the last cycle | callback, updateBounds, updateCosts, reset | costmap thread, ROS callback |

What is hard: the node is one event loop with three kinds of tasks (run loop,
follow loop, requests) plus an I/O thread; the planner is a second process that
can be slow, hang, fail, be killed or speak another version; four channels are
ordered each on its own and not among each other; acks carry no id; under
lockstep the simulation stands still while the node waits, so a wait that does
not end is a deadlock of everything; a deadline may break off any wait and leave
its answer under way.

What makes each part correct:

* edge node - nothing moves the robot after a cancel until a reset returned; the
  planner is asked only when no move or chunk is in progress; answers belong to
  the latest observation; every wait ends; teardown ends and tells the truth.
* SDK - active exactly between Reset and Cancel; every frame handled once, in
  the order of its channel; failure never leaves a live but deaf process.
* execution - every move or chunk ends; the twist of each instant is the one of
  its entry.
* weights - a file is only taken for verified if its content has the hash.
* pipeline - an observation holds nothing received before the last reset and
  nothing the run withholds; no message and no reset makes collect fail.
* geometry - the lookahead is the point that far along the plan, the chord to it is
  clear, and each ray of a scan says what the laser saw in that direction.
* resolver - registry, resolver, command line and MCP tools agree on a planner's
  directory, and its name keeps its meaning, or its error, while other things come and go.
* cost layer - costs are written inside the announced bounds, old ones removed.

## 2. Plan

Order: the bridge first (it carries the robot's safety and all the concurrency),
then what it abstracts, then the components beside it.

Done:

1. `Wire`, `PlannerProcess`, `EdgeNode`, `PlannerSDK`, composed in `Bridge`; the
   edge node alone against any peer in `AnyPeer`.
2. `EdgeProofs`, `AnyPeerProofs`, `BridgeProofs`: proofs for every value of the constants.
3. `Robot`, an abstract specification of what the robot sees, with `Bridge` and
   `Execution` both shown, by TLC and by proof, to implement it.
4. `Execution`: the rules of `chunk.py` and `discrete.py` under the clock, with
   proofs in `ExecutionProofs`.
5. `WeightsCache`: concurrent and killed fetches, markers and links; proofs in
   `WeightsProofs`.
6. `SocialCostLayer`: callback against update cycle; proofs in `SocialCostProofs`.

7. `Geometry` and `Observations`: collectors updated by ROS callbacks between
   collect and reset, generators in manifest order, aliases, the goal inputs a
   launch reveals, and the pure functions behind them; proofs in `ObservationProofs`.
8. `Resolver`: registry and resolver over a workspace that changes under them;
   proofs in `ResolverProofs`.

Left:

9. `EdgeNode` with the observation of `Observations` instead of a number, so that
   what is observed and what is executed are seen in one state.

## 3. The modules

| module | models |
|---|---|
| `Wire` | frames and the four channels (`protocol.py`, `transport.py`) |
| `PlannerProcess` | the child process, what its exit does to the channels, when a send may fail |
| `EdgeNode` | `PlannerEdgeNode`: one action per stretch of code between two awaits, one per branch of the I/O thread |
| `PlannerSDK` | `PlannerSDK.run`: handshake, poll, one action per handler |
| `Bridge` | both ends together, fairness, the properties, the mapping to `Robot` |
| `AnyPeer` | the edge node against a planner that sends any frame at any time |
| `Robot` | abstract: engage, halt, ask, answer, follow |
| `Execution` | how moves and chunks start, step and end (`discrete.py`, `chunk.py`, `_advance_execution`) |
| `WeightsCache` | fetch and check of one dest by several processes (`weights.py`) |
| `SocialCostLayer` | the costmap layer and its callback (`social_cost_layer.cpp`, `cost_math.hpp`) |
| `Geometry` | lookaheads, chords over the costmap, the canonical scan (`geometry.py`, `chunk.py`, `utils/`) |
| `Observations` | the pipeline, its data sources and the goal inputs (`observations/`, `goal.py`) |
| `Resolver` | registry, resolver and their readers (`registry.py`, `resolver.py`, `__main__.py`, `mcp.py`) |
| `MCBridge`, `MCAnyPeer`, `MCExecution`, `MCObservations`, `MCResolver`, `MCWeights`, `MCSocialCost` | the TLC instances |
| `EdgeProofs`, `AnyPeerProofs`, `BridgeProofs`, `ExecutionProofs`, `WeightsProofs`, `SocialCostProofs`, `ResolverProofs`, `ObservationProofs` | theorems and proofs |

An operator marked `\* mutant` is a plausible bug of the definition below it; it is
used by no specification, only to see that a property would notice.

### The bridge

A channel is a sequence; an action queue or ack queue of asyncio is a sequence.
`loop` is the program point of run_loop: `acquire` waits for the beat lock, `idle`
for the next tick, `await` for an action.  `waiting[c]` is the program point of a
caller inside `_drain_until`.  `execution` stands for `_execution`: 0 for None,
else the episode the action was computed in, which is history.  `cmdVel` is the
last twist published, moving or zero.  `dead` is `_dead is not None`.  `signal` is
`_signal`: 0 when empty, else the episode it was sent in.  Numbers in Cancel and in
the two acks, and the episode and presence of a signal in an Action, are history:
the code never reads them.  Two callers with a request under way take acks from one
queue, and one may throw away the ack the other waits for (edge_node.py:656); nothing
in the repository issues two requests at once, so no property promises that both
return, and `any_peer` checks the robot's safety with two.  `io` is the thread, `stage` the point setup or teardown
has reached.

An action is what the code does from one await to the next: `request_cancel`
clears `_driving`, stops the execution, publishes zero and sends the Cancel in
one step, because nothing else runs on the loop meanwhile.  Sends are part of
the step; a send may fail when no peer is connected or the pipe is full, and may
succeed into a pipe whose peer has just died.

Choices where the code depends on data that the model drops: a move or chunk
goes on, ends at rest, or (chunks) ends keeping its twist; an action carries a
usable vector or not; a frame decodes or not.  `Execution` derives the first of
these from the clock.

Left out on purpose: the node drops heartbeats when it receives them (it never
reads the time of the last one), the beat lock's owner, warnings, the ROS
publishers.  `mark_dead` is one step; in the code it tests and sets `_dead` from
two threads without a lock, so two died errors could be queued instead of one,
which changes nothing since the first already ends the loop, and a loop entered
again finds `dead` at its first wait.

### Execution

Time is simulated time counted in physics steps, of which the rates of both loops
are multiples (`_snap_intervals`).  The code computes with floats; a time read or
stored is off by -1, 0 or 1 in units of which a step has 8 and `_TIME_EPS_S` has 3,
so that the tolerance is larger than the rounding and smaller than a step, as it
is in the code.  `due` holds the ticks that a loop has not handled yet: the rate
events of one loop merge, and time goes on meanwhile, which is how ticks come late.
`left` is how far the target is; a robot that drives comes nearer or is blocked.
`execution` is the Move or Chunk with its deadline and end as the code computes
them; `seen` and `start` are history for the properties.

### Weights cache

Each file operation is an action, for a process may be killed between any two.  A
file's content is named by its hash.  `link` is where the symlink `dest` points,
`Dest` itself when dest is a plain file or missing; `urlMark` and `hfMark` are the
two kinds of marker.  A process's `job` is its program counter with the entry it
read from the manifest, and `target` the path it resolved; reading through the link
again is reading `link` again, which is where races come in.  `checkout` changes
the manifest, at most `Checkouts` times.

### Social cost layer

The grid has one axis; on each axis boxes, clipping and reach do the same thing.
A box is the set of cells it covers, moved inside the grid as
`worldToMapEnforceBounds` does.  A cell has social cost or has none, so the
Gaussians and weights are left out.  `updateBounds` and `updateCosts` are one action
each; `phase` is where the costmap's thread is between them, and the pedestrian
callback, the passing of `stale_timeout` and the other layers (which may ask for
bounds of their own) come at any time.  The reset of the master grid inside the
bounds, which Nav2 does between the two calls, is part of `updateCosts`.

### Observations and geometry

A manifest is a record of datasources and aliases in their order.  `Setup` is the
launch reading the goal inputs, withholding the pose it does not reveal, and
`Pipeline.from_config`; a manifest that any of them refuses ends there.  `Deliver` is
a subscription callback with any message of its topic: an update, or an error of
`_preprocess` in the middle of it.  `Collect` is one `Pipeline.collect` and
what `_filter_wire_features` sends on; each look at TF in it finds a pose or fails.
`Reset` is the pipeline's part of request_reset with the payload it sends along.
`received` and `collected` are history.

Lengths are whole units of 5 cm, the sampling distance of a chord, and paths run
along the axes, so that walking a path is exact; the chord from the robot to the
carrot may have any direction, and its points are kept as fractions.  The division
that counts the samples may come out just below a whole number (0.3 / 0.05 does);
each candidate may or may not be hit by that.  Bearings are units of which a turn has
`Turn`; interpolated ranges round down.  The lookaheads are translated as the code
walks, not as the property (`Ahead`) does.

What the model makes visible without a property:

* The docstring of `lookahead_clear_on_path` (geometry.py:77) wants the whole
  segment traversable, but samples further apart than a cell is wide step over a
  corner or, with a length that is no multiple of 5 cm, over a single cell; hence
  `CarrotChordClear` speaks of two blocked units in a row.  It excepts a chord of
  three units, which a plan that turns back may lead to: 0.15/0.05 is
  2.9999999999999996 in floating point, so that its two samples are its ends.
* `withhold_pose` removes aliases of what it drops, not aliases of these; such a
  manifest is then refused by the pipeline, which is loud and safe.
* A message delivered after a reset may have been queued before it (`hazards`,
  `pipeline.py:96`).

### Resolver

`disk` maps a directory to the files in it that somebody looks at, with `"dir"` when
it is there at all, and `manifest` to what its `planner.yaml` holds: no
`goal_inputs`, a valid one, an invalid one, or something that is no YAML mapping.
`.gitmodules` is a sequence of sections, because both searches for a directory take
the first section of a name, one of them the first that is there.  Everything in
`Next` is the environment: git checks a submodule out file by file and leaves the
directory when it removes it, developers write and delete planners, agents are
trained, packages installed.  The functions of the code are operators over that
state; each reads the disk in one step, so a command that is overtaken by a
checkout half way is not covered.

Observations from it: a planner that shares a submodule listed before its own has
two directories, the shared one for fetch and planners_list and its own for
launches, which is why `OneDirectory` assumes `OwnFirst` (every entry of
`.gitmodules` at this commit meets it).  `is_vla` raises for a planner that is not
checked out, though its docstring (resolver.py:302) says it is then False; `resolve`
never asks it then.  While a checkout is under way a VLA planner may resolve to the
drl adapter.

Errors.  A result that is an exception is a record `Raises(error)`.  `goal.declared`
raises `ValueError` for `goal_inputs` that are empty or hold an unknown input
(goal.py:19-20), the parser raises for a `planner.yaml` that is no YAML, and
`declared` for one that is no mapping; `"YAMLError"` stands for all that is not a
`ValueError`.  `is_vla` and `resolve` (resolver.py:306, 379) let both through, so a
planner that `ls` marks `[x]` may fail to resolve on account of its own manifest:
`CheckedOutResolves` says that it then raises that error, and that no agent or nav2
plugin of the same name is taken instead.  `_entry` (mcp.py:90) turns a `ResolverError`,
`OSError` or `ValueError` into the entry's `manifest_error`; a YAML error is none of
them and fails `planners_list` for every planner (`list_fails`).  `CheckedOutResolves`
is about planners with their `planner.py` in their own directory; one without, as
CoHAN's, is marked `[x]` with its submodules and does not resolve in the registry.

## 4. The runs

| run | instance | question |
|---|---|---|
| `bridge_safety` | chunk planner, one caller, no deadline, everything can fail | all safety properties |
| `bridge_fair` | fair planner that may crash or fail, no deadline | every wait and teardown ends |
| `bridge_hanging` | velocity planner that may hang, deadline, loop entered twice, control pipe of one frame | the deadline alone ends the waits; late answers do not pile up; teardown raises no error after a setup that ended |
| `any_peer` | any peer, deadline, two callers (symmetric), discrete actions | what does not depend on the SDK: the node implements `Robot` |
| `bridge_reset` | no failures at all | refutes the docstring of `signal` and "Cancel and reset stop it" for reset |
| `weights` | two processes, two hashes, both kinds of entry, one checkout | what survives races and kills |
| `weights_race` | two processes, Hugging Face entries, three checkouts | refutes "whose content misses its sha256 counts as missing" |
| `execution` | all three kinds, 18 steps | timing, ends, and that the rules implement `Robot` |
| `social_cost` | six cells, three positions, one outside the grid | painted whole, inside the bounds, removed by the next cycle |
| `social_ghost` | the same | refutes "older pedestrian messages are ignored" |
| `observations` | fourteen manifests, four launches, three plans, three costmaps, 39 scans | nothing of an older episode, nothing withheld, no failing collect; the geometry |
| `resolver` | a VLA planner and a nav2 planner that share a submodule, a local planner | one directory and one meaning per installed planner; what ls marks resolves by its own manifest or raises its error |

Bounds of the bridge.  `MaxSeq` observations, `MaxRequests` requests and `MaxRuns`
entries of the loop per session bound the counters; a session ends in teardown at
any point.  Two observations are enough for an answer to be late by one; three
requests are enough for cancel, reset and a second cancel, or for an old episode,
a new one and a request in between; two entries of the loop are enough for
answers of the first to reach the second.  `ControlHWM` is 1 or 2 instead of the
real mark, so that a full pipe happens.  Deadlock checking is off: a session that
is down stops.

Bounds of the others.  18 steps are enough for three chunks of the instance one after
another, with dt, horizon and rates chosen not to divide each other; deadlock
checking is off because time ends there.  In `weights` one checkout gives an old and
a new entry; the counterexample of `weights_race` needs three.  Processes that have
ended may begin again, so the runs have no bound on the number of fetches; deadlock
says nothing there, since a process that is idle may always begin.  The cost layer has no counters: its state space is whole.

`observations` has no bound either: messages, collects and resets go on for ever over
finitely many states.  Its manifests are the shapes the planners of this repository
and its tests have (a subgoal under an alias, `require_plan`, no costmap, goal inputs, cameras), and
those the code must refuse (unknown type, a sensor nobody bound, an empty
`goal_inputs`, a generator before its dependency).  Plans hold a repeated point, a
corner and a way back; scans run both ways, from three angles, over a part of the
circle and over all of it.  `resolver` has two orders of the same
three submodules, two commits of one planner (with a valid and an unreadable
`planner.yaml`), and developers who write `planner.py` and a valid or invalid
`planner.yaml` under two names, `Drafts`; agents come under two names, `Agents`.

Fairness (`EdgeFairness`): asyncio runs a callback that stays ready, the I/O
thread polls both sockets in each round, and an owner that decided to stop
cancels its tasks.  `SdkFairness`: the planner process keeps running and step()
returns; strong fairness of the two polls says that a socket that is readable
again and again is seen, since the round handles data only when it saw no control
frame.  No fairness for crashes, ticks or calls of the owner.  The hanging run
drops `SdkFairness` altogether.

What the refutations show.

* `bridge_reset`: an Action sent before the planner handled the Reset waits in the
  action queue while the ack is taken.  request_reset stops the execution before
  it sends the Reset, empties the signal and drives again once it has the ack; the
  run loop then publishes the Action, whose signal and chunk are those of the old
  episode.  `ResetStartsAfresh` asks for one of the two only, so a trace that
  violates it refutes both texts.
* `weights_race`: the path of the marker is resolved from dest before dest is
  hashed.  A link replaced in between gives the new file's hash to the old file's
  marker; if later manifests bring the old file back under dest, a fetch verifies it
  before that late write of the marker, and they then ask for the new hash, a check
  that runs alone believes the marker.
* `social_ghost`: updateCosts reads the pedestrians afresh.  A message that arrives
  after updateBounds is painted where the bounds happen to reach, which `last_box_`
  does not remember; if it goes stale before the next updateBounds, nobody asks for
  those cells again and its costs stay.

One more disagreement is visible in the model without a run of its own: README.md:23
speaks of "declaring it dead" when a deadline passes, but the wait then raises
without recording `_dead`, so the next request is sent and waited for.  This is why
`DiedLoopRefusesRequests` is checked and proved only without a deadline.

`HealthyTeardown` is checked for planners that do not crash: once setup has ended,
teardown raises no error.  After a setup that was given up it may, since a planner
that waits for the Init reads the Shutdown instead and exits with an error.  The
codes of terminate and kill count as clean, so teardown does not tell a planner it
killed from one that the system killed; the run loop reports that death itself.

## 5. The proofs

All theorems hold for every value of the constants that meets the assumptions of
the modules.  Where a theorem needs more, its statement says so and so does the
paragraph below: no deadline, one caller, a planner that does not fail, at least one
process.  Nothing else is assumed.

`EdgeProofs` is about the edge node alone, whatever the planner does: its types
(`NodeTypeOK`), one lemma per group of actions, with the facts about Append, Tail and
SubSeq that the steps need as lemmas of their own; and three lemmas about its steps.

* `StandstillEdge`: `~driving` implies no execution and zero twist.  Inductive given
  the types: request_cancel establishes both sides at once, `robot_response`
  refuses to move while not driving, and `follow_loop` needs an execution.
* `WaitingEdge`: no execution while the loop waits.  Inductive given the types,
  because only `await_action` starts an execution and it leaves `await`.
* `RobotStep`: each action of the node, given these, is a step of `Robot` or a
  stutter.

`AnyPeerProofs` and `BridgeProofs` put a peer beside the node and get from these
lemmas what holds of the node alone and of the whole bridge.  For the node against
any peer: `PeerTypeCorrect`, `PeerStandstill`, `PeerImplementsRobot`, and
`AnswersLatest`, since the guard of `await_action` compares the number of each answer
with `obs_seq`, whatever numbers the peer made up.  For the bridge: `TypeCorrect`,
`Standstill`, `QuietWait`, `BridgeImplementsRobot`, and further

* `DiedLoopRefuses`, without a deadline: a crashed loop implies `dead`.  The
  invariant adds that a died error in the queue implies `dead`.
* `InFlightBounded`: the invariant counts, for each channel and the queue behind it,
  the frames of an observation or of its answer; each step of a frame moves one
  count to the next, and only the run loop adds one.  The lemmas say what Append,
  Tail and SubSeq do to such a count.
* `HealthyEnd`, for a planner that neither crashes nor fails and speaks the node's
  version: the invariant `LifeInv` relates where setup and teardown are to what the
  process may still be doing, so that it exits only after Shutdown, with code 0.
* `AcksMatch`, for one caller and no deadline: the invariant `RequestInv` says that
  at most one frame is under way between a request and its return - the request, then
  the handler's work on it, then its ack - and which wait it belongs to.  Frames of
  other kinds are kept apart by the lemmas `KeptSteps`.
* `DrivenByActive`, under the same hypotheses: with the above, `EpisodeInv` says that
  the planner's `_active` and its episode are those of the last request that
  returned, and `BeforeSession` that nothing of this exists before the handshake.

`ExecutionProofs` proves that velocity chunks drive the entry whose turn it is (`OnTime`),
that what is in progress is within its time (`EndsInTime`), that nothing ends early
(`EndsNotEarly`), that an ended move stands and an ended chunk drives on
(`EndsStanding`), that commands are renewed (`KeepsAlive`) and that the rules
implement `Robot`.  The invariant relates the stored times to the exact ones up to
one unit of rounding; the lemmas below it bound the quotients of `entry_index`.

`WeightsProofs` proves that markers and links of the content cache never vouch for
a wrong file.  The invariant adds that a process about to mark or link a blob has
found it right, and that another process has at most removed it since.  With at least
one process it proves what fetches deliver: `AllDone` (when the last ones have ended),
`SoloRepairs` and `SoloDelivers` (one that ran alone).  `DeliveryInv` adds that a
process past its hash check fetches the blob its manifest asked for (`FetchesBlob`),
what each point of a fetch that runs alone relies on (`SoloInv`: what it has read is
still there, since nobody else moves), and that as long as one of the fetches of the
present manifest has linked, or runs on to link, dest is as asked (`LastLinkStands`).

`SocialCostProofs` proves the types, `NoGhost` and `PaintedWhole`.  The invariant adds
that `last_box_` covers what the last updateBounds announced and that the bounds of a
cycle in progress cover all social cost there is; the lemma `BoxCoversCost` says that
what updateBounds asks for holds every disk and capsule that updateCosts paints.

`ResolverProofs` proves `OneDirectory`, `RegistryWins` and `CheckedOutResolves` for
every `.gitmodules` and every content of the repositories.  The invariant adds to the
types that a path with a file in it is a directory; `FirstIs` gives the least index
of a nonempty set of sections.  `ResolvesByOwn` says what an installed planner's name
means, a record or an error, in terms of its own directory alone; the last two
theorems follow from it.

`ObservationProofs` proves what a collect returns, although from_config and
collect are folds and a walk along a plan is a recursive function.  A fold is
followed as a run, a sequence of its intermediate values (`FoldRun`), and induction is
over the set of indexes at which something holds, which needs only that every nonempty
set of naturals has a least element (`Inductive`).  `Collecting(s, i)` says what the
dictionary holds after i generators, and `Ready` whether the next one raises.

* `Observing`: what setup builds has a source behind every name (`Built`), and what a
  step needs of the states before it.  `NothingOld`: what is observed of a topic or of
  TF arrived since the last reset (`Fresh`).  `KeepsWorking`: after one collect that
  worked none raises (`Complete`).  `GoalKept`: a withheld goal reaches the planner under
  no name (`Withheld`).  They rest on `ManifestsAssumption` (a name has one source) and
  `GoalAssumption` (no other topic carries a goal point).
* `LookaheadsMeet`: the lookaheads of planner and bridge are the same point.
  `LookaheadWalks`, `LookaheadsRight`: it is the point that lies the
  distance further along the plan.  Running sums of lengths (`Ways`) place the points
  of the walk; on a piece along an axis the projection is the only closest point
  (`PieceClosest`), so the first closest point of the walk is the projection on the
  first closest segment (`WalkNearest`).  `Following` says that the plans at
  hand are plans of the instance.  `PlansAssumption` keeps these along the axes, which
  is where whole numbers measure lengths exactly.
* `ScansRight`: every ray of a canonical scan says what the message says about its
  bearing.  With the beams counted in the direction the laser turns, their bearings
  are a ring (`InRing`, from `Beams`): how far each lies before a ray and how far after
  it add up to a turn.  The beam on a ray is the nearest one on both sides, and two
  neighbours that enclose a ray are the nearest ones (`NearestOn`, `NearestBetween`);
  then it interpolates between their ranges (`ReadsRight`).  `Scanning` says that a
  collector holds what its message gives.  `ScansAssumption`: a laser looks at most
  once in each direction, otherwise several beams answer for one bearing.  This leaves
  out a full circle whose first and last beam look the same way, as Gazebo sends it
  (test_scan_contract.py:47).
* `CarrotRight`: past the minimum lookahead no two units in a row of a straight chord
  are blocked.  A sample belongs to the cell of the unit of the chord it falls into,
  on both sides of the origin, where truncation makes one wide cell of two
  (`SameCell`, `PairCell`); samples at most two units apart reach every pair of units
  (`Sampled`, `AxisSampled`), and only a chord of three units is sampled more
  coarsely (`SamplesOf`).  That is said of the function (`CarrotClears`); `Aimed`
  carries it through collect, whatever the order of the generators and their aliases.
  `AsNamed` is part of the property: a manifest may bind the name of the plan or of
  the costmap to anything, and then the subgoal is computed from that.
  `PlansAssumption` also says that a lookahead is no negative number.

Only model-checked: liveness (`AwaitEnds`, `RequestsReturn`, `TeardownCompletes`), since
fairness and ENABLED are out of the prover's reach, and the three runs that expect a
violation.  No module declares a RECURSIVE operator.

## 6. Not modelled

See `components` in `PROJECT.json`.

* `projection.py` and `world_to_robot_frame`: rotations and clamps of floating-point
  numbers without state.  Whole-number models of them would show nothing about the code.
* Pixels: resizing, normalising and colour order of images.
* The lookup of global planners, package names and nav2 plugin files: parsing.
* `cohan_peds_bridge.py`: one variable, written by a callback and read by a timer of
  the same executor.  It goes on publishing its last message, with that
  message's stamp, when pedestrians stop arriving; no text says otherwise.
* The jobs that run `arena feature planners`: the command is not in this repository.
