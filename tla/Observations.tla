---------------------------- MODULE Observations ----------------------------
(***************************************************************************)
(* The observation pipeline of a planner's edge node (observations/        *)
(* pipeline.py and its data sources) and the goal inputs a launch reveals  *)
(* (goal.py): the manifest becomes a pipeline, messages fill its           *)
(* collectors in any order, each tick collects an observation, and each    *)
(* episode begins with a reset.                                            *)
(*                                                                         *)
(* A pose is its point.  Who publishes a topic, TF and the launch that     *)
(* withholds the goal are outside of this repository.                      *)
(***************************************************************************)
EXTENDS Geometry, SequencesExt

CONSTANTS
  Manifests,  \* the manifests planners declare
  Launches,   \* the values of robot.mobile.goal: sets of goal inputs, {} none
  Messages,   \* name of a datasource -> messages on its topic
  Poses,      \* points TF places the robot at
  None        \* Python's None

(* Datasources and aliases are dicts: a name has one source. *)
ASSUME ManifestsAssumption ==
  \A m \in Manifests :
    /\ DOMAIN m = {"datasources", "aliases", "goal_inputs", "depends_global_plan"}
    /\ m.datasources \in Seq(ToSet(m.datasources)) /\ m.aliases \in Seq(ToSet(m.aliases))
    /\ \A d, e \in ToSet(m.datasources) : d.name = e.name => d = e

VARIABLES
  manifest,  \* what the planner declares
  goal,      \* the launch's choice among its goal inputs
  phase,     \* "new", "running", "refused" by setup, "dead" by a raise in collect, "stopped"
  pipeline,  \* _collectors: name -> source; _generators: <<name, source>>s in order
  cells,     \* collector -> _latest_msg, _value and _stale
  tf,        \* TF generator -> _last_pose
  obs,       \* what the collect just done returned, None when another step followed
  payload,   \* initial_state of the last reset
  received,  \* history: sources with data since the last reset
  collected  \* history: some collect has worked

vars == <<manifest, goal, phase, pipeline, cells, tf, obs, payload, received, collected>>

-----------------------------------------------------------------------------
(* The manifest: datasources and aliases in their order.  A datasource is  *)
(* [name, type, params]; a parameter its type does not take is never read. *)

Image == "sensor_msgs/Image"
CompressedImage == "sensor_msgs/CompressedImage"
LaserScan == "sensor_msgs/LaserScan"
Path == "nav_msgs/Path"
OccupancyGrid == "nav_msgs/OccupancyGrid"
PoseStamped == "geometry_msgs/PoseStamped"
RobotPose == "RobotPoseTFGenerator"
Subgoal == "SubgoalGenerator"

CollectorTypes == {LaserScan, Image, CompressedImage, "nav_msgs/Odometry", Path, OccupancyGrid,
                   PoseStamped, "geometry_msgs/Twist", "arena_people_msgs/Pedestrians"}
GeneratorTypes == {RobotPose, Subgoal}

GOAL_INPUTS == {"pose", "instruction"}

datasource(m, name) == CHOOSE d \in ToSet(m.datasources) : d.name = name
type(m, name) == datasource(m, name).type
params(m, name) == datasource(m, name).params

(* A point published as the goal is no other: TF never places the robot on *)
(* it, and no other topic of poses carries it.                             *)
GoalPoints == {msg.point : msg \in Messages["goal_pose"]}

ASSUME GoalAssumption ==
  /\ GoalPoints \intersect (Poses \union {None}) = {}
  /\ \A m \in Manifests : \A d \in ToSet(m.datasources) :
       d.type = PoseStamped /\ d.params.topic # "goal_pose" =>
         GoalPoints \intersect {msg.point : msg \in Messages[d.params.topic]} = {}

(* Plans run along the axes, so that walking them stays in whole units.    *)
Rectilinear(path) == \A i \in 1 .. Len(path) - 1 : \/ path[i][1] = path[i + 1][1]
                                                   \/ path[i][2] = path[i + 1][2]

ASSUME PlansAssumption ==
  /\ Poses \subseteq Int \X Int
  /\ \A m \in Manifests : \A d \in ToSet(m.datasources) :
       /\ d.type = Path => \A msg \in Messages[d.params.topic] :
                             msg.path \in Seq(Int \X Int) /\ Rectilinear(msg.path)
       /\ d.type = Subgoal => d.params.lookahead \in Nat

(* A laser looks at most once in each direction.                           *)
OneTurn(msg) == /\ msg.ranges \in Seq(Nat) /\ msg.angle_min \in Int /\ msg.increment \in Int
                /\ (Len(msg.ranges) - 1) * Abs(msg.increment) < Turn

ASSUME ScansAssumption ==
  \A m \in Manifests : \A d \in ToSet(m.datasources) : d.type = LaserScan =>
    /\ d.params.canonical_beams = None \/ d.params.canonical_beams \in Nat
    /\ \A msg \in Messages[d.params.topic] : OneTurn(msg)

-----------------------------------------------------------------------------
(* goal.py.  goal_inputs is None for a planner that is not a VLA.          *)

declared(m) == m.goal_inputs
DeclarationValid(m) == declared(m) # None => declared(m) # {} /\ declared(m) \subseteq GOAL_INPUTS

reveal(value, accepted) == IF value = {} THEN accepted ELSE value
RevealValid(value, accepted) == value \subseteq GOAL_INPUTS /\ value \subseteq accepted

(* What the launch reveals; a planner that is not a VLA gets the pose. *)
Revealed == IF declared(manifest) = None THEN {"pose"} ELSE reveal(goal, declared(manifest))

GoalByName(m) ==  \* mutant
  {d.name : d \in {e \in ToSet(m.datasources) :
                     e.type = Subgoal \/ (e.type = PoseStamped /\ e.name = "goal_pose")}}

dropped(m) ==
  {d.name : d \in {e \in ToSet(m.datasources) :
                     e.type = Subgoal \/ (e.type = PoseStamped /\ e.params.topic = "goal_pose")}}

(* A dict, in order, without the entries whose field is one of names. *)
without(dict, field, names) ==
  FoldLeft(LAMBDA kept, x : IF x[field] \in names THEN kept ELSE Append(kept, x), <<>>, dict)

withhold_pose(m) ==
  [m EXCEPT !.datasources = without(@, "name", dropped(m)),
            !.aliases = without(@, "target", dropped(m))]

initial_state(revealed) == revealed \cap GOAL_INPUTS

-----------------------------------------------------------------------------
(* Pipeline.add, alias and from_config.                                    *)

(* A Python dict as a sequence: a new key goes last, an old one stays.     *)
Put(dict, name, source) ==
  IF \E i \in DOMAIN dict : dict[i].name = name
  THEN [i \in DOMAIN dict |-> IF dict[i].name = name THEN [name |-> name, source |-> source]
                                                     ELSE dict[i]]
  ELSE Append(dict, [name |-> name, source |-> source])

Keys(dict) == {dict[i].name : i \in DOMAIN dict}
Lookup(dict, name) == (CHOOSE i \in DOMAIN dict : dict[i].name = name)
Source(dict, name) == dict[Lookup(dict, name)].source

add(p, d) == IF d.type \in CollectorTypes
             THEN [p EXCEPT !.collectors = Put(@, d.name, d.name)]
             ELSE [p EXCEPT !.generators = Put(@, d.name, d.name)]

alias(p, a) ==
  IF a.target \in Keys(p.collectors)
  THEN [p EXCEPT !.collectors = Put(@, a.alias, Source(p.collectors, a.target))]
  ELSE IF a.target \in Keys(p.generators)
  THEN [p EXCEPT !.generators = Put(@, a.alias, Source(p.generators, a.target))]
  ELSE [p EXCEPT !.error = TRUE]

(* Each datasource, then each alias over what is there by then; the first  *)
(* error refuses the manifest, whatever follows it.                        *)
from_config(m) ==
  LET bad(d) == d.type \notin CollectorTypes \union GeneratorTypes
                \/ (d.type \in CollectorTypes /\ d.params.sensor)
      empty == [collectors |-> <<>>, generators |-> <<>>,
                error |-> \E d \in ToSet(m.datasources) : bad(d)]
  IN FoldLeft(alias, FoldLeft(add, empty, m.datasources), m.aliases)

-----------------------------------------------------------------------------
(* The collectors.  What a message holds becomes the collector's value;    *)
(* Raises is a message its _preprocess refuses.                            *)

EmptyMessage == [data |-> "empty", encoding |-> "rgb8",
                 ranges |-> <<>>, angle_min |-> 0, increment |-> 0,
                 path |-> <<>>, blocked |-> {}, point |-> <<0, 0>>]

raises(d, msg) ==
  \/ d.type = Image /\ msg.data # "empty"
       /\ \/ d.params.encoding \notin {None, msg.encoding}
          \/ msg.encoding = "unknown"
          \/ msg.data = "corrupt"
  \/ d.type = CompressedImage /\ msg.data = "corrupt"

_preprocess(d, msg) ==
  CASE d.type = LaserScan ->
         canonical_scan(msg.ranges, msg.angle_min, msg.increment,
                        IF d.params.canonical_beams = None THEN Len(msg.ranges)
                                                           ELSE d.params.canonical_beams)
    [] d.type = Path -> msg.path
    [] d.type = OccupancyGrid -> msg.blocked
    [] d.type = PoseStamped -> msg.point
    [] OTHER -> msg.data

Collectors(m) == {d.name : d \in {e \in ToSet(m.datasources) : e.type \in CollectorTypes}}
Trackers(m) == {d.name : d \in {e \in ToSet(m.datasources) : e.type = RobotPose}}

StaleFirst(d, cell, msg) ==  \* mutant: fresh before the message is read
  IF raises(d, msg) THEN [cell EXCEPT !.msg = msg, !.stale = FALSE]
  ELSE [msg |-> msg, value |-> _preprocess(d, msg), stale |-> FALSE]

(* Collector.update: a message _preprocess refuses leaves value and        *)
(* staleness as they were.                                                 *)
update(d, cell, msg) ==
  IF raises(d, msg) THEN [cell EXCEPT !.msg = msg]
  ELSE [msg |-> msg, value |-> _preprocess(d, msg), stale |-> FALSE]

(* Collector.get_observation; no collector of the registry has a fallback. *)
get_observation(cell) == IF cell.stale THEN None ELSE cell.value

-----------------------------------------------------------------------------
(* The generators.  A reading of TF is a pose, or None when can_transform  *)
(* or lookup_transform raises, which come to the same.                     *)

_last_pose(last, reading) == IF reading = None THEN last ELSE reading

(* SubgoalGenerator._generate; short is the rounding of the chord lengths. *)
subgoal(d, out, short) ==
  LET plan == out["global_plan"]
      pose == out["robot_pose_from_tf"]
      costmap == out["costmap"]
  IN IF plan = None \/ pose = None \/ plan = <<>>
     THEN IF d.params.require_plan /\ pose # None THEN pose ELSE out["goal_pose"]
     ELSE IF costmap = None THEN lookahead_on_path(plan, pose, d.params.lookahead)
     ELSE lookahead_clear_on_path(plan, pose, d.params.lookahead, costmap, short)

requires(d) == IF d.type = Subgoal
               THEN {"global_plan", "robot_pose_from_tf", "goal_pose", "costmap"} ELSE {}

MissingWhenNone(d, out) ==  \* mutant: a stale source counts as missing
  \E k \in requires(d) : k \notin DOMAIN out \/ out[k] = None

missing(d, out) == ~ requires(d) \subseteq DOMAIN out

(* Pipeline.collect: the collectors, then each generator in its order, one *)
(* that is bound to several names computed once.  readings is what one     *)
(* look at TF after the other finds.                                       *)
Bind(dict, key, value) ==
  [k \in DOMAIN dict \union {key} |-> IF k = key THEN value ELSE dict[k]]

compute(s, g, d, readings, short) ==
  LET pose == _last_pose(s.tf[g.source], readings[s.looks + 1])
      value == IF d.type = RobotPose THEN pose ELSE subgoal(d, s.out, short)
      done == [s EXCEPT !.out = Bind(@, g.name, value),
                        !.computed = Bind(@, g.source, value)]
  IN IF missing(d, s.out) THEN [s EXCEPT !.raised = TRUE]
     ELSE IF d.type = RobotPose THEN [done EXCEPT !.tf[g.source] = pose, !.looks = @ + 1]
     ELSE done

generate(s, g, readings, short) ==
  IF s.raised THEN s
  ELSE IF g.source \in DOMAIN s.computed
  THEN [s EXCEPT !.out = Bind(@, g.name, s.computed[g.source])]
  ELSE compute(s, g, datasource(manifest, g.source), readings, short)

observed == [n \in Keys(pipeline.collectors) |->
               get_observation(cells[Source(pipeline.collectors, n)])]

start == [out |-> observed, computed |-> <<>>, tf |-> tf, looks |-> 0, raised |-> FALSE]

collect(readings, short) ==
  FoldLeft(LAMBDA s, g : generate(s, g, readings, short), start, pipeline.generators)

(* The source behind a name of an observation: a generator's value comes   *)
(* last and takes the name over.                                           *)
source(name) == IF name \in Keys(pipeline.generators) THEN Source(pipeline.generators, name)
                ELSE Source(pipeline.collectors, name)

(* PlannerEdgeNode._filter_wire_features: a costmap is never sent.         *)
wire(out) ==
  LET sent == {n \in DOMAIN out : out[n] # None => type(manifest, source(n)) # OccupancyGrid}
  IN [n \in sent |-> out[n]]

-----------------------------------------------------------------------------
Init ==
  /\ manifest \in Manifests
  /\ goal \in IF declared(manifest) = None THEN {{}} ELSE Launches
  /\ phase = "new"
  /\ pipeline = None
  /\ cells = <<>> /\ tf = <<>>
  /\ obs = None
  /\ payload = {}
  /\ received = {}
  /\ collected = FALSE

(* The launch reads the goal inputs and withholds the pose it does not     *)
(* reveal, then the edge node's setup builds the pipeline.                 *)
Setup ==
  LET withheld == "pose" \notin Revealed
      m == IF withheld THEN withhold_pose(manifest) ELSE manifest
      p == from_config(m)
      refused == \/ ~ DeclarationValid(manifest)
                 \/ declared(manifest) # None /\ ~ RevealValid(goal, declared(manifest))
                 \/ withheld /\ manifest.depends_global_plan
                 \/ p.error
  IN /\ phase = "new"
     /\ phase' = IF refused THEN "refused" ELSE "running"
     /\ IF refused THEN UNCHANGED <<manifest, pipeline, cells, tf>>
        ELSE /\ manifest' = m
             /\ pipeline' = p
             /\ cells' = [c \in Collectors(m) |->
                            [msg |-> EmptyMessage, stale |-> TRUE,
                             value |-> _preprocess(datasource(m, c), EmptyMessage)]]
             /\ tf' = [t \in Trackers(m) |-> None]
     /\ UNCHANGED <<goal, obs, payload, received, collected>>

Deliver(c) ==
  /\ phase = "running"
  /\ \E msg \in Messages[params(manifest, c).topic] :
       /\ cells' = [cells EXCEPT ![c] = update(datasource(manifest, c), @, msg)]
       /\ received' = IF raises(datasource(manifest, c), msg) THEN received ELSE received \union {c}
  /\ obs' = None
  /\ UNCHANGED <<manifest, goal, phase, pipeline, tf, payload, collected>>

Roundings == UNION {Candidates(d.params.lookahead) :
                      d \in {e \in ToSet(manifest.datasources) : e.type = Subgoal}}

Collect ==
  /\ phase = "running"
  /\ \E readings \in [1 .. Cardinality(DOMAIN tf) -> Poses \union {None}], short \in SUBSET Roundings :
       \E s \in {collect(readings, short)} :
         /\ tf' = s.tf
         /\ phase' = IF s.raised THEN "dead" ELSE phase
         /\ obs' = IF s.raised THEN None ELSE wire(s.out)
         /\ collected' = (collected \/ ~ s.raised)
         /\ received' = received \union {t \in DOMAIN tf : s.tf[t] # tf[t]}
  /\ UNCHANGED <<manifest, goal, pipeline, cells, payload>>

(* request_reset: sources that still have a name are reset; the goal is    *)
(* not dispatched yet, or the planner gets what is revealed of it.         *)
Reset ==
  /\ phase = "running"
  /\ cells' = [c \in DOMAIN cells |->
                 [cells[c] EXCEPT !.stale = @ \/ \E e \in ToSet(pipeline.collectors) : e.source = c]]
  /\ tf' = [t \in DOMAIN tf |-> IF \E e \in ToSet(pipeline.generators) : e.source = t
                                 THEN None ELSE tf[t]]
  /\ payload' \in {{}, initial_state(Revealed)}
  /\ obs' = None
  /\ received' = {}
  /\ UNCHANGED <<manifest, goal, phase, pipeline, collected>>

(* Pipeline.shutdown, by the teardown: nothing is subscribed any more. *)
Shutdown ==
  /\ phase \in {"running", "dead"}
  /\ phase' = "stopped"
  /\ obs' = None
  /\ UNCHANGED <<manifest, goal, pipeline, cells, tf, payload, received, collected>>

Next == Setup \/ (\E c \in DOMAIN cells : Deliver(c)) \/ Collect \/ Reset \/ Shutdown

Spec == Init /\ [][Next]_vars

-----------------------------------------------------------------------------
(* Properties.                                                             *)

Running == phase = "running"
Observed(t) == {n \in DOMAIN obs : type(manifest, source(n)) \in t}

(* What an observation holds of a topic or of TF has arrived since the     *)
(* last reset: neither a message its collector refuses nor a failing look  *)
(* at TF brings a value of the episode before back (Collector.update and   *)
(* get_observation, RobotPoseTFGenerator._generate, Pipeline.reset).       *)
NothingCarriedOver ==
  obs # None => \A n \in Observed(CollectorTypes \union {RobotPose}) :
                  obs[n] # None => source(n) \in received

(* A pipeline that has delivered one observation never fails a later one:  *)
(* what stops Pipeline.collect is a name the manifest does not provide,    *)
(* and never a source that is stale, was reset, or got a bad message.      *)
CollectKeepsWorking == collected => phase # "dead"

(* A run that withholds the goal pose keeps every point published as the   *)
(* goal from the planner, under any name, through any alias or generator,  *)
(* and out of the reset's initial_state (goal.withhold_pose,               *)
(* goal.initial_state).                                                    *)
GoalWithheld ==
  "pose" \notin Revealed /\ Running =>
    /\ "pose" \notin payload
    /\ obs # None => \A n \in Observed({PoseStamped, RobotPose, Subgoal}) :
                       obs[n] \notin GoalPoints

(* The points of a path one unit apart. *)
Walk(path) ==
  LET walk[i \in DOMAIN path] ==
        IF i = 1 THEN <<path[1]>>
        ELSE walk[i - 1] \o [k \in 1 .. Length(path[i - 1], path[i]) |->
                               PointAlong(path[i - 1], path[i], k)]
  IN walk[Len(path)]

(* From the first of the closest points of the path, d units along it, or  *)
(* as far as it goes.                                                      *)
Ahead(path, r, d) ==
  LET w == Walk(path)
      nearest == Min({Distance2(w[i], r) : i \in DOMAIN w})
      at == Min({i \in DOMAIN w : Distance2(w[i], r) = nearest})
  IN w[Min({at + d, Len(w)})]

(* On every plan received the two lookaheads of the code, the planner's    *)
(* geometry.lookahead_on_path and the bridge's chunk._lookahead, agree     *)
(* with walking the plan: around corners, over a repeated point, where the *)
(* plan doubles back, from the side of it and past its end.                *)
LookaheadsAgree ==
  obs # None => \A n \in Observed({Path}) :
    LET plan == obs[n]
    IN plan \notin {None, <<>>} /\ Len(plan) > 1 => \A r \in Poses, d \in 1 .. 12 :
         /\ lookahead_on_path(plan, r, d) = Ahead(plan, r, d)
         /\ chunk_lookahead(plan, r, d) = Ahead(plan, r, d)

(* The names a subgoal requires stand for what they say: plan and costmap  *)
(* for topics, the pose for TF.                                            *)
AsNamed ==
  /\ {"global_plan", "costmap"} \subseteq Keys(pipeline.collectors) \ Keys(pipeline.generators)
  /\ "robot_pose_from_tf" \in Keys(pipeline.generators) \ Keys(pipeline.collectors)
  /\ type(manifest, source("global_plan")) = Path
  /\ type(manifest, source("robot_pose_from_tf")) = RobotPose

(* A subgoal past the minimum lookahead is one the robot may steer at: of  *)
(* a chord along an axis no two units in a row are blocked, although it is *)
(* only sampled; not so a chord of three units, which is sampled at its    *)
(* ends where 0.15 / 0.05 comes out short of 3 (lookahead_clear_on_path,   *)
(* CostmapGrid.is_clear).                                                  *)
CarrotChordClear ==
  obs # None /\ AsNamed => \A n \in Observed({Subgoal}) :
    LET plan == get_observation(cells[source("global_plan")])
        costmap == get_observation(cells[source("costmap")])
        r == obs["robot_pose_from_tf"]
        c == obs[n]
        clear(k) == is_clear(costmap, PointAlong(r, c, k)[1], PointAlong(r, c, k)[2], 1)
    IN plan \notin {None, <<>>} /\ r # None /\ costmap # None =>
         \/ c = lookahead_on_path(plan, r, Minimum)
         \/ r[1] # c[1] /\ r[2] # c[2]
         \/ Length(r, c) = 3
         \/ \A k \in 0 .. Length(r, c) - 1 : clear(k) \/ clear(k + 1)

(* Each ray of a scan says what the message says about its bearing,        *)
(* whichever way the laser turns and wherever it starts: the range of the  *)
(* beam that looks there, a range between those of the two beams it lies   *)
(* between, RangeMax where no beam looks (utils.scan.canonical_scan).      *)
ScanKeepsBearings ==
  \A c \in {x \in DOMAIN cells : type(manifest, x) = LaserScan} :
    LET m == cells[c].msg
        scan == cells[c].value
        n == Len(m.ranges)
        phi(k) == wrap((k - 1) * (Turn \div Len(scan)))
        theta(i) == bearing(m.angle_min, m.increment, i)
        off(k, i) == Abs(wrap(phi(k) - theta(i)))
        step == Abs(m.increment)
        range(i) == clean(m.ranges[i])
    IN n > 1 /\ step > 0 => \A k \in DOMAIN scan :
         /\ \A i \in 1 .. n : off(k, i) = 0 => scan[k] = range(i)
         /\ (\A i \in 1 .. n : 2 * off(k, i) > 3 * step) => scan[k] = RangeMax
         /\ \A i \in 1 .. n - 1 :
              off(k, i) + off(k, i + 1) = step =>
                scan[k] \in Min({range(i), range(i + 1)}) .. Max({range(i), range(i + 1)})
=============================================================================
