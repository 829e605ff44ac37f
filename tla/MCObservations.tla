--------------------------- MODULE MCObservations ---------------------------
(* The manifests, the launches and the messages of observations.cfg. *)
EXTENDS Observations

Plain(name, t) ==
  [name |-> name, type |-> t,
   params |-> [topic |-> name, sensor |-> FALSE, canonical_beams |-> None,
               encoding |-> "rgb8", require_plan |-> FALSE, lookahead |-> 14]]
Alias(a, target) == [alias |-> a, target |-> target]
Manifest(sources, aliases) ==
  [datasources |-> sources, aliases |-> aliases, goal_inputs |-> None, depends_global_plan |-> FALSE]
Vla(sources, aliases) == [Manifest(sources, aliases) EXCEPT !.goal_inputs = GOAL_INPUTS]

TfPose == Plain("robot_pose_from_tf", RobotPose)
Goal == Plain("goal_pose", PoseStamped)
GoalExplicit == [Plain("goal_explicit", PoseStamped) EXCEPT !.params.topic = "goal_pose"]
Plan == Plain("global_plan", Path)
Costmap == Plain("costmap", OccupancyGrid)
FromPlan == Plain("subgoal_from_plan", Subgoal)
Standing == [FromPlan EXCEPT !.params.require_plan = TRUE]
Camera == Plain("camera", Image)
Depth == [Plain("depth", Image) EXCEPT !.params.encoding = None]
Jpeg == Plain("jpeg", CompressedImage)
Scan == Plain("scan", LaserScan)
WideScan == [Plain("wide", LaserScan) EXCEPT !.params.canonical_beams = 12, !.params.topic = "scan"]

Steering == <<TfPose, Goal, Plan, Costmap, FromPlan>>
ToSubgoal == <<Alias("goal_pose", "subgoal_from_plan"), Alias("robot_pose", "robot_pose_from_tf")>>

ManifestsDef ==
  {[Manifest(Steering, ToSubgoal) EXCEPT !.depends_global_plan = TRUE],
   Manifest(<<TfPose, Goal, Plan, Costmap, Standing>>, <<>>),
   Manifest(<<TfPose, Goal, FromPlan, Plan>>, ToSubgoal),           \* no costmap at all
   Manifest(<<Goal, Plan, Costmap, FromPlan, TfPose>>, <<>>),       \* the pose comes too late
   Vla(<<TfPose, Goal, GoalExplicit, Camera>>, <<Alias("target", "goal_explicit")>>),
   Vla(<<Goal, Camera>>, <<Alias("aim", "goal_pose"), Alias("target", "aim")>>),
   [Vla(Steering, ToSubgoal) EXCEPT !.depends_global_plan = TRUE],
   [Vla(<<Camera>>, <<>>) EXCEPT !.goal_inputs = {}],
   Manifest(<<Scan>>, <<>>),
   Manifest(<<WideScan>>, <<Alias("lidar", "wide")>>),
   Manifest(<<Camera, Jpeg>>, <<Alias("camera", "jpeg"), Alias("rgb", "camera")>>),
   Manifest(<<Plan, Depth>>, <<>>),
   Manifest(<<Plain("scan", "sensor_msgs/PointCloud2")>>, <<>>),
   Manifest(<<[Camera EXCEPT !.params.sensor = TRUE]>>, <<>>)}

LaunchesDef == {{}, {"pose"}, {"instruction"}, {"smell"}}

PosesDef == {<<2, 4>>, <<4, 6>>, <<10, 2>>}

Along(points) == [EmptyMessage EXCEPT !.path = points]
Plans == {EmptyMessage,
          Along(<<<<2, 4>>, <<2, 4>>, <<14, 4>>, <<14, 16>>>>),
          Along(<<<<2, 4>>, <<12, 4>>, <<4, 4>>, <<4, 14>>>>)}
Blocking(cells_) == [EmptyMessage EXCEPT !.blocked = cells_]
Costmaps == {EmptyMessage, Blocking((10 .. 11) \X (0 .. 8)), Blocking({<<9, 4>>, <<12, 4>>, <<4, 9>>, <<4, 10>>})}
Looking(ranges, from, by) ==
  [EmptyMessage EXCEPT !.ranges = ranges, !.angle_min = from, !.increment = by]
Scans == {EmptyMessage, Looking(<<5>>, 0, 1), Looking(<<5, 9>>, 0, 0)} \union
         {Looking(rs, from, by) : rs \in {<<3, 9, NoReturn>>, <<1, 20, 5, 8>>, <<4, 8, 6, 2, 7, 3>>},
                                  from \in {-6, 0, 5}, by \in {-2, -1, 1, 2}}
Frame(data, encoding) == [EmptyMessage EXCEPT !.data = data, !.encoding = encoding]
Frames == {EmptyMessage, Frame("pixels", "rgb8"), Frame("pixels", "mono8"),
           Frame("corrupt", "rgb8"), Frame("pixels", "unknown")}
At(p) == [EmptyMessage EXCEPT !.point = p]

MessagesDef == [topic \in {"goal_pose", "global_plan", "costmap", "camera", "depth", "jpeg", "scan"} |->
  CASE topic = "goal_pose" -> {At(<<30, 31>>), At(<<31, 30>>)}
    [] topic = "global_plan" -> Plans
    [] topic = "costmap" -> Costmaps
    [] topic = "scan" -> Scans
    [] OTHER -> Frames]
=============================================================================
