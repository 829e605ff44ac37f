----------------------------- MODULE MCResolver -----------------------------
(* A VLA planner and a nav2 planner, the latter elsewhere than in a         *)
(* directory of its name, that share a submodule; and a local planner.     *)
EXTENDS Resolver

Section(path, planners) == [path |-> path, planners |-> planners]

NamesDef == {"navid", "hateb", "mine"}
PathsDef == NamesDef \union {"shared", "cohan"}
LayoutsDef ==
  {<<Section("navid", {"navid"}), Section("shared", {"navid", "hateb"}),
     Section("cohan", {"hateb"})>>,
   <<Section("shared", {"navid", "hateb"}), Section("navid", {"navid"}),
     Section("cohan", {"hateb"})>>}
ContentDef ==
  [p \in PathsDef |-> CASE p \in {"shared", "hateb"} -> {}
                        [] p = "cohan" -> {"planner.yaml"}
                        [] OTHER -> {"planner.py", "planner.yaml"}]
(* Two commits of navid, with a good and a broken planner.yaml. *)
DeclaredDef ==
  {[p \in PathsDef |-> CASE p = "navid" -> m [] p = "cohan" -> "invalid" [] OTHER -> "plain"] :
     m \in {"vla", "broken"}}
PluginsDef == {"nav2_dwb::DWB", "hateb::Hateb"}
MatchesDef == [q \in PluginsDef |-> IF q = "hateb::Hateb" THEN {"hateb", "mine"} ELSE {"navid"}]
=============================================================================
