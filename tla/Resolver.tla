------------------------------ MODULE Resolver ------------------------------
(***************************************************************************)
(* Which planners there are and what a name means: the registry of         *)
(* .gitmodules and of local directories (registry.py), the resolver over   *)
(* registry, trained agents and nav2 plugins (resolver.py), and the two    *)
(* readers of both, the command line (__main__.py) and the MCP tools       *)
(* (mcp.py).  All of them only read; what changes under them, file by      *)
(* file, is the workspace: submodules are checked out and removed, local   *)
(* planners written, agents trained, ROS packages installed.               *)
(*                                                                         *)
(* A path is that of a directory below planners/, and the directory of a   *)
(* planner there has the planner's name.                                   *)
(***************************************************************************)
EXTENDS Integers, Sequences

CONSTANTS
  Names,    \* of planners
  Paths,    \* directories below planners/
  Layouts,  \* contents of .gitmodules: sequences of [path, planners]
  Content,  \* path -> the files of interest in its repository
  Declared, \* maps from a path to the content of the planner.yaml of its repository
  Drafts,   \* contents of a planner.yaml that a developer writes
  Agents,   \* names that agents are trained under
  Hidden,   \* names ending in _wrap or beginning with a dot
  Plugins,  \* nav2 controller plugins
  Matches   \* plugin -> names it matches: exact, by suffix or by prefix of it

Files == {"dir", ".git", "planner.py", "planner.yaml"}

(* What a planner.yaml holds: no goal_inputs, a valid one, one that is      *)
(* empty or has an unknown input, or something that is no YAML mapping.    *)
Manifests == {"plain", "vla", "invalid", "broken"}

NoDir == "no directory"

ASSUME ResolverAssumption ==
  /\ Names \subseteq Paths /\ NoDir \notin Paths
  /\ Layouts \subseteq Seq([path : Paths, planners : SUBSET Names])
  /\ Content \in [Paths -> SUBSET (Files \ {"dir", ".git"})]
  /\ Declared \subseteq [Paths -> Manifests]
  /\ Drafts \subseteq Manifests
  /\ Matches \in [Plugins -> SUBSET Names]

VARIABLES
  gitmodules,  \* the layout of this workspace
  disk,        \* path -> "dir" when it is one, and the files in it
  manifest,    \* path -> the content of its planner.yaml, where disk has one
  agents,      \* names with a best_model.zip below arena_training/agents
  plugins      \* installed, in the order of the ament index

vars == <<gitmodules, disk, manifest, agents, plugins>>

-----------------------------------------------------------------------------
(* registry.py                                                             *)

Sections(name) == {i \in DOMAIN gitmodules : name \in gitmodules[i].planners}
First(S) == CHOOSE i \in S : \A j \in S : i <= j

submodule_names == {n \in Names : Sections(n) # {}}
submodule_paths(name) == {gitmodules[i].path : i \in Sections(name)}
SubmodulePaths == {gitmodules[i].path : i \in DOMAIN gitmodules}

local_planners == {n \in Names \ Hidden : n \notin submodule_names /\ "planner.py" \in disk[n]}

all_planners == submodule_names \union local_planners

init(path) == ".git" \in disk[path]  \* submodule_status

present(name) == {i \in Sections(name) : "dir" \in disk[gitmodules[i].path]}

LastPresent(name) ==  \* mutant: the last directory there is instead of the first
  CHOOSE i \in present(name) : \A j \in present(name) : j <= i

first_present(name) == First(present(name))

(* registry.planner_dir, the directory fetch, check and planners_list use. *)
registry_dir(name) ==
  IF present(name) # {} THEN gitmodules[first_present(name)].path
  ELSE IF "planner.py" \in disk[name] THEN name
  ELSE NoDir

-----------------------------------------------------------------------------
(* resolver.py                                                             *)

installed_in_registry(name) == "planner.py" \in disk[name]

(* resolver.planner_dir, the directory launches and manifests use: the     *)
(* planner's own directory, else the first submodule of it, checked out or *)
(* an error.                                                               *)
planner_dir(name) ==
  IF "planner.py" \in disk[name] THEN name
  ELSE IF Sections(name) = {} THEN NoDir
  ELSE LET path == gitmodules[First(Sections(name))].path
       IN IF "dir" \in disk[path] THEN path ELSE NoDir

(* goal.declared: "None", some inputs, or an error.  "YAMLError" stands for *)
(* whatever else the parser or a manifest that is no mapping raises.       *)
declared(m) ==
  [plain |-> "None", vla |-> "inputs", invalid |-> "ValueError", broken |-> "YAMLError"][m]

Errors == {"ResolverError", "FileNotFoundError", "ValueError", "YAMLError"}

(* goal.declared(load_manifest(name)), which both readers of a manifest    *)
(* ask for.                                                                *)
declared_by(name) ==
  LET d == planner_dir(name)
  IN IF d = NoDir THEN "ResolverError"
     ELSE IF "planner.yaml" \notin disk[d] THEN "FileNotFoundError"
     ELSE declared(manifest[d])

(* Without a planner.yaml it declares nothing; any other error is is_vla's. *)
is_vla(name) ==
  IF declared_by(name) = "FileNotFoundError" THEN "None" ELSE declared_by(name)

Raises(error) == [source |-> "raises", adapter |-> "none", value |-> error]

Unresolved == Raises("ResolverError")

_nav2_match(name) == {i \in DOMAIN plugins : name \in Matches[plugins[i]]}

AgentsFirst(name) == name \in all_planners \ agents  \* mutant

in_registry(name) == name \in all_planners

(* Registry, then rosnav_rl, then nav2; a registered planner that is not   *)
(* installed, or whose manifest is_vla cannot read, is an error, whatever  *)
(* the sources below it hold.                                              *)
resolve(name) ==
  IF in_registry(name)
  THEN IF ~ installed_in_registry(name) THEN Unresolved
       ELSE IF is_vla(name) \in Errors THEN Raises(is_vla(name))
       ELSE [source |-> "registry", value |-> name,
             adapter |-> IF is_vla(name) = "None" THEN "drl" ELSE "vla"]
  ELSE IF name \in agents
  THEN [source |-> "rosnav_rl", adapter |-> "rosnav_rl", value |-> name]
  ELSE IF _nav2_match(name) # {}
  THEN [source |-> "nav2", adapter |-> "nav2", value |-> plugins[First(_nav2_match(name))]]
  ELSE Unresolved

-----------------------------------------------------------------------------
(* The readers.                                                            *)

AnyPath(name) == \E p \in submodule_paths(name) : init(p)  \* mutant

checked_out(name) == \A p \in submodule_paths(name) : init(p)

(* cmd_ls: "[x]" of a local planner and of one with all its submodules. *)
ls_marks == {n \in all_planners : n \in local_planners \/ checked_out(n)}

(* cmd_fetch and cmd_check work in the registry's directory. *)
target(name) == registry_dir(name)

(* An entry of planners_list: the directory it names and, once that has a  *)
(* planner.yaml, what the resolver's directory of the planner declares.    *)
(* _entry turns the errors it catches into the entry's manifest_error; a   *)
(* YAMLError is none of them, and one such entry fails the whole list.     *)
entry(name) ==
  LET d == registry_dir(name)
  IN [dir |-> d,
      declares |-> IF d # NoDir /\ "planner.yaml" \in disk[d] THEN declared_by(name) ELSE "None"]

list_fails == \E n \in all_planners : entry(n).declares = "YAMLError"

manifest_errors == {n \in all_planners : ~ list_fails /\ entry(n).declares \in Errors}

-----------------------------------------------------------------------------
(* The workspace.                                                          *)

Init ==
  /\ gitmodules \in Layouts
  /\ disk = [p \in Paths |-> {}]
  /\ manifest \in Declared
  /\ agents = {}
  /\ plugins = <<>>

(* A submodule is checked out: its .git, then file after file. *)
Clone(p) ==
  /\ p \in SubmodulePaths
  /\ disk[p] \subseteq {"dir"}
  /\ disk' = [disk EXCEPT ![p] = {"dir", ".git"}]
  /\ UNCHANGED <<gitmodules, manifest, agents, plugins>>

Checkout(p, f) ==
  /\ p \in SubmodulePaths
  /\ ".git" \in disk[p]
  /\ f \in Content[p]
  /\ disk' = [disk EXCEPT ![p] = @ \union {f}]
  /\ UNCHANGED <<gitmodules, manifest, agents, plugins>>

(* Removing it leaves its directory. *)
Deinit(p) ==
  /\ p \in SubmodulePaths
  /\ disk[p] # {}
  /\ disk' = [disk EXCEPT ![p] = {"dir"}]
  /\ UNCHANGED <<gitmodules, manifest, agents, plugins>>

(* A developer writes a planner of their own, file by file, or removes it  *)
(* (without a planner.yaml, its content tells nothing).                    *)
Write(n) ==
  /\ n \in Names \ SubmodulePaths
  /\ disk' = [disk EXCEPT ![n] = @ \union {"dir", "planner.py"}]
  /\ UNCHANGED <<gitmodules, manifest, agents, plugins>>

WriteManifest(n, m) ==
  /\ n \in Names \ SubmodulePaths
  /\ disk' = [disk EXCEPT ![n] = @ \union {"dir", "planner.yaml"}]
  /\ manifest' = [manifest EXCEPT ![n] = m]
  /\ UNCHANGED <<gitmodules, agents, plugins>>

Delete(n) ==
  /\ n \in Names \ SubmodulePaths
  /\ disk' = [disk EXCEPT ![n] = {}]
  /\ manifest' = [manifest EXCEPT ![n] = "plain"]
  /\ UNCHANGED <<gitmodules, agents, plugins>>

Train(n) ==
  /\ agents' \in {agents \union {n}, agents \ {n}}
  /\ UNCHANGED <<gitmodules, disk, manifest, plugins>>

(* A package comes anywhere in the index. *)
Install(q) ==
  /\ \A i \in DOMAIN plugins : plugins[i] # q
  /\ \E k \in 0 .. Len(plugins) :
       plugins' = SubSeq(plugins, 1, k) \o <<q>> \o SubSeq(plugins, k + 1, Len(plugins))
  /\ UNCHANGED <<gitmodules, disk, manifest, agents>>

Next ==
  \/ \E p \in Paths : Clone(p) \/ Deinit(p) \/ (\E f \in Content[p] : Checkout(p, f))
  \/ \E n \in Agents : Train(n)
  \/ \E n \in Names : Delete(n) \/ Write(n) \/ (\E m \in Drafts : WriteManifest(n, m))
  \/ \E q \in Plugins : Install(q)

Spec == Init /\ [][Next]_vars

-----------------------------------------------------------------------------
(* Properties.                                                             *)

Installed(n) == n \in all_planners /\ installed_in_registry(n)

(* The planner's own directory is the first of its submodules, or it has   *)
(* none.                                                                   *)
OwnFirst(n) == Sections(n) # {} => gitmodules[First(Sections(n))].path = n

(* An installed planner has one directory: the weights that fetch puts     *)
(* into target and the entry of planners_list are those of the directory   *)
(* the resolver launches from, whatever other submodules of it come and go *)
(* (registry.planner_dir and resolver.planner_dir search in different      *)
(* orders).  The list has a manifest_error only where resolve raises.      *)
OneDirectory ==
  \A n \in Names : Installed(n) /\ OwnFirst(n) =>
    /\ target(n) = planner_dir(n)
    /\ entry(n) = [dir |-> planner_dir(n), declares |-> is_vla(n)]
    /\ n \in manifest_errors => resolve(n) = Raises(entry(n).declares)

(* An agent trained, a package installed, another planner's checkout: none *)
(* of them changes what the name of an installed planner resolves to, only *)
(* its own directory does (resolver.resolve).                              *)
RegistryWins ==
  [][\A n \in Names : Installed(n) /\ disk'[n] = disk[n] /\ manifest'[n] = manifest[n] =>
       resolve(n)' = resolve(n)]_vars

(* No checkout is under way. *)
Settled == \A p \in Paths : ".git" \in disk[p] => Content[p] \subseteq disk[p]

(* What the planner.yaml in the planner's own directory declares. *)
OwnDeclares(n) == IF "planner.yaml" \in disk[n] THEN declared(manifest[n]) ELSE "None"

(* A planner that ls marks with [x], local or with its planner.py in a     *)
(* submodule of its own, is decided by its own directory once no checkout  *)
(* is under way, even when it shares submodules with others that are       *)
(* removed meanwhile (cmd_ls, resolver.resolve): with a planner.yaml that  *)
(* is valid, or without one, it resolves in the registry to the adapter it *)
(* asks for; with a planner.yaml that goal.declared or the parser refuses  *)
(* resolve raises that very error, through is_vla, and nothing else takes  *)
(* the name.                                                               *)
CheckedOutResolves ==
  Settled => \A n \in ls_marks :
    n \in local_planners \/ (n \in submodule_paths(n) /\ "planner.py" \in Content[n]) =>
      \/ /\ OwnDeclares(n) \in {"None", "inputs"}
         /\ resolve(n) = [source |-> "registry", value |-> n,
                          adapter |-> IF OwnDeclares(n) = "inputs" THEN "vla" ELSE "drl"]
      \/ /\ OwnDeclares(n) \in {"ValueError", "YAMLError"}
         /\ resolve(n) = Raises(OwnDeclares(n))
=============================================================================
