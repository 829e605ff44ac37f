--------------------------- MODULE ResolverProofs ---------------------------
(***************************************************************************)
(* The resolver's properties for every .gitmodules, every set of names and *)
(* plugins, and every workspace that checkouts, local planners, agents and *)
(* packages lead to.                                                       *)
(*                                                                         *)
(* The argument: a path with a file is a directory, so the submodule that  *)
(* holds an installed planner is the first directory the registry meets,   *)
(* and what resolve reads of an installed planner, the manifest that may   *)
(* make it raise included, lies in its own directory.                      *)
(***************************************************************************)
EXTENDS Resolver, TLAPS, NaturalsInduction, WellFoundedInduction

(* A path with a file in it is a directory. *)
FilesInDirectories == \A p \in Paths : disk[p] # {} => "dir" \in disk[p]

TypeInv ==
  /\ gitmodules \in Layouts
  /\ disk \in [Paths -> SUBSET Files]
  /\ manifest \in [Paths -> Manifests]

IInv == TypeInv /\ FilesInDirectories

-----------------------------------------------------------------------------
(* A set of sections that is not empty has a first one.                    *)
LEMMA FirstIs ==
  ASSUME NEW S \in SUBSET Nat, S # {}
  PROVE  First(S) \in S /\ \A j \in S : First(S) <= j
<1>1. PICK m \in S : \A j \in S : <<j, m>> \notin OpToRel(<, Nat)
  BY WFMin, NatLessThanWellFounded, Zenon
<1>2. \A j \in S : ~ (j < m)
  BY <1>1, Zenon DEF OpToRel
<1>3. \A j \in S : m <= j
  BY <1>2
<1> QED
  BY <1>3 DEF First

LEMMA SectionsNat ==
  ASSUME TypeInv
  PROVE  /\ \A n : Sections(n) \in SUBSET Nat /\ present(n) \in SUBSET Sections(n)
         /\ \A i \in DOMAIN gitmodules : gitmodules[i].path \in Paths
<1>1. gitmodules \in Seq([path : Paths, planners : SUBSET Names])
  BY ResolverAssumption DEF TypeInv
<1> DEFINE T == [path : Paths, planners : SUBSET Names]
<1>0. gitmodules \in Seq(T)
  BY <1>1
<1>a. Len(gitmodules) \in Nat /\ gitmodules \in [1 .. Len(gitmodules) -> T]
  <2> HIDE DEF T
  <2> QED
    BY <1>0
<1>b. \A i \in 1 .. Len(gitmodules) : gitmodules[i] \in T
  <2> HIDE DEF T
  <2> QED
    BY <1>a
<1>2. DOMAIN gitmodules \subseteq Nat /\ \A i \in DOMAIN gitmodules : gitmodules[i].path \in Paths
  <2>1. DOMAIN gitmodules = 1 .. Len(gitmodules)
    <3> HIDE DEF T
    <3> QED
      BY <1>a
  <2> QED
    BY <1>a, <1>b, <2>1
<1> QED
  BY <1>2 DEF Sections, present

(* TypeInv holds of the files on disk: what is written are files.          *)
LEMMA InitInv == Init => IInv
BY ResolverAssumption DEF Init, IInv, TypeInv, FilesInDirectories

LEMMA NextInv == IInv /\ [Next]_vars => IInv'
<1> SUFFICES ASSUME IInv, [Next]_vars PROVE IInv'
  OBVIOUS
<1> USE DEF IInv, TypeInv, FilesInDirectories
<1>0. /\ {"dir", ".git"} \subseteq Files /\ {"dir", "planner.py"} \subseteq Files
      /\ \A p \in Paths : Content[p] \subseteq Files
  BY ResolverAssumption DEF Files
<1>1. ASSUME NEW p \in Paths, Clone(p) PROVE IInv'
  BY <1>0, <1>1 DEF Clone
<1>2. ASSUME NEW p \in Paths, Deinit(p) PROVE IInv'
  BY <1>0, <1>2 DEF Deinit
<1>3. ASSUME NEW p \in Paths, NEW f \in Content[p], Checkout(p, f) PROVE IInv'
  BY <1>0, <1>3 DEF Checkout
<1>4. ASSUME NEW n \in Names, Write(n) PROVE IInv'
  BY <1>0, <1>4, ResolverAssumption DEF Write
<1>5. ASSUME NEW n \in Names, NEW m \in Drafts, WriteManifest(n, m) PROVE IInv'
  <2>1. m \in Manifests
    BY ResolverAssumption
  <2>2. {"dir", "planner.yaml"} \subseteq Files
    BY DEF Files
  <2> QED
    BY <1>5, <2>1, <2>2, ResolverAssumption DEF WriteManifest
<1>6. ASSUME NEW n \in Names, Delete(n) PROVE IInv'
  <2>1. "plain" \in Manifests
    BY DEF Manifests
  <2> QED
    BY <1>6, <2>1, ResolverAssumption DEF Delete
<1>7. ASSUME NEW n \in Agents, Train(n) PROVE IInv'
  BY <1>7 DEF Train
<1>8. ASSUME NEW q \in Plugins, Install(q) PROVE IInv'
  BY <1>8 DEF Install
<1>9. CASE UNCHANGED vars
  BY <1>9 DEF vars
<1> QED
  BY <1>1, <1>2, <1>3, <1>4, <1>5, <1>6, <1>7, <1>8, <1>9 DEF Next

-----------------------------------------------------------------------------
(* The first section that names an installed planner, when it is the       *)
(* planner's own directory, is the first one whose directory is there.     *)
LEMMA OwnIsPresent ==
  ASSUME IInv, NEW n \in Names, installed_in_registry(n), OwnFirst(n), Sections(n) # {}
  PROVE  present(n) # {} /\ gitmodules[first_present(n)].path = n
<1> DEFINE i == First(Sections(n))
<1>1. Sections(n) \in SUBSET Nat /\ present(n) \in SUBSET Sections(n)
  BY SectionsNat DEF IInv
<1>2. i \in Sections(n) /\ \A j \in Sections(n) : i <= j
  BY <1>1, FirstIs
<1>3. gitmodules[i].path = n
  BY DEF OwnFirst
<1>4. "dir" \in disk[n]
  BY ResolverAssumption DEF IInv, FilesInDirectories, installed_in_registry
<1>5. i \in present(n)
  BY <1>2, <1>3, <1>4 DEF present
<1>6. first_present(n) \in present(n) /\ \A j \in present(n) : first_present(n) <= j
  BY <1>1, <1>5, FirstIs DEF first_present
<1>7. first_present(n) = i
  BY <1>1, <1>2, <1>5, <1>6
<1> QED
  BY <1>3, <1>5, <1>7

(* What the planner's own directory makes of its name. *)
ByOwn(n) ==
  IF OwnDeclares(n) \in Errors THEN Raises(OwnDeclares(n))
  ELSE [source |-> "registry", value |-> n,
        adapter |-> IF OwnDeclares(n) = "None" THEN "drl" ELSE "vla"]

OwnDecides ==
  \A n \in Names : Installed(n) =>
    planner_dir(n) = n /\ is_vla(n) = OwnDeclares(n) /\ resolve(n) = ByOwn(n)

LEMMA DeclaredRange ==
  ASSUME NEW m \in Manifests
  PROVE  declared(m) \in {"None", "inputs", "ValueError", "YAMLError"}
BY DEF Manifests, declared

LEMMA OwnRange ==
  ASSUME IInv, NEW n \in Names
  PROVE  OwnDeclares(n) \in {"None", "inputs", "ValueError", "YAMLError"}
<1>1. manifest[n] \in Manifests
  BY ResolverAssumption DEF IInv, TypeInv
<1> QED
  BY <1>1, DeclaredRange DEF OwnDeclares

(* An installed planner resolves by its own directory alone.               *)
LEMMA ResolvesByOwn == IInv => OwnDecides
<1> SUFFICES ASSUME IInv, NEW n \in Names, Installed(n)
             PROVE  planner_dir(n) = n /\ is_vla(n) = OwnDeclares(n) /\ resolve(n) = ByOwn(n)
  BY DEF OwnDecides
<1>1. planner_dir(n) = n /\ n # NoDir
  BY ResolverAssumption DEF planner_dir, Installed, installed_in_registry
<1>2. declared_by(n) = IF "planner.yaml" \in disk[n] THEN OwnDeclares(n) ELSE "FileNotFoundError"
  BY <1>1 DEF declared_by, OwnDeclares
<1>3. is_vla(n) = OwnDeclares(n)
  BY <1>2, OwnRange DEF is_vla, OwnDeclares
<1>4. resolve(n) = ByOwn(n)
  BY <1>3 DEF resolve, ByOwn, in_registry, Installed
<1> QED
  BY <1>1, <1>3, <1>4

(* The directory of the registry and that of the resolver are the same.    *)
LEMMA OneDirectoryInv == IInv => OneDirectory
<1> SUFFICES ASSUME IInv, NEW n \in Names, Installed(n), OwnFirst(n)
             PROVE  /\ target(n) = planner_dir(n)
                    /\ entry(n) = [dir |-> planner_dir(n), declares |-> is_vla(n)]
                    /\ n \in manifest_errors => resolve(n) = Raises(entry(n).declares)
  BY DEF OneDirectory
<1>1. planner_dir(n) = n /\ is_vla(n) = OwnDeclares(n) /\ resolve(n) = ByOwn(n)
  BY ResolvesByOwn DEF OwnDecides
<1>2. registry_dir(n) = n
  <2>1. CASE Sections(n) = {}
    BY <2>1 DEF registry_dir, present, Installed, installed_in_registry
  <2>2. CASE Sections(n) # {}
    BY <2>2, OwnIsPresent DEF registry_dir, Installed
  <2> QED
    BY <2>1, <2>2
<1>3. n # NoDir
  BY ResolverAssumption
<1>4. entry(n) = [dir |-> n, declares |-> OwnDeclares(n)]
  BY <1>1, <1>2, <1>3 DEF entry, declared_by, OwnDeclares
<1>5. n \in manifest_errors => resolve(n) = Raises(OwnDeclares(n))
  BY <1>1, <1>4 DEF manifest_errors, ByOwn
<1> QED
  BY <1>1, <1>2, <1>4, <1>5 DEF target

(* Theorem: an installed planner whose own directory comes first has one   *)
(* directory, for the weights, the listing and the launch alike.           *)
THEOREM OneDirectoryHolds == Spec => []OneDirectory
<1>1. Init => IInv
  BY InitInv
<1>2. IInv /\ [Next]_vars => IInv'
  BY NextInv
<1>3. IInv => OneDirectory
  BY OneDirectoryInv
<1> QED
  BY <1>1, <1>2, <1>3, PTL DEF Spec

-----------------------------------------------------------------------------
LEMMA GitmodulesKept == [Next]_vars => UNCHANGED gitmodules
BY DEF Next, vars, Clone, Deinit, Checkout, Write, WriteManifest, Delete, Train, Install

(* Theorem: what else happens in the workspace leaves the resolution of an *)
(* installed planner as it is.                                             *)
THEOREM RegistryWinsHolds == Spec => RegistryWins
<1> DEFINE Kept ==
             \A n \in Names : Installed(n) /\ disk'[n] = disk[n] /\ manifest'[n] = manifest[n] =>
               resolve(n)' = resolve(n)
<1>1. ASSUME [Next]_vars, OwnDecides, OwnDecides' PROVE Kept
  <2> SUFFICES ASSUME NEW n \in Names, Installed(n), disk'[n] = disk[n], manifest'[n] = manifest[n]
               PROVE  resolve(n)' = resolve(n)
    OBVIOUS
  <2>1. UNCHANGED gitmodules
    BY <1>1, GitmodulesKept
  <2>2. Installed(n)'
    BY <2>1 DEF Installed, installed_in_registry, all_planners, submodule_names,
                local_planners, Sections
  <2>3. resolve(n) = ByOwn(n)
    BY <1>1 DEF OwnDecides
  <2>4. resolve(n)' = ByOwn(n)'
    BY <1>1, <2>2 DEF OwnDecides
  <2>5. ByOwn(n)' = ByOwn(n)
    <3>1. OwnDeclares(n)' = OwnDeclares(n)
      BY DEF OwnDeclares, declared
    <3> QED
      BY <3>1 DEF ByOwn, Raises
  <2> QED
    BY <2>3, <2>4, <2>5
<1>2. [Next]_vars /\ OwnDecides /\ OwnDecides' => [Kept]_vars
  BY <1>1
<1> QED
  BY <1>2, InitInv, NextInv, ResolvesByOwn, PTL DEF Spec, RegistryWins

-----------------------------------------------------------------------------
(* Theorem: once the checkouts are done, a planner that ls marks and whose *)
(* planner.py lies in its own directory means what its own manifest says,  *)
(* or its name raises what reading the manifest does (resolver.is_vla).    *)
THEOREM CheckedOutResolvesHolds == Spec => []CheckedOutResolves
<1>1. IInv => CheckedOutResolves
  <2> SUFFICES ASSUME IInv, Settled, NEW n \in ls_marks,
                      \/ n \in local_planners
                      \/ n \in submodule_paths(n) /\ "planner.py" \in Content[n]
               PROVE  \/ /\ OwnDeclares(n) \in {"None", "inputs"}
                         /\ resolve(n) = [source |-> "registry", value |-> n,
                              adapter |-> IF OwnDeclares(n) = "inputs" THEN "vla" ELSE "drl"]
                      \/ /\ OwnDeclares(n) \in {"ValueError", "YAMLError"}
                         /\ resolve(n) = Raises(OwnDeclares(n))
    BY DEF CheckedOutResolves
  <2>1. n \in all_planners /\ n \in Names
    BY DEF ls_marks, all_planners, submodule_names, local_planners
  <2>2. "planner.py" \in disk[n]
    <3>1. CASE n \in local_planners
      BY <3>1 DEF local_planners
    <3>2. CASE n \notin local_planners
      <4>1. init(n)
        BY <3>2 DEF ls_marks, checked_out
      <4> QED
        BY <2>1, <3>2, <4>1, ResolverAssumption DEF Settled, init
    <3> QED
      BY <3>1, <3>2
  <2>3. resolve(n) = ByOwn(n)
    BY <2>1, <2>2, ResolvesByOwn DEF OwnDecides, Installed, installed_in_registry
  <2>4. OwnDeclares(n) \in {"None", "inputs", "ValueError", "YAMLError"}
    BY <2>1, OwnRange
  <2>5. CASE OwnDeclares(n) \in {"None", "inputs"}
    BY <2>3, <2>5 DEF ByOwn, Errors
  <2>6. CASE OwnDeclares(n) \in {"ValueError", "YAMLError"}
    BY <2>3, <2>6 DEF ByOwn, Errors
  <2> QED
    BY <2>4, <2>5, <2>6
<1> QED
  BY <1>1, InitInv, NextInv, PTL DEF Spec
=============================================================================
