---------------------------- MODULE WeightsCache ----------------------------
(***************************************************************************)
(* weights.py: fetching and checking one `dest` of a planner's weights     *)
(* manifest by several processes that share the content cache, the Hugging *)
(* Face cache and the planner directory.  No lock guards any of them, and  *)
(* a process may be killed between any two of its file operations, so each *)
(* file operation is one action.                                           *)
(*                                                                         *)
(* A file's content is named by its sha256, or is Garbage when it is none  *)
(* of the manifest's.  Names are read through a symlink as the code does   *)
(* it: a dest that is a link is resolved when its marker is looked up, and *)
(* again when its bytes are hashed.  A marker is read or written in one    *)
(* step, and a file of the Hugging Face cache stands for its snapshot path *)
(* and its blob.                                                           *)
(***************************************************************************)
EXTENDS Naturals, FiniteSets

CONSTANTS
  Processes,    \* processes that run fetch or the check of missing files
  Hashes,       \* sha256 values the manifest has over time
  Garbage,      \* content with none of these hashes
  NoFile,       \* content of a name that does not exist
  NoHash,       \* what a marker that does not exist holds
  Kinds,        \* kinds of entry: subset of {"url", "hf"}
  Checkouts     \* bound: how often the manifest changes

ASSUME SpecialValuesAssumption == Garbage \notin Hashes /\ NoFile \notin Hashes /\ NoHash \notin Hashes
ASSUME GarbageAssumption == Garbage # NoFile
ASSUME KindsAssumption == Kinds \subseteq {"url", "hf"}
ASSUME CheckoutsAssumption == Checkouts \in Nat

VARIABLES
  file,      \* content of each regular file
  link,      \* target of the symlink at dest; Dest itself when dest is none
  urlMark,   \* hashes with a marker beside their blob
  hfMark,    \* the hash in the marker keyed by a resolved path
  manifest,  \* the entry of weights.yaml
  checkouts, \* changes of the manifest so far
  job,       \* what each process is doing
  solo       \* history: processes that met no other active process since they began

diskVars == <<file, link, urlMark, hfMark>>
vars == <<diskVars, manifest, checkouts, job, solo>>

Blob(h) == [at |-> "blob", of |-> h]    \* <cache>/<sha256>
Hub(h) == [at |-> "hub", of |-> h]      \* a blob of the Hugging Face cache
Dest == [at |-> "dest", of |-> NoHash]  \* <planner_dir>/<dest>
Paths == [at : {"blob", "hub"}, of : Hashes] \cup {Dest}

Contents == Hashes \cup {Garbage, NoFile}
Entries == [kind : Kinds, hash : Hashes]

Active == {"look", "verify", "hash", "mark", "clear", "unmark", "download", "replace",
           "hub", "link", "unlink_dest", "symlink", "report"}
Ended == {"off", "done", "current", "missing", "refused", "disk_error"}
Jobs == [pc : Active \cup Ended, op : {"fetch", "missing"}, kind : Kinds, hash : Hashes,
         on : {"blob", "dest", "hub"}, target : Paths]

(* What a process verifies at each point: a blob is only cleared or         *)
(* downloaded by the fetch of its url entry, a check of missing files only *)
(* reads, and only a file of one of the two caches is linked.              *)
JobOK(j) ==
  /\ j.on = "blob" => j.kind = "url" /\ j.target = Blob(j.hash)
  /\ j.on = "hub" => j.target.at = "hub"
  /\ j.op = "missing" => j.on = "dest"
  /\ j.pc \in {"clear", "unmark", "download", "replace"} => j.on = "blob"
  /\ j.pc \in {"link", "unlink_dest", "symlink"} => j.on # "dest"
  /\ j.pc \in {"hub", "report", "done"} => j.op = "fetch"

TypeOK ==
  /\ file \in [Paths -> Contents]
  /\ link \in Paths
  /\ urlMark \subseteq Hashes
  /\ hfMark \in [Paths -> Hashes \cup {NoHash}]
  /\ manifest \in Entries
  /\ checkouts \in Nat
  /\ job \in [Processes -> Jobs] /\ \A p \in Processes : JobOK(job[p])
  /\ solo \subseteq Processes

(* A cache that was never used by these processes, except that a blob may  *)
(* hold garbage nobody marked; dest may already be a plain file.           *)
Init ==
  /\ file \in {f \in [Paths -> Contents] : \A p \in Paths :
                 /\ p.at = "blob" => f[p] \in {Garbage, NoFile}
                 /\ p.at = "hub" => f[p] = NoFile}
  /\ link = Dest
  /\ urlMark = {}
  /\ hfMark = [p \in Paths |-> NoHash]
  /\ manifest \in Entries
  /\ checkouts = 0
  /\ job = [p \in Processes |->
              [pc |-> "off", op |-> "fetch", kind |-> manifest.kind, hash |-> manifest.hash,
               on |-> "dest", target |-> Dest]]
  /\ solo = {}

-----------------------------------------------------------------------------
is_symlink == link # Dest
resolve == link
DestContent == file[resolve]
exists == is_symlink \/ file[Dest] # NoFile

Running(p) == job[p].pc \in Active
Goto(p, pc) == job' = [job EXCEPT ![p].pc = pc]
OnDisk == UNCHANGED <<manifest, checkouts, solo>>
LooksOnly == OnDisk /\ UNCHANGED diskVars

(* fetch and missing read the manifest first. *)
begin(p, op) ==
  /\ ~Running(p)
  /\ job' = [job EXCEPT ![p] =
       [pc |-> "look", op |-> op, kind |-> manifest.kind, hash |-> manifest.hash,
        on |-> IF op = "fetch" /\ manifest.kind = "url" THEN "blob" ELSE "dest",
        target |-> IF op = "fetch" /\ manifest.kind = "url" THEN Blob(manifest.hash) ELSE Dest]]
  /\ solo' = IF \E q \in Processes \ {p} : Running(q)
               THEN {q \in solo : q # p /\ ~Running(q)}
               ELSE solo \cup {p}
  /\ UNCHANGED <<diskVars, manifest, checkouts>>

(* A name that exists is verified, by the marker of the path it resolves   *)
(* to.  What follows when it does not exist, or turns out wrong.           *)
DownloadMissing(p) == IF job[p].on = "blob" THEN "download" ELSE "hub"  \* mutant
after_miss(p) ==
  IF job[p].op = "missing" THEN "missing"
  ELSE CASE job[p].on = "blob" -> "download"
         [] job[p].on = "dest" -> "hub"
         [] job[p].on = "hub" -> "refused"

look(p) ==
  /\ job[p].pc = "look"
  /\ LET path == IF job[p].on = "dest" THEN resolve ELSE job[p].target IN
       job' = IF file[path] # NoFile
                THEN [job EXCEPT ![p].pc = "verify", ![p].target = path]
                ELSE [job EXCEPT ![p].pc = after_miss(p)]
  /\ LooksOnly

marked(p) ==
  IF job[p].on = "blob" THEN job[p].hash \in urlMark
  ELSE hfMark[job[p].target] = job[p].hash

(* A verified file: missing() has its answer, a fetch links it, except     *)
(* that a dest which is the right file already stays as it is.             *)
accepted(p) ==
  IF job[p].op = "missing" THEN "current"
  ELSE IF job[p].on = "dest" THEN "report" ELSE "link"

verify(p) ==
  /\ job[p].pc = "verify"
  /\ Goto(p, IF marked(p) THEN accepted(p) ELSE "hash")
  /\ LooksOnly

(* A blob that failed is removed before the download. *)
after_mismatch(p) == IF job[p].on = "blob" THEN "clear" ELSE after_miss(p)

TrustAnyFile(p) == Goto(p, "mark")  \* mutant
sha256_file(p) ==
  LET content == IF job[p].on = "dest" THEN DestContent ELSE file[job[p].target] IN
    Goto(p, CASE content = NoFile -> "disk_error"
              [] content = job[p].hash -> "mark"
              [] OTHER -> after_mismatch(p))

hash(p) ==
  /\ job[p].pc = "hash"
  /\ sha256_file(p)
  /\ LooksOnly

mark(p) ==
  /\ job[p].pc = "mark"
  /\ IF job[p].on = "blob"
       THEN urlMark' = urlMark \cup {job[p].hash} /\ UNCHANGED hfMark
       ELSE hfMark' = [hfMark EXCEPT ![job[p].target] = job[p].hash] /\ UNCHANGED urlMark
  /\ Goto(p, accepted(p))
  /\ OnDisk /\ UNCHANGED <<file, link>>

-----------------------------------------------------------------------------
(* _fetch_url and _download *)

ClearLeavesIt(p) ==  \* mutant
  Goto(p, "link") /\ UNCHANGED file
clear_blob(p) ==
  IF file[job[p].target] = NoFile
    THEN Goto(p, "disk_error") /\ UNCHANGED file
    ELSE Goto(p, "unmark") /\ file' = [file EXCEPT ![job[p].target] = NoFile]

clear(p) ==
  /\ job[p].pc = "clear"
  /\ clear_blob(p)
  /\ OnDisk /\ UNCHANGED <<link, urlMark, hfMark>>

unmark(p) ==
  /\ job[p].pc = "unmark"
  /\ urlMark' = urlMark \ {job[p].hash}
  /\ Goto(p, "download")
  /\ OnDisk /\ UNCHANGED <<file, link, hfMark>>

(* The download goes to a private temporary file; one with another hash,   *)
(* or that breaks off, raises.                                             *)
DownloadInPlace(p) ==  \* mutant
  Goto(p, "replace") /\ file' = [file EXCEPT ![Blob(job[p].hash)] = Garbage]
download_temp(p) ==
  /\ \E pc \in {"replace", "refused"} : Goto(p, pc)
  /\ UNCHANGED file

download(p) ==
  /\ job[p].pc = "download"
  /\ download_temp(p)
  /\ OnDisk /\ UNCHANGED <<link, urlMark, hfMark>>

replace(p) ==
  /\ job[p].pc = "replace"
  /\ file' = [file EXCEPT ![Blob(job[p].hash)] = job[p].hash]
  /\ Goto(p, "mark")
  /\ OnDisk /\ UNCHANGED <<link, urlMark, hfMark>>

(* hf_hub_download: the file the hub has under that name and revision, in  *)
(* its own cache; or it raises.                                            *)
hf_hub_download(p) ==
  /\ job[p].pc = "hub"
  /\ \/ Goto(p, "refused") /\ UNCHANGED file
     \/ \E h \in Hashes :
          /\ file' = [file EXCEPT ![Hub(h)] = h]
          /\ job' = [job EXCEPT ![p].pc = "verify", ![p].on = "hub", ![p].target = Hub(h)]
  /\ OnDisk /\ UNCHANGED <<link, urlMark, hfMark>>

-----------------------------------------------------------------------------
(* _link, and the size that fetch reports *)

ReplaceExisting(p) ==  \* mutant
  IF link = job[p].target THEN "report"
  ELSE IF DestContent # NoFile THEN "unlink_dest" ELSE "symlink"
KeepLink(p) ==  \* mutant
  IF is_symlink THEN "report" ELSE IF exists THEN "unlink_dest" ELSE "symlink"
link_step(p) ==
  IF is_symlink /\ link = job[p].target THEN "report"
  ELSE IF exists THEN "unlink_dest" ELSE "symlink"

link_look(p) ==
  /\ job[p].pc = "link"
  /\ Goto(p, link_step(p))
  /\ LooksOnly

unlink_dest(p) ==
  /\ job[p].pc = "unlink_dest"
  /\ Goto(p, IF exists THEN "symlink" ELSE "disk_error")
  /\ link' = Dest
  /\ file' = [file EXCEPT ![Dest] = NoFile]
  /\ OnDisk /\ UNCHANGED <<urlMark, hfMark>>

symlink_to(p) ==
  /\ job[p].pc = "symlink"
  /\ IF exists
       THEN Goto(p, "disk_error") /\ UNCHANGED link
       ELSE Goto(p, "report") /\ link' = job[p].target
  /\ OnDisk /\ UNCHANGED <<file, urlMark, hfMark>>

report(p) ==
  /\ job[p].pc = "report"
  /\ Goto(p, IF DestContent = NoFile THEN "disk_error" ELSE "done")
  /\ LooksOnly

-----------------------------------------------------------------------------
(* What happens around the processes: one is killed, and the planner's     *)
(* repository is checked out at another version.                           *)
killed(p) ==
  /\ Running(p)
  /\ Goto(p, "off")
  /\ LooksOnly

checkout ==
  /\ checkouts < Checkouts
  /\ manifest' \in Entries
  /\ checkouts' = checkouts + 1
  /\ UNCHANGED <<diskVars, job, solo>>

Step(p) == \/ \E op \in {"fetch", "missing"} : begin(p, op)
           \/ look(p) \/ verify(p) \/ hash(p) \/ mark(p) \/ clear(p) \/ unmark(p)
           \/ download(p) \/ replace(p) \/ hf_hub_download(p)
           \/ link_look(p) \/ unlink_dest(p) \/ symlink_to(p) \/ report(p) \/ killed(p)

Next == checkout \/ \E p \in Processes : Step(p)

Spec == Init /\ [][Next]_vars

-----------------------------------------------------------------------------
(* A marker beside a blob speaks the truth whatever processes race and     *)
(* wherever they are killed, though it may outlive its blob: the name of a *)
(* blob only ever receives a complete, verified file.                      *)
UrlMarkerTruthful == \A h \in urlMark : file[Blob(h)] \in {h, NoFile}

(* What dest links to in the content cache is the declared file, or a      *)
(* racing process is replacing it; it is never another file.               *)
LinkedBlobTruthful ==
  link.at = "blob" => file[link] \in {link.of, NoFile}

(* When all processes ended a fetch of the same url entry without an       *)
(* error, dest is that file, however they raced.                           *)
AllDoneDelivers ==
  \A h \in Hashes :
    (\A p \in Processes : job[p].pc = "done" /\ job[p].kind = "url" /\ job[p].hash = h)
      => DestContent = h

(* A fetch of a url entry that ran alone and reported its file delivered   *)
(* it, whatever manifests and killed or racing fetches came before it.     *)
SoloFetchDelivers ==
  [][\A p \in solo : Running(p) /\ job'[p].pc = "done" /\ job[p].kind = "url"
       => DestContent = job[p].hash]_vars

(* A fetch or check that runs alone copes with what earlier ones left,     *)
(* dangling links and orphaned markers included: no file operation of it   *)
(* raises.                                                                 *)
SoloFetchRepairs == \A p \in solo : job[p].pc # "disk_error"

(* What a fetch that runs alone reports, and what a check that runs alone  *)
(* finds current, has the sha256 of the manifest.                          *)
MatchesManifest ==
  [][\A p \in solo : Running(p) /\ job'[p].pc \in {"done", "current"}
       => DestContent = job[p].hash]_vars
=============================================================================
