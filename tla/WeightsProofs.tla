--------------------------- MODULE WeightsProofs ----------------------------
(***************************************************************************)
(* The content cache of weights.py stays truthful for any number of        *)
(* processes, hashes, kills and changes of the manifest.                   *)
(***************************************************************************)
EXTENDS WeightsCache, TLAPS

(* On disk f, blob h is absent or right. *)
Sound(f, h) == f[Blob(h)] \in {h, NoFile}

(* A process that is about to write the marker of a blob, or to link it,   *)
(* has found it sound.                                                     *)
FoundSound ==
  \A p \in Processes :
    job[p].on = "blob" /\ job[p].pc \in {"mark", "link", "unlink_dest", "symlink"}
      => Sound(file, job[p].hash)

CacheInv == TypeOK /\ UrlMarkerTruthful /\ FoundSound /\ LinkedBlobTruthful

LEMMA PathFacts ==
  /\ \A h \in Hashes : Blob(h) \in Paths /\ Hub(h) \in Paths /\ Blob(h) # Dest
  /\ Dest \in Paths
  /\ \A h, g \in Hashes : Blob(h) # Hub(g) /\ (Blob(h) = Blob(g) => h = g)
  /\ \A q \in Paths : q.at = "blob" => q.of \in Hashes /\ q = Blob(q.of)
BY DEF Paths, Blob, Hub, Dest

THEOREM CacheInit == Init => CacheInv
<1> SUFFICES ASSUME Init PROVE CacheInv
  OBVIOUS
<1> USE PathFacts
<1>1. TypeOK
  BY DEF Init, TypeOK, JobOK, Jobs, Entries, Contents, Ended
<1>2. UrlMarkerTruthful /\ FoundSound
  BY DEF Init, UrlMarkerTruthful, FoundSound
<1>3. LinkedBlobTruthful
  BY DEF Init, LinkedBlobTruthful, Dest
<1> QED
  BY <1>1, <1>2, <1>3 DEF CacheInv

-----------------------------------------------------------------------------
(* Changing one process keeps the jobs typed when the new job is. *)
LEMMA JobTyped ==
  ASSUME TypeOK, NEW p \in Processes, NEW j \in Jobs, JobOK(j),
         job' = [job EXCEPT ![p] = j]
  PROVE  job' \in [Processes -> Jobs] /\ \A q \in Processes : JobOK(job'[q])
BY DEF TypeOK

(* The same when only the place in the code changes. *)
LEMMA PcTyped ==
  ASSUME TypeOK, NEW p \in Processes, NEW pc \in Active \cup Ended, Goto(p, pc),
         JobOK([job[p] EXCEPT !.pc = pc])
  PROVE  job' \in [Processes -> Jobs] /\ \A q \in Processes : JobOK(job'[q])
<1>1. job[p] \in Jobs
  BY DEF TypeOK
<1>2. [job[p] EXCEPT !.pc = pc] \in Jobs
  BY <1>1 DEF Jobs
<1>3. job' = [job EXCEPT ![p] = [job[p] EXCEPT !.pc = pc]]
  BY DEF Goto
<1> QED
  BY <1>2, <1>3, JobTyped

LEMMA StepTypes ==
  ASSUME TypeOK, NEW p \in Processes, Step(p)
  PROVE  TypeOK'
<1> USE PathFacts
<1> DEFINE JobsTyped == job' \in [Processes -> Jobs] /\ \A q \in Processes : JobOK(job'[q])
<1>p. job[p] \in Jobs /\ JobOK(job[p])
  BY DEF TypeOK
<1>1. ASSUME NEW op \in {"fetch", "missing"}, begin(p, op)
      PROVE  TypeOK'
  <2> DEFINE j == [pc |-> "look", op |-> op, kind |-> manifest.kind, hash |-> manifest.hash,
                   on |-> IF op = "fetch" /\ manifest.kind = "url" THEN "blob" ELSE "dest",
                   target |-> IF op = "fetch" /\ manifest.kind = "url"
                                THEN Blob(manifest.hash) ELSE Dest]
  <2>1. j \in Jobs /\ JobOK(j)
    BY DEF TypeOK, Entries, Jobs, JobOK, Active
  <2>2. job' = [job EXCEPT ![p] = j]
    BY <1>1 DEF begin
  <2>3. JobsTyped
    BY <2>1, <2>2, JobTyped
  <2>4. solo' \subseteq Processes
    BY <1>1 DEF begin, TypeOK
  <2> QED
    BY <1>1, <2>3, <2>4 DEF begin, TypeOK, diskVars
<1>2. CASE look(p)
  <2>1. JobsTyped
    <3> DEFINE path == IF job[p].on = "dest" THEN resolve ELSE job[p].target
    <3>1. CASE file[path] # NoFile
      <4> DEFINE j == [job[p] EXCEPT !.pc = "verify", !.target = path]
      <4>1. j \in Jobs /\ JobOK(j)
        BY <1>p DEF TypeOK, Jobs, JobOK, Active, resolve
      <4>2. job' = [job EXCEPT ![p] = j]
        BY <1>2, <3>1 DEF look
      <4> QED
        BY <4>1, <4>2, JobTyped
    <3>2. CASE file[path] = NoFile
      <4>1. Goto(p, after_miss(p))
        BY <1>2, <3>2 DEF look, Goto
      <4>2. after_miss(p) \in Active \cup Ended /\ JobOK([job[p] EXCEPT !.pc = after_miss(p)])
        BY <1>p DEF after_miss, Jobs, JobOK, Active, Ended
      <4> QED
        BY <4>1, <4>2, PcTyped
    <3> QED
      BY <3>1, <3>2
  <2> QED
    BY <1>2, <2>1 DEF look, LooksOnly, OnDisk, diskVars, TypeOK
<1>3. CASE verify(p)
  <2>1. Goto(p, IF marked(p) THEN accepted(p) ELSE "hash")
    BY <1>3 DEF verify
  <2>2. job[p].pc = "verify"
    BY <1>3 DEF verify
  <2>3. JobOK([job[p] EXCEPT !.pc = accepted(p)]) /\ accepted(p) \in Active \cup Ended
    BY <1>p, <2>2 DEF accepted, Jobs, JobOK, Active, Ended
  <2>4. JobOK([job[p] EXCEPT !.pc = "hash"]) /\ "hash" \in Active \cup Ended
    BY <1>p, <2>2 DEF Jobs, JobOK, Active, Ended
  <2>5. JobsTyped
    <3>1. CASE marked(p)
      BY <2>1, <2>3, <3>1, PcTyped
    <3>2. CASE ~marked(p)
      BY <2>1, <2>4, <3>2, PcTyped
    <3> QED
      BY <3>1, <3>2
  <2> QED
    BY <1>3, <2>5 DEF verify, LooksOnly, OnDisk, diskVars, TypeOK
<1>4. CASE hash(p)
  <2>1. PICK pc \in {"disk_error", "mark", after_mismatch(p)} : Goto(p, pc)
    BY <1>4 DEF hash, sha256_file
  <2>2. pc \in Active \cup Ended /\ JobOK([job[p] EXCEPT !.pc = pc])
    BY <1>p, <1>4 DEF hash, after_mismatch, after_miss, Jobs, JobOK, Active, Ended
  <2>3. JobsTyped
    BY <2>1, <2>2, PcTyped
  <2> QED
    BY <1>4, <2>3 DEF hash, LooksOnly, OnDisk, diskVars, TypeOK
<1>5. CASE mark(p)
  <2>1. Goto(p, accepted(p))
    BY <1>5 DEF mark
  <2>2. JobOK([job[p] EXCEPT !.pc = accepted(p)]) /\ accepted(p) \in Active \cup Ended
    BY <1>p DEF accepted, Jobs, JobOK, Active, Ended
  <2>3. JobsTyped
    BY <2>1, <2>2, PcTyped
  <2>4. urlMark' \subseteq Hashes /\ hfMark' \in [Paths -> Hashes \cup {NoHash}]
    BY <1>5, <1>p DEF mark, TypeOK, Jobs
  <2> QED
    BY <1>5, <2>3, <2>4 DEF mark, OnDisk, TypeOK
<1>6. CASE clear(p)
  <2>1. PICK pc \in {"disk_error", "unmark"} : Goto(p, pc)
    BY <1>6 DEF clear, clear_blob
  <2>2. pc \in Active \cup Ended /\ JobOK([job[p] EXCEPT !.pc = pc])
    BY <1>p, <1>6 DEF clear, Jobs, JobOK, Active, Ended
  <2>3. JobsTyped
    BY <2>1, <2>2, PcTyped
  <2>4. file' \in [Paths -> Contents] /\ urlMark' \subseteq Hashes
    BY <1>6, <1>p DEF clear, clear_blob, TypeOK, Jobs, Contents
  <2> QED
    BY <1>6, <2>3, <2>4 DEF clear, OnDisk, TypeOK
<1>7. CASE unmark(p)
  <2>1. PICK pc \in {"download"} : Goto(p, pc)
    BY <1>7 DEF unmark
  <2>2. pc \in Active \cup Ended /\ JobOK([job[p] EXCEPT !.pc = pc])
    BY <1>p, <1>7 DEF unmark, Jobs, JobOK, Active, Ended
  <2>3. JobsTyped
    BY <2>1, <2>2, PcTyped
  <2>4. file' \in [Paths -> Contents] /\ urlMark' \subseteq Hashes
    BY <1>7, <1>p DEF unmark, TypeOK, Jobs, Contents
  <2> QED
    BY <1>7, <2>3, <2>4 DEF unmark, OnDisk, TypeOK
<1>8. CASE download(p)
  <2>1. PICK pc \in {"replace", "refused"} : Goto(p, pc)
    BY <1>8 DEF download, download_temp
  <2>2. pc \in Active \cup Ended /\ JobOK([job[p] EXCEPT !.pc = pc])
    BY <1>p, <1>8 DEF download, Jobs, JobOK, Active, Ended
  <2>3. JobsTyped
    BY <2>1, <2>2, PcTyped
  <2>4. file' \in [Paths -> Contents] /\ urlMark' \subseteq Hashes
    BY <1>8, <1>p DEF download, download_temp, TypeOK, Jobs, Contents
  <2> QED
    BY <1>8, <2>3, <2>4 DEF download, OnDisk, TypeOK
<1>9. CASE replace(p)
  <2>1. PICK pc \in {"mark"} : Goto(p, pc)
    BY <1>9 DEF replace
  <2>2. pc \in Active \cup Ended /\ JobOK([job[p] EXCEPT !.pc = pc])
    BY <1>p, <1>9 DEF replace, Jobs, JobOK, Active, Ended
  <2>3. JobsTyped
    BY <2>1, <2>2, PcTyped
  <2>4. file' \in [Paths -> Contents] /\ urlMark' \subseteq Hashes
    BY <1>9, <1>p DEF replace, TypeOK, Jobs, Contents
  <2> QED
    BY <1>9, <2>3, <2>4 DEF replace, OnDisk, TypeOK
<1>10. CASE hf_hub_download(p)
  <2>1. CASE Goto(p, "refused") /\ UNCHANGED file
    <3>1. "refused" \in Active \cup Ended /\ JobOK([job[p] EXCEPT !.pc = "refused"])
      BY <1>p DEF Jobs, JobOK, Active, Ended
    <3>2. JobsTyped
      BY <2>1, <3>1, PcTyped
    <3> QED
      BY <1>10, <2>1, <3>2 DEF hf_hub_download, OnDisk, TypeOK
  <2>2. ASSUME NEW h \in Hashes, file' = [file EXCEPT ![Hub(h)] = h],
               job' = [job EXCEPT ![p].pc = "verify", ![p].on = "hub", ![p].target = Hub(h)]
        PROVE  TypeOK'
    <3> DEFINE j == [job[p] EXCEPT !.pc = "verify", !.on = "hub", !.target = Hub(h)]
    <3>1. j \in Jobs /\ JobOK(j)
      BY <1>p, <1>10 DEF hf_hub_download, Jobs, JobOK, Active, Hub
    <3>2. job' = [job EXCEPT ![p] = j]
      BY <2>2
    <3>3. JobsTyped
      BY <3>1, <3>2, JobTyped
    <3>4. file' \in [Paths -> Contents]
      BY <2>2 DEF TypeOK, Contents
    <3> QED
      BY <1>10, <3>3, <3>4 DEF hf_hub_download, OnDisk, TypeOK
  <2> QED
    BY <1>10, <2>1, <2>2 DEF hf_hub_download
<1>11. CASE link_look(p)
  <2>1. PICK pc \in {"report", "unlink_dest", "symlink"} : Goto(p, pc)
    BY <1>11 DEF link_look, link_step
  <2>2. pc \in Active \cup Ended /\ JobOK([job[p] EXCEPT !.pc = pc])
    BY <1>p, <1>11 DEF link_look, Jobs, JobOK, Active, Ended
  <2>3. JobsTyped
    BY <2>1, <2>2, PcTyped
  <2>4. file' \in [Paths -> Contents] /\ link' \in Paths
    BY <1>11, <1>p DEF link_look, LooksOnly, OnDisk, diskVars, TypeOK, Jobs, Contents
  <2> QED
    BY <1>11, <2>3, <2>4 DEF link_look, LooksOnly, OnDisk, diskVars, TypeOK
<1>12. CASE unlink_dest(p)
  <2>1. PICK pc \in {"symlink", "disk_error"} : Goto(p, pc)
    BY <1>12 DEF unlink_dest
  <2>2. pc \in Active \cup Ended /\ JobOK([job[p] EXCEPT !.pc = pc])
    BY <1>p, <1>12 DEF unlink_dest, Jobs, JobOK, Active, Ended
  <2>3. JobsTyped
    BY <2>1, <2>2, PcTyped
  <2>4. file' \in [Paths -> Contents] /\ link' \in Paths
    BY <1>12, <1>p DEF unlink_dest, LooksOnly, OnDisk, diskVars, TypeOK, Jobs, Contents
  <2> QED
    BY <1>12, <2>3, <2>4 DEF unlink_dest, LooksOnly, OnDisk, diskVars, TypeOK
<1>13. CASE symlink_to(p)
  <2>1. PICK pc \in {"disk_error", "report"} : Goto(p, pc)
    BY <1>13 DEF symlink_to
  <2>2. pc \in Active \cup Ended /\ JobOK([job[p] EXCEPT !.pc = pc])
    BY <1>p, <1>13 DEF symlink_to, Jobs, JobOK, Active, Ended
  <2>3. JobsTyped
    BY <2>1, <2>2, PcTyped
  <2>4. file' \in [Paths -> Contents] /\ link' \in Paths
    BY <1>13, <1>p DEF symlink_to, LooksOnly, OnDisk, diskVars, TypeOK, Jobs, Contents
  <2> QED
    BY <1>13, <2>3, <2>4 DEF symlink_to, LooksOnly, OnDisk, diskVars, TypeOK
<1>14. CASE report(p)
  <2>1. PICK pc \in {"disk_error", "done"} : Goto(p, pc)
    BY <1>14 DEF report
  <2>2. pc \in Active \cup Ended /\ JobOK([job[p] EXCEPT !.pc = pc])
    BY <1>p, <1>14 DEF report, Jobs, JobOK, Active, Ended
  <2>3. JobsTyped
    BY <2>1, <2>2, PcTyped
  <2>4. file' \in [Paths -> Contents] /\ link' \in Paths
    BY <1>14, <1>p DEF report, LooksOnly, OnDisk, diskVars, TypeOK, Jobs, Contents
  <2> QED
    BY <1>14, <2>3, <2>4 DEF report, LooksOnly, OnDisk, diskVars, TypeOK
<1>15. CASE killed(p)
  <2>1. PICK pc \in {"off"} : Goto(p, pc)
    BY <1>15 DEF killed
  <2>2. pc \in Active \cup Ended /\ JobOK([job[p] EXCEPT !.pc = pc])
    BY <1>p, <1>15 DEF killed, Jobs, JobOK, Active, Ended
  <2>3. JobsTyped
    BY <2>1, <2>2, PcTyped
  <2>4. file' \in [Paths -> Contents] /\ link' \in Paths
    BY <1>15, <1>p DEF killed, LooksOnly, OnDisk, diskVars, TypeOK, Jobs, Contents
  <2> QED
    BY <1>15, <2>3, <2>4 DEF killed, LooksOnly, OnDisk, diskVars, TypeOK
<1> QED
  BY <1>1, <1>2, <1>3, <1>4, <1>5, <1>6, <1>7, <1>8, <1>9, <1>10, <1>11, <1>12, <1>13, <1>14, <1>15 DEF Step

-----------------------------------------------------------------------------
(* A sound blob stays sound: the only writers of its name are the removal  *)
(* and the replacement by a verified file.                                 *)
LEMMA SoundStays ==
  ASSUME TypeOK, NEW p \in Processes, Step(p), NEW h \in Hashes, Sound(file, h)
  PROVE  Sound(file', h)
<1> USE PathFacts
<1>p. job[p] \in Jobs /\ JobOK(job[p])
  BY DEF TypeOK
<1>1. CASE file' = file
  BY <1>1 DEF Sound
<1>2. CASE clear(p)
  BY <1>2 DEF clear, clear_blob, Sound, TypeOK
<1>3. CASE replace(p)
  BY <1>3, <1>p DEF replace, Sound, TypeOK, Jobs
<1>4. CASE hf_hub_download(p)
  BY <1>4 DEF hf_hub_download, Sound, TypeOK
<1>5. CASE unlink_dest(p)
  BY <1>5 DEF unlink_dest, Sound, TypeOK
<1> QED
  BY <1>1, <1>2, <1>3, <1>4, <1>5
  DEF Step, begin, look, verify, hash, mark, unmark, download, download_temp, link_look,
      symlink_to, report, killed, LooksOnly, OnDisk, diskVars

(* The process that moves keeps what it found. *)
LEMMA MoverFindsSound ==
  ASSUME CacheInv, NEW p \in Processes, Step(p),
         job'[p].on = "blob", job'[p].pc \in {"mark", "link", "unlink_dest", "symlink"}
  PROVE  Sound(file', job'[p].hash)
<1> USE PathFacts
<1>p. TypeOK /\ UrlMarkerTruthful /\ FoundSound /\ job[p] \in Jobs /\ JobOK(job[p])
  BY DEF CacheInv, TypeOK
<1>s. \A h \in Hashes : Sound(file, h) => Sound(file', h)
  BY <1>p, SoundStays
<1>h. job[p].hash \in Hashes
  BY <1>p DEF Jobs
<1>1. CASE verify(p)
  <2>1. job'[p] = [job[p] EXCEPT !.pc = IF marked(p) THEN accepted(p) ELSE "hash"]
    BY <1>1, <1>p DEF verify, Goto, TypeOK
  <2>2. job[p].on = "blob" /\ job'[p].hash = job[p].hash /\ marked(p)
    BY <2>1, <1>p DEF Jobs
  <2>3. Sound(file, job[p].hash)
    BY <2>2, <1>p DEF marked, UrlMarkerTruthful, Sound
  <2> QED
    BY <2>2, <2>3, <1>s, <1>h
<1>2. CASE hash(p)
  <2>1. PICK pc \in {"disk_error", "mark", after_mismatch(p)} :
          /\ job'[p] = [job[p] EXCEPT !.pc = pc]
          /\ pc = "mark" => job[p].on = "dest" \/ file[job[p].target] = job[p].hash
    BY <1>2, <1>p DEF hash, sha256_file, Goto, TypeOK, after_mismatch, after_miss
  <2>2. job[p].on = "blob" /\ job'[p].hash = job[p].hash /\ pc = "mark"
    BY <2>1, <1>p DEF Jobs, after_mismatch, after_miss
  <2>3. Sound(file, job[p].hash)
    BY <2>1, <2>2, <1>p DEF JobOK, Sound
  <2> QED
    BY <2>2, <2>3, <1>s, <1>h
<1>3. CASE mark(p) \/ link_look(p) \/ unlink_dest(p) \/ symlink_to(p)
  <2>1. job[p].pc \in {"mark", "link", "unlink_dest", "symlink"}
    BY <1>3 DEF mark, link_look, unlink_dest, symlink_to
  <2>2. job[p].on = "blob" /\ job'[p].hash = job[p].hash
    BY <1>3, <1>p DEF mark, link_look, unlink_dest, symlink_to, Goto, TypeOK, Jobs
  <2> QED
    BY <2>1, <2>2, <1>p, <1>s, <1>h DEF FoundSound
<1>4. CASE replace(p)
  BY <1>4, <1>p DEF replace, Goto, TypeOK, Jobs, JobOK, Sound
<1>5. CASE \/ \E op \in {"fetch", "missing"} : begin(p, op)
           \/ look(p) \/ clear(p) \/ unmark(p) \/ download(p)
           \/ hf_hub_download(p) \/ report(p) \/ killed(p)
  BY <1>5, <1>p
  DEF begin, look, clear, clear_blob, unmark, download, download_temp, hf_hub_download,
      report, killed, after_miss, Goto, TypeOK, Jobs, JobOK
<1> QED
  BY <1>1, <1>2, <1>3, <1>4, <1>5 DEF Step

LEMMA StepFoundSound ==
  ASSUME CacheInv, NEW p \in Processes, Step(p)
  PROVE  FoundSound'
<1> SUFFICES ASSUME NEW q \in Processes, job'[q].on = "blob",
                    job'[q].pc \in {"mark", "link", "unlink_dest", "symlink"}
             PROVE  Sound(file', job'[q].hash)
  BY DEF FoundSound
<1>1. CASE q = p
  BY <1>1, MoverFindsSound
<1>2. CASE q # p
  <2>1. job'[q] = job[q]
    BY <1>2
    DEF CacheInv, TypeOK, Step, Goto, begin, look, verify, hash, sha256_file, mark, clear,
        clear_blob, unmark, download, download_temp, replace, hf_hub_download, link_look,
        unlink_dest, symlink_to, report, killed
  <2>2. Sound(file, job[q].hash) /\ job[q].hash \in Hashes
    BY <2>1 DEF CacheInv, FoundSound, TypeOK, Jobs
  <2> QED
    BY <2>1, <2>2, SoundStays DEF CacheInv
<1> QED
  BY <1>1, <1>2

LEMMA StepMarker ==
  ASSUME CacheInv, NEW p \in Processes, Step(p)
  PROVE  UrlMarkerTruthful'
<1> SUFFICES ASSUME NEW h \in urlMark' PROVE Sound(file', h)
  BY DEF UrlMarkerTruthful, Sound
<1>p. TypeOK /\ job[p] \in Jobs
  BY DEF CacheInv, TypeOK
<1>1. CASE h \in urlMark
  BY <1>1, SoundStays DEF CacheInv, UrlMarkerTruthful, Sound, TypeOK
<1>2. CASE h \notin urlMark
  <2>1. mark(p) /\ h = job[p].hash /\ job[p].on = "blob"
    BY <1>2
    DEF Step, begin, look, verify, hash, mark, clear, unmark, download, replace,
        hf_hub_download, link_look, unlink_dest, symlink_to, report, killed, LooksOnly,
        diskVars
  <2>2. Sound(file, h) /\ h \in Hashes
    BY <2>1, <1>p DEF CacheInv, FoundSound, mark, Jobs
  <2> QED
    BY <2>2, <1>p, SoundStays
<1> QED
  BY <1>1, <1>2

LEMMA StepLink ==
  ASSUME CacheInv, NEW p \in Processes, Step(p)
  PROVE  LinkedBlobTruthful'
<1> USE PathFacts
<1>p. TypeOK /\ job[p] \in Jobs /\ JobOK(job[p]) /\ link \in Paths
  BY DEF CacheInv, TypeOK
<1> SUFFICES ASSUME link'.at = "blob" PROVE Sound(file', link'.of) /\ link' = Blob(link'.of)
  BY DEF LinkedBlobTruthful, Sound
<1>1. CASE link' = link
  BY <1>1, <1>p, SoundStays DEF CacheInv, LinkedBlobTruthful, Sound
<1>2. CASE symlink_to(p) /\ link' = job[p].target
  <2>1. job[p].on = "blob" /\ link' = Blob(job[p].hash)
    BY <1>2, <1>p DEF symlink_to, JobOK, Jobs
  <2>2. job[p].hash \in Hashes /\ Sound(file, job[p].hash)
    BY <1>2, <1>p, <2>1 DEF CacheInv, FoundSound, symlink_to, Jobs
  <2>3. link'.of = job[p].hash
    BY <2>1 DEF Blob
  <2> QED
    BY <2>1, <2>2, <2>3, <1>p, SoundStays
<1>3. CASE unlink_dest(p)
  BY <1>3 DEF unlink_dest, Dest
<1> QED
  BY <1>1, <1>2, <1>3
  DEF Step, begin, look, verify, hash, mark, clear, unmark, download, replace,
      hf_hub_download, link_look, symlink_to, report, killed, LooksOnly, diskVars

-----------------------------------------------------------------------------
(* The world around the processes keeps the invariant. *)
LEMMA WorldStep ==
  ASSUME CacheInv, checkout \/ UNCHANGED vars
  PROVE  CacheInv'
<1>1. CASE checkout
  BY <1>1
  DEF checkout, diskVars, CacheInv, TypeOK, UrlMarkerTruthful, FoundSound, Sound,
      LinkedBlobTruthful
<1>2. CASE UNCHANGED vars
  BY <1>2
  DEF vars, diskVars, CacheInv, TypeOK, UrlMarkerTruthful, FoundSound, Sound,
      LinkedBlobTruthful
<1> QED
  BY <1>1, <1>2

THEOREM CacheStep == CacheInv /\ [Next]_vars => CacheInv'
<1> SUFFICES ASSUME CacheInv, [Next]_vars PROVE CacheInv'
  OBVIOUS
<1>1. ASSUME NEW p \in Processes, Step(p) PROVE CacheInv'
  BY <1>1, StepTypes, StepMarker, StepFoundSound, StepLink DEF CacheInv
<1> QED
  BY <1>1, WorldStep DEF Next

(* Every variable of the cache keeps its type, and a check of missing      *)
(* files never comes to a place of weights.py that changes one.            *)
THEOREM CacheTypes == Spec => []TypeOK
<1>1. CacheInv => TypeOK
  BY DEF CacheInv
<1> QED
  BY <1>1, CacheInit, CacheStep, PTL DEF Spec

(* The markers of the content cache never vouch for a wrong file:          *)
(* weights.py needs no lock for that, only the verified file moved into    *)
(* place in one step.                                                      *)
THEOREM CacheTruthful == Spec => []UrlMarkerTruthful
<1>1. CacheInv => UrlMarkerTruthful
  BY DEF CacheInv
<1> QED
  BY <1>1, CacheInit, CacheStep, PTL DEF Spec

(* dest is never linked to a wrong file of the content cache, whichever    *)
(* process's _link came last.                                              *)
THEOREM LinkTruthful == Spec => []LinkedBlobTruthful
<1>1. CacheInv => LinkedBlobTruthful
  BY DEF CacheInv
<1> QED
  BY <1>1, CacheInit, CacheStep, PTL DEF Spec

-----------------------------------------------------------------------------
(* What a fetch that runs alone, or that every process has just made,      *)
(* delivers                                                                *)

(* The fetch of a url entry works on its blob from begin to end. *)
FetchesBlob ==
  \A p \in Processes :
    /\ job[p].pc # "off" /\ job[p].op = "fetch" /\ job[p].kind = "url" => job[p].on = "blob"
    /\ job[p].pc = "hub" => job[p].on = "dest"

(* What process p relies on at each point, which only another process      *)
(* could undo.                                                             *)
Relies(p) ==
  LET j == job[p] IN
    /\ j.pc \in {"verify", "hash", "clear", "mark", "link", "unlink_dest", "symlink"}
         => file[j.target] # NoFile
    /\ j.pc \in {"verify", "hash", "mark"} /\ j.on = "dest" => j.target = link
    /\ j.pc = "unlink_dest" => exists
    /\ j.pc = "symlink" => ~exists
    /\ j.pc = "report" => DestContent # NoFile /\ (j.on = "blob" => link = j.target)

Alone(p) == \A q \in Processes \ {p} : ~Running(q)

SoloInv ==
  \A p \in solo : /\ Running(p) => Alone(p) /\ Relies(p)
                  /\ job[p].pc # "disk_error"

(* Once every process has linked the blob of the same url entry, the link  *)
(* is that of the last of them, and nobody removes its blob any more.      *)
Linked(h) ==
  \A p \in Processes : /\ job[p].op = "fetch" /\ job[p].kind = "url" /\ job[p].hash = h
                       /\ job[p].pc \in {"report", "done"}
LastLinkStands ==
  \A h \in Hashes : Linked(h) =>
    /\ link = Blob(h)
    /\ (\A p \in Processes : job[p].pc = "done") => DestContent # NoFile

DeliveryInv == CacheInv /\ FetchesBlob /\ SoloInv /\ LastLinkStands

LEMMA DeliveryInit == Processes # {} /\ Init => DeliveryInv
<1> SUFFICES ASSUME Processes # {}, Init PROVE DeliveryInv
  OBVIOUS
<1>1. CacheInv
  BY CacheInit
<1>2. \A p \in Processes : job[p].pc = "off"
  BY DEF Init
<1>3. FetchesBlob /\ LastLinkStands
  BY <1>2 DEF FetchesBlob, LastLinkStands, Linked
<1>4. SoloInv
  BY DEF Init, SoloInv
<1> QED
  BY <1>1, <1>3, <1>4 DEF DeliveryInv

(* A step is one of one process: no other job changes, and only begin      *)
(* changes solo.                                                           *)
LEMMA OtherJobs ==
  ASSUME TypeOK, NEW p \in Processes, Step(p), NEW q \in Processes, q # p
  PROVE  job'[q] = job[q]
BY DEF TypeOK, Step, Goto, begin, look, verify, hash, sha256_file, mark, clear,
       clear_blob, unmark, download, download_temp, replace, hf_hub_download, link_look,
       unlink_dest, symlink_to, report, killed

LEMMA StepRunning ==
  ASSUME NEW p \in Processes, Step(p)
  PROVE  \/ \E op \in {"fetch", "missing"} : begin(p, op)
         \/ Running(p) /\ solo' = solo
BY DEF Step, Running, Active, look, verify, hash, mark, clear, unmark, download, replace,
       hf_hub_download, link_look, unlink_dest, symlink_to, report, killed, LooksOnly, OnDisk

(* A process that runs alone finds all it relies on. *)
LEMMA ReliesOnStays ==
  ASSUME TypeOK, NEW p \in Processes, Relies(p), Step(p), Running(p)
  PROVE  Relies(p)' /\ job'[p].pc # "disk_error"
<1> USE PathFacts
<1>p. /\ job[p] \in Jobs /\ JobOK(job[p]) /\ link \in Paths /\ file \in [Paths -> Contents]
      /\ job \in [Processes -> Jobs]
  BY DEF TypeOK
<1>t. job[p].target \in Paths /\ job[p].hash \in Hashes
  BY <1>p DEF Jobs
<1>h. \A h \in Hashes : h # NoFile
  BY SpecialValuesAssumption
<1>1. CASE look(p)
  <2>1. PICK pc \in {"verify"} \cup {after_miss(p)}, target \in Paths :
          /\ job'[p] = [job[p] EXCEPT !.pc = pc, !.target = target]
          /\ pc = "verify" => file[target] # NoFile /\ (job[p].on = "dest" => target = link)
    <3> DEFINE path == IF job[p].on = "dest" THEN resolve ELSE job[p].target
    <3>1. path \in Paths
      BY <1>p, <1>t DEF resolve
    <3>2. CASE file[path] # NoFile
      BY <1>1, <1>p, <3>1, <3>2 DEF look, resolve
    <3>3. CASE file[path] = NoFile
      <4>1. job'[p] = [job[p] EXCEPT !.pc = after_miss(p), !.target = job[p].target]
        BY <1>1, <1>p, <3>3 DEF look, Jobs
      <4>2. after_miss(p) # "verify"
        BY <1>p DEF after_miss, Jobs
      <4> QED
        BY <1>t, <4>1, <4>2
    <3> QED
      BY <3>2, <3>3
  <2>2. after_miss(p) \in {"missing", "download", "hub", "refused"}
    BY <1>p DEF after_miss, Jobs
  <2>3. UNCHANGED diskVars
    BY <1>1 DEF look, LooksOnly
  <2> QED
    BY <1>p, <2>1, <2>2, <2>3 DEF Relies, Jobs, diskVars
<1>2. CASE verify(p)
  <2>1. job'[p] = [job[p] EXCEPT !.pc = IF marked(p) THEN accepted(p) ELSE "hash"]
    BY <1>2, <1>p DEF verify, Goto
  <2>2. accepted(p) \in {"current", "report", "link"} /\ (accepted(p) = "report" => job[p].on = "dest")
    BY DEF accepted
  <2> QED
    BY <1>2, <1>p, <2>1, <2>2
    DEF verify, Relies, Jobs, LooksOnly, diskVars, DestContent, resolve
<1>3. CASE hash(p)
  <2>1. file[job[p].target] # NoFile /\ (job[p].on = "dest" => job[p].target = link)
    BY <1>3 DEF hash, Relies
  <2>2. PICK pc \in {"mark", after_mismatch(p)} : job'[p] = [job[p] EXCEPT !.pc = pc]
    BY <1>3, <1>p, <2>1 DEF hash, sha256_file, Goto, DestContent, resolve
  <2>3. after_mismatch(p) \in {"clear", "missing", "hub", "refused"}
    BY <1>p DEF after_mismatch, after_miss, Jobs
  <2> QED
    BY <1>3, <1>p, <2>1, <2>2, <2>3 DEF hash, Relies, Jobs, LooksOnly, diskVars
<1>4. CASE mark(p)
  <2>1. job'[p] = [job[p] EXCEPT !.pc = accepted(p)]
    BY <1>4, <1>p DEF mark, Goto
  <2>2. accepted(p) \in {"current", "report", "link"} /\ (accepted(p) = "report" => job[p].on = "dest")
    BY DEF accepted
  <2> QED
    BY <1>4, <1>p, <2>1, <2>2 DEF mark, Relies, Jobs, DestContent, resolve
<1>5. CASE clear(p)
  BY <1>5, <1>p DEF clear, clear_blob, Goto, Relies, Jobs
<1>6. CASE unmark(p) \/ download(p)
  BY <1>6, <1>p DEF unmark, download, download_temp, Goto, Relies, Jobs
<1>7. CASE replace(p)
  <2>1. job'[p] = [job[p] EXCEPT !.pc = "mark"] /\ file' = [file EXCEPT ![Blob(job[p].hash)] = job[p].hash]
    BY <1>7, <1>p DEF replace, Goto
  <2>2. job[p].on = "blob" /\ job[p].target = Blob(job[p].hash)
    BY <1>7, <1>p DEF replace, JobOK
  <2> QED
    BY <1>p, <1>t, <1>h, <2>1, <2>2 DEF Relies, Jobs
<1>8. CASE hf_hub_download(p)
  BY <1>8, <1>p, <1>h DEF hf_hub_download, Goto, Relies, Jobs
<1>9. CASE link_look(p)
  <2>1. job'[p] = [job[p] EXCEPT !.pc = link_step(p)] /\ UNCHANGED <<file, link>>
    BY <1>9, <1>p DEF link_look, Goto, LooksOnly, diskVars
  <2>2. file[job[p].target] # NoFile
    BY <1>9 DEF link_look, Relies
  <2> QED
    BY <1>p, <2>1, <2>2 DEF link_step, Relies, Jobs, exists, is_symlink, DestContent, resolve
<1>10. CASE unlink_dest(p)
  <2>1. job'[p] = [job[p] EXCEPT !.pc = "symlink"] /\ link' = Dest /\ file' = [file EXCEPT ![Dest] = NoFile]
    BY <1>10, <1>p DEF unlink_dest, Goto, Relies
  <2>2. job[p].target # Dest /\ file[job[p].target] # NoFile
    BY <1>10, <1>p, <1>t DEF unlink_dest, Relies, JobOK, Jobs, Dest
  <2> QED
    BY <1>p, <1>t, <2>1, <2>2 DEF Relies, Jobs, exists, is_symlink
<1>11. CASE symlink_to(p)
  <2>1. job'[p] = [job[p] EXCEPT !.pc = "report"] /\ link' = job[p].target /\ UNCHANGED file
    BY <1>11, <1>p DEF symlink_to, Goto, Relies
  <2> QED
    BY <1>11, <1>p, <2>1 DEF symlink_to, Relies, Jobs, DestContent, resolve
<1>12. CASE report(p)
  BY <1>12, <1>p DEF report, Goto, Relies, Jobs
<1>13. CASE killed(p)
  BY <1>13, <1>p DEF killed, Goto, Relies, Jobs
<1>14. CASE \E op \in {"fetch", "missing"} : begin(p, op)
  BY <1>14 DEF begin
<1> QED
  BY <1>1, <1>2, <1>3, <1>4, <1>5, <1>6, <1>7, <1>8, <1>9, <1>10, <1>11, <1>12, <1>13, <1>14
  DEF Step

LEMMA SoloStep ==
  ASSUME CacheInv, SoloInv, NEW p \in Processes, Step(p)
  PROVE  SoloInv'
<1>t. TypeOK /\ solo \subseteq Processes
  BY DEF CacheInv, TypeOK
<1>o. \A q \in Processes \ {p} : job'[q] = job[q]
  BY <1>t, OtherJobs
<1>1. ASSUME NEW op \in {"fetch", "missing"}, begin(p, op)
      PROVE  SoloInv'
  <2>1. job'[p].pc = "look"
    BY <1>1, <1>t DEF begin, TypeOK
  <2>2. CASE \E q \in Processes \ {p} : Running(q)
    BY <1>1, <1>t, <1>o, <2>2 DEF begin, SoloInv, Running
  <2>3. CASE \A q \in Processes \ {p} : ~Running(q)
    <3>1. solo' = solo \cup {p}
      BY <1>1, <2>3 DEF begin
    <3>2. Alone(p)' /\ Relies(p)'
      BY <1>o, <2>1, <2>3 DEF Alone, Relies, Running
    <3> QED
      BY <1>t, <1>o, <2>1, <2>3, <3>1, <3>2 DEF SoloInv, Running
  <2> QED
    BY <2>2, <2>3
<1>2. ASSUME Running(p), solo' = solo
      PROVE  SoloInv'
  <2> SUFFICES ASSUME NEW q \in solo
               PROVE  (Running(q)' => Alone(q)' /\ Relies(q)') /\ job'[q].pc # "disk_error"
    BY <1>2 DEF SoloInv
  <2>1. CASE q = p
    <3>1. Alone(p) /\ Relies(p)
      BY <1>2, <2>1 DEF SoloInv
    <3>2. Alone(p)'
      BY <1>o, <3>1 DEF Alone, Running
    <3> QED
      BY <1>2, <1>t, <2>1, <3>1, <3>2, ReliesOnStays
  <2>2. CASE q # p
    <3>1. ~Running(q)
      BY <1>2, <1>t, <2>2 DEF SoloInv, Alone
    <3> QED
      BY <1>t, <1>o, <2>2, <3>1 DEF SoloInv, Running
  <2> QED
    BY <2>1, <2>2
<1> QED
  BY <1>1, <1>2, StepRunning

LEMMA FetchesBlobStep ==
  ASSUME TypeOK, FetchesBlob, NEW p \in Processes, Step(p)
  PROVE  FetchesBlob'
<1>p. job[p] \in Jobs /\ JobOK(job[p]) /\ job \in [Processes -> Jobs]
  BY DEF TypeOK
<1>1. job'[p].pc # "off" /\ job'[p].op = "fetch" /\ job'[p].kind = "url" => job'[p].on = "blob"
  <2>1. CASE \E op \in {"fetch", "missing"} : begin(p, op)
    <3>1. PICK op \in {"fetch", "missing"} : begin(p, op)
      BY <2>1
    <3> QED
      BY <3>1, <1>p DEF begin
  <2>2. CASE hf_hub_download(p)
    <3>1. job[p].on = "dest" /\ job[p].pc = "hub" /\ job[p].op = "fetch"
      BY <2>2, <1>p DEF hf_hub_download, JobOK, FetchesBlob
    <3>2. job'[p].kind = job[p].kind /\ job'[p].op = job[p].op
      BY <2>2, <1>p DEF hf_hub_download, Goto, Jobs
    <3>3. job[p].kind # "url"
      BY <3>1 DEF FetchesBlob
    <3> QED
      BY <3>2, <3>3
  <2>3. CASE ~ (\E op \in {"fetch", "missing"} : begin(p, op)) /\ ~ hf_hub_download(p)
    <3>1. /\ job[p].pc # "off"
          /\ job'[p].op = job[p].op /\ job'[p].kind = job[p].kind /\ job'[p].on = job[p].on
      BY <2>3, <1>p
      DEF Step, Goto, look, verify, hash, sha256_file, mark, clear, clear_blob, unmark,
          download, download_temp, replace, link_look, unlink_dest, symlink_to, report,
          killed, Running, Active, Jobs
    <3> QED
      BY <3>1 DEF FetchesBlob
  <2> QED
    BY <2>1, <2>2, <2>3
<1>2. job'[p].pc = "hub" => job'[p].on = "dest"
  <2>1. CASE look(p)
    BY <2>1, <1>p DEF look, after_miss, Jobs
  <2>2. CASE hash(p)
    BY <2>2, <1>p DEF hash, sha256_file, after_mismatch, after_miss, Goto, Jobs
  <2>3. CASE ~look(p) /\ ~hash(p)
    <3>1. job'[p].pc # "hub"
      BY <2>3, <1>p
      DEF Step, Goto, begin, verify, mark, clear, clear_blob, unmark, download, download_temp,
          replace, hf_hub_download, link_look, link_step, unlink_dest, symlink_to, report,
          killed, accepted, Jobs
    <3> QED
      BY <3>1
  <2> QED
    BY <2>1, <2>2, <2>3
<1>3. \A q \in Processes \ {p} : job'[q] = job[q]
  BY OtherJobs
<1> QED
  BY <1>1, <1>2, <1>3 DEF FetchesBlob

(* A step after which every process has linked the blob was the last of    *)
(* them to link it, or a report of one of them.                            *)
LEMMA LastLinkStep ==
  ASSUME CacheInv, FetchesBlob, LastLinkStands, NEW p \in Processes, Step(p)
  PROVE  LastLinkStands'
<1> USE PathFacts
<1>p. /\ job[p] \in Jobs /\ JobOK(job[p]) /\ job \in [Processes -> Jobs] /\ TypeOK
  BY DEF CacheInv, TypeOK
<1>o. \A q \in Processes \ {p} : job'[q] = job[q]
  BY <1>p, OtherJobs
<1> SUFFICES ASSUME NEW h \in Hashes, Linked(h)'
             PROVE  /\ link' = Blob(h)
                    /\ (\A q \in Processes : job'[q].pc = "done") => DestContent' # NoFile
  BY DEF LastLinkStands
<1>1. /\ job'[p].op = "fetch" /\ job'[p].kind = "url" /\ job'[p].hash = h
      /\ job'[p].pc \in {"report", "done"}
  BY DEF Linked
<1>2. CASE report(p)
  <2>1. /\ job'[p] = [job[p] EXCEPT !.pc = "done"] /\ job[p].pc = "report"
        /\ DestContent # NoFile /\ UNCHANGED <<file, link>>
    BY <1>1, <1>2, <1>p DEF report, Goto, LooksOnly, diskVars
  <2>2. Linked(h)
    BY <1>1, <1>o, <1>p, <2>1 DEF Linked, Jobs
  <2> QED
    BY <2>1, <2>2 DEF LastLinkStands, DestContent, resolve
<1>3. CASE ~report(p)
  <2>1. \/ link_look(p) /\ link = job[p].target
        \/ symlink_to(p) /\ link' = job[p].target
        \/ (verify(p) \/ mark(p)) /\ job[p].on = "dest" /\ job[p].op = "fetch"
    <3>1. link_look(p) => link_step(p) = "report" \/ job'[p].pc # "report"
      BY <1>p DEF link_look, Goto, Jobs
    <3>2. ASSUME verify(p) \/ mark(p) PROVE accepted(p) = "report"
      <4>1. PICK pc \in {accepted(p), "hash"} : job'[p] = [job[p] EXCEPT !.pc = pc]
        BY <3>2, <1>p DEF verify, mark, Goto
      <4>2. job'[p].pc = pc
        BY <4>1, <1>p DEF Jobs
      <4> QED
        BY <1>1, <4>2 DEF accepted
    <3>3. ASSUME symlink_to(p) PROVE link' = job[p].target
      <4>1. Goto(p, "disk_error") => job'[p].pc = "disk_error"
        BY <1>p DEF Goto, Jobs
      <4> QED
        BY <1>1, <3>3, <4>1 DEF symlink_to
    <3>4. link_look(p) \/ verify(p) \/ mark(p) \/ symlink_to(p)
      BY <1>1, <1>3, <1>p
      DEF Step, Goto, begin, look, hash, sha256_file, clear, clear_blob, unmark, download,
          download_temp, replace, hf_hub_download, unlink_dest, killed, after_miss,
          after_mismatch, Jobs
    <3>5. link_step(p) = "report" => link = job[p].target
      BY DEF link_step
    <3>6. job'[p].pc = "report" \/ job'[p].pc = "done"
      BY <1>1
    <3>7. CASE link_look(p)
      <4>1. job'[p].pc # "done"
        BY <3>7, <1>p DEF link_look, Goto, link_step, Jobs
      <4> QED
        BY <3>1, <3>5, <3>6, <3>7, <4>1
    <3>8. CASE verify(p) \/ mark(p)
      BY <3>2, <3>8, <1>p DEF accepted, Jobs
    <3> QED
      BY <3>3, <3>4, <3>7, <3>8
  <2>2. /\ job[p].pc # "off" /\ job[p].op = "fetch" /\ job[p].kind = "url"
        /\ job[p].hash = h /\ job'[p].pc = "report"
    BY <1>1, <1>p, <2>1
    DEF link_look, symlink_to, verify, mark, Goto, Jobs, link_step, accepted
  <2>3. job[p].on = "blob" /\ job[p].target = Blob(h)
    BY <2>2, <1>p DEF FetchesBlob, JobOK
  <2>4. link' = Blob(h)
    BY <2>1, <2>3 DEF link_look, LooksOnly, diskVars
  <2> QED
    BY <2>2, <2>4
<1> QED
  BY <1>2, <1>3

THEOREM DeliveryStep == DeliveryInv /\ [Next]_vars => DeliveryInv'
<1> SUFFICES ASSUME DeliveryInv, [Next]_vars PROVE DeliveryInv'
  OBVIOUS
<1>0. CacheInv'
  BY CacheStep DEF DeliveryInv
<1>1. ASSUME NEW p \in Processes, Step(p) PROVE DeliveryInv'
  BY <1>0, <1>1, SoloStep, FetchesBlobStep, LastLinkStep DEF DeliveryInv, CacheInv
<1>2. CASE checkout \/ UNCHANGED vars
  <2>1. UNCHANGED <<file, link, job, solo>>
    BY <1>2 DEF checkout, vars, diskVars
  <2> QED
    BY <1>0, <2>1
    DEF DeliveryInv, FetchesBlob, SoloInv, Alone, Relies, Running, LastLinkStands, Linked,
        exists, is_symlink, DestContent, resolve
<1> QED
  BY <1>1, <1>2 DEF Next

LEMMA DeliveryInvariance == Processes # {} /\ Spec => []DeliveryInv
<1> SUFFICES ASSUME Processes # {} PROVE Spec => []DeliveryInv
  OBVIOUS
<1> QED
  BY DeliveryInit, DeliveryStep, PTL DEF Spec

(* Of any number of processes that fetched the same url entry, all without *)
(* an error, none leaves another file under dest: the last _link wins, and *)
(* every one of them linked the same verified blob.                        *)
THEOREM AllDone == Processes # {} /\ Spec => []AllDoneDelivers
<1> SUFFICES ASSUME Processes # {} PROVE Spec => []AllDoneDelivers
  OBVIOUS
<1>1. DeliveryInv => AllDoneDelivers
  <2> SUFFICES ASSUME DeliveryInv, NEW h \in Hashes,
                      \A p \in Processes :
                        job[p].pc = "done" /\ job[p].kind = "url" /\ job[p].hash = h
               PROVE  DestContent = h
    BY DEF AllDoneDelivers
  <2>1. Linked(h)
    BY DEF Linked, DeliveryInv, CacheInv, TypeOK, JobOK
  <2>2. link = Blob(h) /\ DestContent # NoFile
    BY <2>1 DEF DeliveryInv, LastLinkStands
  <2> QED
    BY <2>2 DEF DeliveryInv, CacheInv, LinkedBlobTruthful, Blob, DestContent, resolve
<1> QED
  BY <1>1, DeliveryInvariance, PTL

(* A fetch or check that meets no other one never fails on what killed or  *)
(* racing ones left on the disk.                                           *)
THEOREM SoloRepairs == Processes # {} /\ Spec => []SoloFetchRepairs
<1>1. DeliveryInv => SoloFetchRepairs
  BY DEF DeliveryInv, SoloInv, SoloFetchRepairs
<1> QED
  BY <1>1, DeliveryInvariance, PTL

(* The file that a fetch of a url entry reports, if it met no other one,   *)
(* is the declared one, whatever was there before.                         *)
THEOREM SoloDelivers == Processes # {} /\ Spec => SoloFetchDelivers
<1>1. DeliveryInv /\ [Next]_vars =>
        [\A p \in solo : Running(p) /\ job'[p].pc = "done" /\ job[p].kind = "url"
           => DestContent = job[p].hash]_vars
  <2> SUFFICES ASSUME DeliveryInv, Next, NEW p \in solo, Running(p), job'[p].pc = "done",
                      job[p].kind = "url"
               PROVE  DestContent = job[p].hash
    OBVIOUS
  <2>1. p \in Processes /\ job[p] \in Jobs /\ JobOK(job[p]) /\ TypeOK /\ job \in [Processes -> Jobs]
    BY DEF DeliveryInv, CacheInv, TypeOK
  <2>2. Step(p)
    <3>1. job[p].pc # "done"
      BY DEF Running, Active
    <3>2. ASSUME NEW q \in Processes, Step(q) PROVE q = p
      BY <2>1, <3>1, <3>2, OtherJobs
    <3> QED
      BY <3>1, <3>2 DEF Next, checkout
  <2>3. report(p)
    BY <2>1, <2>2
    DEF Step, Goto, begin, look, verify, hash, sha256_file, mark, clear, clear_blob, unmark,
        download, download_temp, replace, hf_hub_download, link_look, unlink_dest, symlink_to,
        killed, after_miss, after_mismatch, accepted, link_step, Jobs
  <2>4. job[p].pc = "report" /\ job[p].on = "blob" /\ job[p].target = Blob(job[p].hash)
    BY <2>1, <2>3 DEF report, JobOK, DeliveryInv, FetchesBlob
  <2>5. link = Blob(job[p].hash) /\ DestContent # NoFile
    BY <2>4 DEF DeliveryInv, SoloInv, Relies
  <2> QED
    BY <2>5 DEF DeliveryInv, CacheInv, LinkedBlobTruthful, Blob, DestContent, resolve
<1> QED
  BY <1>1, DeliveryInvariance, PTL DEF Spec, SoloFetchDelivers
=============================================================================
