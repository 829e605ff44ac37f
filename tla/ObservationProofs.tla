------------------------- MODULE ObservationProofs --------------------------
(***************************************************************************)
(* The observation pipeline, for every manifest, launch and order of       *)
(* messages.  Its loops are folds; what they compute is proved by          *)
(* induction over the sequences they run along, in the form of sets of     *)
(* numbers, since a fact about every predicate cannot be cited.            *)
(***************************************************************************)
EXTENDS Observations, TLAPS, SequenceTheorems, FiniteSetTheorems, WellFoundedInduction

-----------------------------------------------------------------------------
(* Induction, and the loops of the code *)

LEMMA Inductive ==
  ASSUME NEW S, 0 \in S, \A n \in Nat : n \in S => n + 1 \in S
  PROVE  Nat \subseteq S
<1> SUFFICES ASSUME Nat \ S # {} PROVE FALSE
  OBVIOUS
<1>1. PICK m \in Nat \ S : \A n \in Nat \ S : ~ (<<n, m>> \in OpToRel(<, Nat))
  BY NatLessThanWellFounded, WFMin, Zenon
<1>2. m # 0 /\ m - 1 \in Nat /\ (m - 1) + 1 = m
  OBVIOUS
<1>3. m - 1 \notin S
  BY <1>2
<1>4. <<m - 1, m>> \in OpToRel(<, Nat)
  BY <1>2 DEF OpToRel
<1> QED
  BY <1>1, <1>2, <1>3, <1>4

LEMMA MaxOf ==
  ASSUME NEW n \in Nat, NEW s \in SUBSET (1 .. n), s # {}
  PROVE  Max(s) \in s /\ \A x \in s : x <= Max(s)
<1> DEFINE Bounded == {k \in Nat : \A t \in SUBSET (1 .. k) :
                                     t # {} => \E x \in t : \A y \in t : x >= y}
<1>1. 0 \in Bounded
  <2>1. \A t \in SUBSET (1 .. 0) : t = {}
    OBVIOUS
  <2> QED
    BY <2>1
<1>2. ASSUME NEW k \in Nat, k \in Bounded PROVE k + 1 \in Bounded
  <2> SUFFICES ASSUME NEW t \in SUBSET (1 .. k + 1), t # {}
               PROVE  \E x \in t : \A y \in t : x >= y
    OBVIOUS
  <2>1. CASE k + 1 \in t
    BY <2>1
  <2>2. CASE k + 1 \notin t
    <3>1. t \in SUBSET (1 .. k)
      BY <2>2
    <3> QED
      BY <1>2, <3>1
  <2> QED
    BY <2>1, <2>2
<1>3. n \in Bounded
  <2> HIDE DEF Bounded
  <2> QED
    BY <1>1, <1>2, Inductive
<1>4. PICK x \in s : \A y \in s : x >= y
  BY <1>3
<1> QED
  BY <1>4 DEF Max

LEMMA MinOf ==
  ASSUME NEW s \in SUBSET Nat, s # {}
  PROVE  Min(s) \in s /\ \A x \in s : Min(s) <= x
<1>1. PICK m \in s : \A x \in s : ~ (<<x, m>> \in OpToRel(<, Nat))
  BY NatLessThanWellFounded, WFMin, Zenon
<1>2. ASSUME NEW x \in s PROVE m <= x
  <2>1. x < m => <<x, m>> \in OpToRel(<, Nat)
    BY DEF OpToRel
  <2>2. ~ (x < m)
    BY <1>1, <2>1, Zenon
  <2> QED
    BY <2>2
<1> QED
  BY <1>2 DEF Min

(* One turn of each loop: of Pipeline.from_config, goal.withhold_pose and  *)
(* Pipeline.collect; a and b are what the turns of a loop have in common.  *)
turn(loop, a, b, s, x) ==
  CASE loop = "add" -> add(s, x)
    [] loop = "alias" -> alias(s, x)
    [] loop = "without" -> IF x[a] \in b THEN s ELSE Append(s, x)
    [] loop = "generate" -> generate(s, x, a, b)

(* The function a fold along n elements of seq computes. *)
Folds(f, n, loop, a, b, base, seq) ==
  f = [s \in SUBSET (1 .. n) |->
         IF s = {} THEN base ELSE turn(loop, a, b, f[s \ {Max(s)}], seq[Max(s)])]

LEMMA FoldExists ==
  ASSUME NEW loop, NEW a, NEW b, NEW base, NEW seq, NEW n \in Nat
  PROVE  \E f : Folds(f, n, loop, a, b, base, seq)
<1> DEFINE Defined == {k \in Nat : \E f : Folds(f, k, loop, a, b, base, seq)}
<1>1. 0 \in Defined
  <2> DEFINE f == [s \in SUBSET (1 .. 0) |-> base]
  <2>1. \A s \in SUBSET (1 .. 0) : s = {}
    OBVIOUS
  <2>2. Folds(f, 0, loop, a, b, base, seq)
    BY <2>1 DEF Folds
  <2> QED
    BY <2>2
<1>2. ASSUME NEW k \in Nat, k \in Defined PROVE k + 1 \in Defined
  <2>1. PICK f : Folds(f, k, loop, a, b, base, seq)
    BY <1>2
  <2> DEFINE next(s) == turn(loop, a, b, f[s \ {k + 1}], seq[k + 1])
             g == [s \in SUBSET (1 .. k + 1) |-> IF k + 1 \in s THEN next(s) ELSE f[s]]
             rest(s) == turn(loop, a, b, g[s \ {Max(s)}], seq[Max(s)])
  <2>2. ASSUME NEW s \in SUBSET (1 .. k + 1)
        PROVE  g[s] = IF s = {} THEN base ELSE rest(s)
    <3>1. CASE s = {}
      BY <2>1, <3>1 DEF Folds
    <3>2. CASE k + 1 \in s
      <4>1. Max(s) = k + 1
        <5>1. k + 1 \in Nat /\ s # {}
          BY <3>2
        <5>2. Max(s) \in s /\ k + 1 <= Max(s)
          BY <3>2, <5>1, MaxOf
        <5>3. Max(s) \in 1 .. k + 1
          BY <5>2
        <5> QED
          BY <5>2, <5>3
      <4>2. s \ {k + 1} \in SUBSET (1 .. k + 1) /\ k + 1 \notin s \ {k + 1}
        OBVIOUS
      <4>3. g[s \ {k + 1}] = f[s \ {k + 1}]
        BY <4>2
      <4> QED
        BY <3>2, <4>1, <4>3
    <3>3. CASE s # {} /\ k + 1 \notin s
      <4>1. s \in SUBSET (1 .. k)
        BY <3>3
      <4>2. s \ {Max(s)} \in SUBSET (1 .. k + 1) /\ k + 1 \notin s \ {Max(s)}
        BY <3>3
      <4>3. g[s \ {Max(s)}] = f[s \ {Max(s)}]
        BY <4>2
      <4>4. f[s] = turn(loop, a, b, f[s \ {Max(s)}], seq[Max(s)])
        BY <2>1, <3>3, <4>1 DEF Folds
      <4> QED
        BY <3>3, <4>3, <4>4
    <3> QED
      BY <3>1, <3>2, <3>3
  <2>3. g = [s \in SUBSET (1 .. k + 1) |-> IF s = {} THEN base ELSE rest(s)]
    BY <2>2
  <2>4. Folds(g, k + 1, loop, a, b, base, seq)
    BY <2>3 DEF Folds
  <2> QED
    BY <2>4
<1> HIDE DEF Defined
<1>3. n \in Defined
  BY <1>1, <1>2, Inductive
<1> QED
  BY <1>3 DEF Defined

(* A fold as a run: what it has after each element. *)
LEMMA FoldRun ==
  ASSUME NEW loop, NEW a, NEW b, NEW base, NEW seq, NEW n \in Nat,
         NEW f, Folds(f, n, loop, a, b, base, seq)
  PROVE  /\ f[1 .. 0] = base
         /\ \A i \in 1 .. n : f[1 .. i] = turn(loop, a, b, f[1 .. (i - 1)], seq[i])
<1>1. f[1 .. 0] = base
  BY 1 .. 0 = {} DEF Folds
<1>2. ASSUME NEW i \in 1 .. n
      PROVE  f[1 .. i] = turn(loop, a, b, f[1 .. (i - 1)], seq[i])
  <2>1. 1 .. i \in SUBSET (1 .. n) /\ 1 .. i # {}
    OBVIOUS
  <2>2. Max(1 .. i) \in 1 .. i /\ \A x \in 1 .. i : x <= Max(1 .. i)
    BY <2>1, MaxOf, Zenon
  <2>3. Max(1 .. i) = i
    BY <2>2
  <2>4. (1 .. i) \ {i} = 1 .. (i - 1)
    OBVIOUS
  <2> QED
    BY <2>1, <2>3, <2>4 DEF Folds
<1> QED
  BY <1>1, <1>2

(* What a loop of the code does to a sequence, turn by turn. *)
Runs(run, loop, a, b, base, seq) ==
  /\ run[0] = base
  /\ \A i \in 1 .. Len(seq) : run[i] = turn(loop, a, b, run[i - 1], seq[i])

LEMMA FoldRuns ==
  ASSUME NEW loop, NEW a, NEW b, NEW base, NEW E, NEW seq \in Seq(E)
  PROVE  \E run : /\ Runs(run, loop, a, b, base, seq)
                  /\ run[Len(seq)] =
                       (CHOOSE f : Folds(f, Len(seq), loop, a, b, base, seq))[DOMAIN seq]
<1> DEFINE n == Len(seq)
           f == CHOOSE f : Folds(f, n, loop, a, b, base, seq)
           run == [i \in 0 .. n |-> f[1 .. i]]
<1>1. n \in Nat /\ DOMAIN seq = 1 .. n
  BY LenProperties
<1>2. Folds(f, n, loop, a, b, base, seq)
  BY <1>1, FoldExists
<1> HIDE DEF f
<1>3. Runs(run, loop, a, b, base, seq)
  BY <1>1, <1>2, FoldRun DEF Runs
<1>4. run[n] = f[DOMAIN seq]
  BY <1>1
<1> QED
  BY <1>3, <1>4 DEF f

(* The loops of the code are runs. *)
LEMMA AddRuns ==
  ASSUME NEW base, NEW E, NEW seq \in Seq(E)
  PROVE  \E run : /\ Runs(run, "add", 0, 0, base, seq)
                  /\ FoldLeft(add, base, seq) = run[Len(seq)]
<1>1. DOMAIN seq = 1 .. Len(seq)
  BY LenProperties
<1> DEFINE last == (CHOOSE f : Folds(f, Len(seq), "add", 0, 0, base, seq))
                     [DOMAIN seq]
<1>2. FoldLeft(add, base, seq) = last
  BY <1>1 DEF FoldLeft, MapThenFoldSet, Folds, turn
<1>3. PICK run : Runs(run, "add", 0, 0, base, seq) /\ run[Len(seq)] = last
  BY FoldRuns, Zenon
<1> QED
  BY <1>2, <1>3, Zenon

LEMMA AliasRuns ==
  ASSUME NEW base, NEW E, NEW seq \in Seq(E)
  PROVE  \E run : /\ Runs(run, "alias", 0, 0, base, seq)
                  /\ FoldLeft(alias, base, seq) = run[Len(seq)]
<1>1. DOMAIN seq = 1 .. Len(seq)
  BY LenProperties
<1> DEFINE last == (CHOOSE f : Folds(f, Len(seq), "alias", 0, 0, base, seq))
                     [DOMAIN seq]
<1>2. FoldLeft(alias, base, seq) = last
  BY <1>1 DEF FoldLeft, MapThenFoldSet, Folds, turn
<1>3. PICK run : Runs(run, "alias", 0, 0, base, seq) /\ run[Len(seq)] = last
  BY FoldRuns, Zenon
<1> QED
  BY <1>2, <1>3, Zenon

LEMMA WithoutRuns ==
  ASSUME NEW E, NEW seq \in Seq(E), NEW field, NEW names
  PROVE  \E run : /\ Runs(run, "without", field, names, <<>>, seq)
                  /\ without(seq, field, names) = run[Len(seq)]
<1>1. DOMAIN seq = 1 .. Len(seq)
  BY LenProperties
<1> DEFINE last == (CHOOSE f : Folds(f, Len(seq), "without", field, names, <<>>, seq))
                     [DOMAIN seq]
<1>2. without(seq, field, names) = last
  BY <1>1 DEF without, FoldLeft, MapThenFoldSet, Folds, turn
<1>3. PICK run : Runs(run, "without", field, names, <<>>, seq) /\ run[Len(seq)] = last
  BY FoldRuns, Zenon
<1> QED
  BY <1>2, <1>3, Zenon

LEMMA CollectRuns ==
  ASSUME NEW E, pipeline.generators \in Seq(E), NEW readings, NEW short
  PROVE  \E run : /\ Runs(run, "generate", readings, short, start, pipeline.generators)
                  /\ collect(readings, short) = run[Len(pipeline.generators)]
<1> DEFINE last(base, seq) ==
      (CHOOSE f : Folds(f, Len(seq), "generate", readings, short, base, seq))[DOMAIN seq]
<1>1. DOMAIN pipeline.generators = 1 .. Len(pipeline.generators)
  BY LenProperties
<1>2. collect(readings, short) = last(start, pipeline.generators)
  BY <1>1 DEF collect, FoldLeft, MapThenFoldSet, Folds, turn
<1>3. \A base : \A seq \in Seq(E) :
        \E run : /\ Runs(run, "generate", readings, short, base, seq)
                 /\ run[Len(seq)] = last(base, seq)
  BY FoldRuns, ZenonT(40)
<1> HIDE DEF last
<1> QED
  BY <1>2, <1>3, Zenon

(* What a loop keeps, whatever it runs along. *)
Keeps(S, loop, a, b, E) == \A s \in S, x \in E : turn(loop, a, b, s, x) \in S

LEMMA RunStays ==
  ASSUME NEW run, NEW loop, NEW a, NEW b, NEW base, NEW E, NEW seq \in Seq(E),
         Runs(run, loop, a, b, base, seq),
         NEW S, base \in S, Keeps(S, loop, a, b, E)
  PROVE  run[Len(seq)] \in S
<1> DEFINE Kept == {i \in Nat : i <= Len(seq) => run[i] \in S}
<1>1. Len(seq) \in Nat /\ \A i \in 1 .. Len(seq) : seq[i] \in E
  BY LenProperties, ElementOfSeq
<1>2. 0 \in Kept
  BY DEF Runs
<1>3. ASSUME NEW i \in Nat, i \in Kept PROVE i + 1 \in Kept
  <2> SUFFICES ASSUME i + 1 <= Len(seq) PROVE run[i + 1] \in S
    OBVIOUS
  <2>1. i + 1 \in 1 .. Len(seq) /\ (i + 1) - 1 = i /\ run[i] \in S
    BY <1>1, <1>3
  <2>2. run[i + 1] = turn(loop, a, b, run[i], seq[i + 1])
    BY <2>1 DEF Runs
  <2> QED
    BY <1>1, <2>1, <2>2 DEF Keeps
<1> HIDE DEF Kept
<1>4. Nat \subseteq Kept
  BY <1>2, <1>3, Inductive
<1> QED
  BY <1>1, <1>4 DEF Kept

-----------------------------------------------------------------------------
(* Dicts *)

(* Names each bound to one source. *)
Dicts(N, S) ==
  {d \in Seq([name : N, source : S]) : \A i, j \in DOMAIN d : d[i].name = d[j].name => i = j}

LEMMA DictEntries ==
  ASSUME NEW N, NEW S, NEW d \in Dicts(N, S)
  PROVE  /\ d \in Seq([name : N, source : S])
         /\ Len(d) \in Nat /\ DOMAIN d = 1 .. Len(d)
         /\ \A i \in DOMAIN d : d[i] \in [name : N, source : S]
         /\ \A i, j \in DOMAIN d : d[i].name = d[j].name => i = j
<1>1. d \in Seq([name : N, source : S])
  BY DEF Dicts
<1> QED
  BY <1>1, LenProperties, ElementOfSeq, ZenonT(40) DEF Dicts

LEMMA LookupDict ==
  ASSUME NEW N, NEW S, NEW d \in Dicts(N, S), NEW n \in Keys(d)
  PROVE  /\ Lookup(d, n) \in DOMAIN d
         /\ d[Lookup(d, n)].name = n
         /\ \A i \in DOMAIN d : d[i].name = n => i = Lookup(d, n)
         /\ n \in N /\ Source(d, n) \in S
<1>1. PICK i \in DOMAIN d : d[i].name = n
  BY DEF Keys
<1>2. Lookup(d, n) \in DOMAIN d /\ d[Lookup(d, n)].name = n
  BY <1>1 DEF Lookup
<1>3. d[Lookup(d, n)] \in [name : N, source : S]
  BY <1>2, DictEntries, Zenon
<1>4. n \in N /\ Source(d, n) \in S
  BY <1>2, <1>3 DEF Source
<1>5. \A j \in DOMAIN d : d[j].name = n => j = Lookup(d, n)
  BY <1>2, DictEntries, ZenonT(40)
<1> QED
  BY <1>2, <1>4, <1>5

LEMMA PutDict ==
  ASSUME NEW N, NEW S, NEW d \in Dicts(N, S), NEW n \in N, NEW s \in S
  PROVE  Put(d, n, s) \in Dicts(N, S)
<1> DEFINE Entry == [name : N, source : S]
           e == [name |-> n, source |-> s]
<1>1. /\ d \in Seq(Entry) /\ Len(d) \in Nat /\ DOMAIN d = 1 .. Len(d) /\ e \in Entry
      /\ \A i \in DOMAIN d : d[i] \in Entry
      /\ \A i, j \in DOMAIN d : d[i].name = d[j].name => i = j
  BY DictEntries
<1> HIDE DEF Entry
<1>2. CASE \E i \in DOMAIN d : d[i].name = n
  <2> DEFINE p == [i \in DOMAIN d |-> IF d[i].name = n THEN e ELSE d[i]]
  <2>1. p \in Seq(Entry)
    BY <1>1
  <2>2. DOMAIN p = DOMAIN d /\ \A i \in DOMAIN p : p[i].name = d[i].name
    OBVIOUS
  <2>3. p \in Dicts(N, S)
    BY <1>1, <2>1, <2>2 DEF Dicts, Entry
  <2> QED
    BY <1>2, <2>3 DEF Put
<1>3. CASE ~ \E i \in DOMAIN d : d[i].name = n
  <2> DEFINE p == Append(d, e)
  <2>1. /\ p \in Seq(Entry) /\ Len(p) = Len(d) + 1 /\ DOMAIN p = 1 .. Len(d) + 1
        /\ p[Len(d) + 1] = e /\ \A i \in 1 .. Len(d) : p[i] = d[i]
    BY <1>1, AppendProperties, LenProperties
  <2> HIDE DEF p
  <2>2. ASSUME NEW i \in DOMAIN p, NEW j \in DOMAIN p, p[i].name = p[j].name PROVE i = j
    <3>1. (i \in 1 .. Len(d) \/ i = Len(d) + 1) /\ (j \in 1 .. Len(d) \/ j = Len(d) + 1)
      BY <1>1, <2>1
    <3> QED
      BY <1>1, <1>3, <2>1, <2>2, <3>1
  <2>3. p \in Dicts(N, S)
    BY <2>1, <2>2 DEF Dicts, Entry
  <2> QED
    BY <1>3, <2>3 DEF Put, p
<1> QED
  BY <1>2, <1>3

-----------------------------------------------------------------------------
(* The manifest and its pipeline *)

IsManifest(m) ==
  /\ m.datasources \in Seq(ToSet(m.datasources)) /\ m.aliases \in Seq(ToSet(m.aliases))
  /\ \A d, e \in ToSet(m.datasources) : d.name = e.name => d = e

LEMMA SeqOfItself ==
  ASSUME NEW E, NEW seq \in Seq(E)
  PROVE  seq \in Seq(ToSet(seq)) /\ ToSet(seq) \subseteq E
<1>1. Len(seq) \in Nat /\ DOMAIN seq = 1 .. Len(seq) /\ seq = [i \in 1 .. Len(seq) |-> seq[i]]
  BY LenProperties
<1>2. \A i \in 1 .. Len(seq) : seq[i] \in E /\ seq[i] \in ToSet(seq)
  BY <1>1, ElementOfSeq DEF ToSet
<1>3. [i \in 1 .. Len(seq) |-> seq[i]] \in Seq(ToSet(seq))
  BY <1>1, <1>2
<1> QED
  BY <1>1, <1>2, <1>3 DEF ToSet

LEMMA WithoutFilters ==
  ASSUME NEW E, NEW seq \in Seq(E), NEW field, NEW names
  PROVE  without(seq, field, names) \in Seq({x \in E : x[field] \notin names})
<1> DEFINE Left == {x \in E : x[field] \notin names}
<1>1. PICK run : /\ Runs(run, "without", field, names, <<>>, seq)
                 /\ without(seq, field, names) = run[Len(seq)]
  BY WithoutRuns
<1>2. <<>> \in Seq(Left)
  OBVIOUS
<1>3. ASSUME NEW s \in Seq(Left), NEW x \in E
      PROVE  turn("without", field, names, s, x) \in Seq(Left)
  <2>1. CASE x[field] \in names
    BY <2>1 DEF turn
  <2>2. CASE x[field] \notin names
    <3>1. x \in Left
      BY <2>2
    <3> HIDE DEF Left
    <3>2. Append(s, x) \in Seq(Left)
      BY <3>1, AppendProperties
    <3> QED
      BY <2>2, <3>2 DEF turn
  <2> QED
    BY <2>1, <2>2
<1> HIDE DEF Left
<1>4. Keeps(Seq(Left), "without", field, names, E)
  BY <1>3 DEF Keeps
<1>5. run[Len(seq)] \in Seq(Left)
  BY <1>1, <1>2, <1>4, RunStays, Zenon
<1> QED
  BY <1>1, <1>5 DEF Left

(* A withheld goal leaves a manifest of the other sources. *)
LEMMA Withholding ==
  ASSUME NEW m \in Manifests
  PROVE  /\ IsManifest(m)
         /\ IsManifest(withhold_pose(m))
         /\ withhold_pose(m).goal_inputs = m.goal_inputs
         /\ \A d \in ToSet(withhold_pose(m).datasources) :
              d \in ToSet(m.datasources) /\ d.name \notin dropped(m)
<1> DEFINE w == withhold_pose(m)
           ds == without(m.datasources, "name", dropped(m))
           as == without(m.aliases, "target", dropped(m))
<1>1. /\ IsManifest(m)
      /\ DOMAIN m = {"datasources", "aliases", "goal_inputs", "depends_global_plan"}
  BY ManifestsAssumption DEF IsManifest
<1>2. w.datasources = ds /\ w.aliases = as /\ w.goal_inputs = m.goal_inputs
  BY <1>1 DEF withhold_pose
<1>3. ds \in Seq({x \in ToSet(m.datasources) : x.name \notin dropped(m)})
  BY <1>1, WithoutFilters DEF IsManifest
<1>4. as \in Seq({x \in ToSet(m.aliases) : x.target \notin dropped(m)})
  BY <1>1, WithoutFilters DEF IsManifest
<1>5. /\ ds \in Seq(ToSet(ds))
      /\ ToSet(ds) \subseteq {x \in ToSet(m.datasources) : x.name \notin dropped(m)}
  BY <1>3, SeqOfItself
<1>6. as \in Seq(ToSet(as))
  BY <1>4, SeqOfItself
<1> QED
  BY <1>1, <1>2, <1>5, <1>6 DEF IsManifest

LEMMA DatasourceNamed ==
  ASSUME NEW m, IsManifest(m), NEW d \in ToSet(m.datasources)
  PROVE  datasource(m, d.name) = d
BY DEF IsManifest, datasource

Names(m) == {d.name : d \in ToSet(m.datasources)} \union {a.alias : a \in ToSet(m.aliases)}
Generated(m) == {d.name : d \in {e \in ToSet(m.datasources) : e.type \notin CollectorTypes}}
Unknown(m) == \E d \in ToSet(m.datasources) : d.type \notin CollectorTypes \union GeneratorTypes

Pipelines(m) == [collectors : Dicts(Names(m), Collectors(m)),
                 generators : Dicts(Names(m), Generated(m)),
                 error : {e \in BOOLEAN : Unknown(m) => e}]

LEMMA AddBuilds ==
  ASSUME NEW m, NEW p \in Pipelines(m), NEW d \in ToSet(m.datasources)
  PROVE  add(p, d) \in Pipelines(m)
<1>1. /\ d.name \in Names(m)
      /\ d.name \in IF d.type \in CollectorTypes THEN Collectors(m) ELSE Generated(m)
  BY DEF Names, Collectors, Generated
<1>2. /\ p.collectors \in Dicts(Names(m), Collectors(m))
      /\ p.generators \in Dicts(Names(m), Generated(m))
  BY DEF Pipelines
<1>3. CASE d.type \in CollectorTypes
  <2>1. Put(p.collectors, d.name, d.name) \in Dicts(Names(m), Collectors(m))
    BY <1>1, <1>2, <1>3, PutDict
  <2> QED
    BY <1>3, <2>1 DEF add, Pipelines
<1>4. CASE d.type \notin CollectorTypes
  <2>1. Put(p.generators, d.name, d.name) \in Dicts(Names(m), Generated(m))
    BY <1>1, <1>2, <1>4, PutDict
  <2> QED
    BY <1>4, <2>1 DEF add, Pipelines
<1> QED
  BY <1>3, <1>4

LEMMA AliasBuilds ==
  ASSUME NEW m, NEW p \in Pipelines(m), NEW a \in ToSet(m.aliases)
  PROVE  alias(p, a) \in Pipelines(m)
<1>1. a.alias \in Names(m)
  BY DEF Names
<1>2. /\ p.collectors \in Dicts(Names(m), Collectors(m))
      /\ p.generators \in Dicts(Names(m), Generated(m))
  BY DEF Pipelines
<1>3. CASE a.target \in Keys(p.collectors)
  <2>1. Source(p.collectors, a.target) \in Collectors(m)
    BY <1>2, <1>3, LookupDict
  <2>2. Put(p.collectors, a.alias, Source(p.collectors, a.target))
          \in Dicts(Names(m), Collectors(m))
    BY <1>1, <1>2, <2>1, PutDict
  <2> QED
    BY <1>3, <2>2 DEF alias, Pipelines
<1>4. CASE a.target \notin Keys(p.collectors) /\ a.target \in Keys(p.generators)
  <2>1. Source(p.generators, a.target) \in Generated(m)
    BY <1>2, <1>4, LookupDict
  <2>2. Put(p.generators, a.alias, Source(p.generators, a.target)) \in Dicts(Names(m), Generated(m))
    BY <1>1, <1>2, <2>1, PutDict
  <2> QED
    BY <1>4, <2>2 DEF alias, Pipelines
<1>5. CASE a.target \notin Keys(p.collectors) /\ a.target \notin Keys(p.generators)
  BY <1>5 DEF alias, Pipelines
<1> QED
  BY <1>3, <1>4, <1>5

LEMMA ConfigBuilds ==
  ASSUME NEW m, IsManifest(m)
  PROVE  from_config(m) \in Pipelines(m)
<1> DEFINE bad(d) == d.type \notin CollectorTypes \union GeneratorTypes
                       \/ (d.type \in CollectorTypes /\ d.params.sensor)
           empty == [collectors |-> <<>>, generators |-> <<>>,
                     error |-> \E d \in ToSet(m.datasources) : bad(d)]
           added == FoldLeft(add, empty, m.datasources)
<1>1. m.datasources \in Seq(ToSet(m.datasources)) /\ m.aliases \in Seq(ToSet(m.aliases))
  BY DEF IsManifest
<1>2. \A N, S : <<>> \in Dicts(N, S)
  <2> SUFFICES ASSUME NEW N, NEW S PROVE <<>> \in Dicts(N, S)
    OBVIOUS
  <2> DEFINE Entry == [name : N, source : S]
  <2>1. <<>> \in Seq(Entry) /\ DOMAIN <<>> = {}
    OBVIOUS
  <2> QED
    BY <2>1 DEF Dicts
<1>3. empty \in Pipelines(m)
  <2>1. empty.error \in {e \in BOOLEAN : Unknown(m) => e}
    BY DEF Unknown
  <2> QED
    BY <1>2, <2>1 DEF Pipelines
<1> HIDE DEF empty
<1>4. added \in Pipelines(m)
  <2>1. PICK run : Runs(run, "add", 0, 0, empty, m.datasources) /\ added = run[Len(m.datasources)]
    BY <1>1, AddRuns
  <2>2. Keeps(Pipelines(m), "add", 0, 0, ToSet(m.datasources))
    BY AddBuilds DEF turn, Keeps
  <2>3. run[Len(m.datasources)] \in Pipelines(m)
    BY <1>1, <1>3, <2>1, <2>2, RunStays
  <2> QED
    BY <2>1, <2>3
<1> HIDE DEF added
<1>5. PICK run : /\ Runs(run, "alias", 0, 0, added, m.aliases)
                 /\ FoldLeft(alias, added, m.aliases) = run[Len(m.aliases)]
  BY <1>1, AliasRuns
<1>6. Keeps(Pipelines(m), "alias", 0, 0, ToSet(m.aliases))
  BY AliasBuilds DEF turn, Keeps
<1>7. run[Len(m.aliases)] \in Pipelines(m)
  BY <1>1, <1>4, <1>5, <1>6, RunStays
<1> QED
  BY <1>5, <1>7, Zenon DEF from_config, added, empty

-----------------------------------------------------------------------------
(* One collect, generator by generator *)

Up == phase \notin {"new", "refused"}

(* What setup builds: an entry of the pipeline for every name, a source    *)
(* behind it, a collector or a tracker for the source.                     *)
Built ==
  /\ phase \in {"new", "refused", "running", "dead", "stopped"}
  /\ Up => /\ IsManifest(manifest)
           /\ pipeline \in Pipelines(manifest) /\ ~ pipeline.error
           /\ DOMAIN cells = Collectors(manifest)
           /\ \A c \in DOMAIN cells : /\ DOMAIN cells[c] = {"msg", "value", "stale"}
                                      /\ cells[c].stale \in BOOLEAN
           /\ tf \in [Trackers(manifest) -> Poses \union {None}]

LEMMA GeneratedTypes ==
  ASSUME Built, Up, NEW g \in Generated(manifest)
  PROVE  /\ datasource(manifest, g) \in ToSet(manifest.datasources)
         /\ datasource(manifest, g).name = g
         /\ datasource(manifest, g).type \in GeneratorTypes
         /\ g \in Trackers(manifest) <=> datasource(manifest, g).type = RobotPose
<1>1. PICK d \in ToSet(manifest.datasources) : d.name = g /\ d.type \notin CollectorTypes
  BY DEF Generated
<1>2. datasource(manifest, g) = d
  BY <1>1, DatasourceNamed DEF Built
<1>3. d.type \in GeneratorTypes
  BY <1>1 DEF Built, Pipelines, Unknown
<1>4. \A e \in ToSet(manifest.datasources) : e.name = g => e = d
  BY <1>1 DEF Built, IsManifest
<1> QED
  BY <1>1, <1>2, <1>3, <1>4 DEF Trackers

LEMMA CollectedTypes ==
  ASSUME Built, Up, NEW c \in Collectors(manifest)
  PROVE  /\ datasource(manifest, c) \in ToSet(manifest.datasources)
         /\ datasource(manifest, c).name = c
         /\ datasource(manifest, c).type \in CollectorTypes
<1>1. PICK d \in ToSet(manifest.datasources) : d.name = c /\ d.type \in CollectorTypes
  BY DEF Collectors
<1>2. datasource(manifest, c) = d
  BY <1>1, DatasourceNamed DEF Built
<1> QED
  BY <1>1, <1>2

LEMMA BuiltGenerators ==
  ASSUME Built, Up
  PROVE  LET G == pipeline.generators
         IN /\ G \in Seq([name : Names(manifest), source : Generated(manifest)])
            /\ Len(G) \in Nat /\ DOMAIN G = 1 .. Len(G)
            /\ \A i \in 1 .. Len(G) : G[i].source \in Generated(manifest)
            /\ \A i, j \in 1 .. Len(G) : G[i].name = G[j].name => i = j
<1> SUFFICES ASSUME NEW G, G = pipeline.generators,
                    G \in Dicts(Names(manifest), Generated(manifest))
             PROVE  /\ G \in Seq([name : Names(manifest), source : Generated(manifest)])
                    /\ Len(G) \in Nat /\ DOMAIN G = 1 .. Len(G)
                    /\ \A i \in 1 .. Len(G) : G[i].source \in Generated(manifest)
                    /\ \A i, j \in 1 .. Len(G) : G[i].name = G[j].name => i = j
  BY DEF Built, Pipelines
<1> QED
  BY DictEntries

(* The names and the sources the first i entries bind, and whether what    *)
(* each of them requires is there when its turn comes.                     *)
Turned(i) == {pipeline.generators[k].name : k \in 1 .. i}
Sources(i) == {pipeline.generators[k].source : k \in 1 .. i}
Ready(i) ==
  \A j \in 1 .. i : requires(datasource(manifest, pipeline.generators[j].source))
                      \subseteq Keys(pipeline.collectors) \union Turned(j - 1)

Computed(s, i) ==
  /\ DOMAIN s.out = Keys(pipeline.collectors) \union Turned(i)
  /\ DOMAIN s.computed = Sources(i)
  /\ \A n \in Keys(pipeline.collectors) \ Turned(i) : s.out[n] = observed[n]
  /\ \A k \in 1 .. i : s.out[pipeline.generators[k].name]
                         = s.computed[pipeline.generators[k].source]
  /\ \A t \in Sources(i) \intersect Trackers(manifest) : s.computed[t] = s.tf[t]

Collecting(s, i) ==
  /\ DOMAIN s = {"out", "computed", "tf", "looks", "raised"}
  /\ s.raised \in BOOLEAN /\ (s.raised <=> ~ Ready(i))
  /\ DOMAIN s.tf = DOMAIN tf
  /\ ~ s.raised => Computed(s, i)

LEMMA StartCollecting ==
  ASSUME Built, Up
  PROVE  Collecting(start, 0)
<1>1. Turned(0) = {} /\ Sources(0) = {} /\ Ready(0)
  BY DEF Turned, Sources, Ready
<1>2. DOMAIN observed = Keys(pipeline.collectors)
  BY DEF observed
<1>3. /\ DOMAIN start = {"out", "computed", "tf", "looks", "raised"}
      /\ start.out = observed /\ start.computed = <<>> /\ start.tf = tf /\ start.raised = FALSE
  BY DEF start
<1>4. 1 .. 0 = {} /\ DOMAIN <<>> = {}
  OBVIOUS
<1>5. Computed(start, 0)
  BY <1>1, <1>2, <1>3, <1>4, Zenon DEF Computed
<1> QED
  BY <1>1, <1>3, <1>5, Zenon DEF Collecting

LEMMA BindDict ==
  ASSUME NEW dict, NEW key, NEW value
  PROVE  /\ DOMAIN Bind(dict, key, value) = DOMAIN dict \union {key}
         /\ Bind(dict, key, value)[key] = value
         /\ \A k \in DOMAIN dict : k # key => Bind(dict, key, value)[k] = dict[k]
BY DEF Bind

LEMMA GenerateCollects ==
  ASSUME Built, Up, NEW readings, NEW short,
         NEW i \in 1 .. Len(pipeline.generators), NEW s, Collecting(s, i - 1)
  PROVE  Collecting(generate(s, pipeline.generators[i], readings, short), i)
<1> DEFINE G == pipeline.generators
           g == G[i]
           d == datasource(manifest, g.source)
           K == Keys(pipeline.collectors)
           next == generate(s, g, readings, short)
<1>1. /\ Len(G) \in Nat /\ DOMAIN G = 1 .. Len(G) /\ g.source \in Generated(manifest)
      /\ \A k, j \in 1 .. Len(G) : G[k].name = G[j].name => k = j
  BY BuiltGenerators
<1>2. /\ Turned(i) = Turned(i - 1) \union {g.name} /\ Sources(i) = Sources(i - 1) \union {g.source}
      /\ g.name \notin Turned(i - 1)
  <2>1. /\ 1 .. i = (1 .. (i - 1)) \union {i} /\ i \notin 1 .. (i - 1)
        /\ 1 .. (i - 1) \subseteq 1 .. Len(G)
    BY <1>1
  <2> QED
    BY <1>1, <2>1 DEF Turned, Sources
<1>3. Ready(i) <=> Ready(i - 1) /\ requires(d) \subseteq K \union Turned(i - 1)
  <2>1. 1 .. i = (1 .. (i - 1)) \union {i}
    BY <1>1
  <2> QED
    BY <2>1 DEF Ready
<1> HIDE DEF d, K, G, g
<1>4. CASE s.raised
  BY <1>3, <1>4 DEF Collecting, generate
<1>5. CASE ~ s.raised /\ g.source \in DOMAIN s.computed
  <2>1. next = [s EXCEPT !.out = Bind(s.out, g.name, s.computed[g.source])]
    BY <1>5 DEF generate
  <2>2. Ready(i)
    <3>1. PICK k \in 1 .. (i - 1) : G[k].source = g.source
      BY <1>5 DEF Collecting, Computed, Sources, G
    <3>2. requires(d) \subseteq K \union Turned(k - 1)
      BY <1>5, <3>1 DEF Collecting, Ready, d, K, G
    <3>3. Turned(k - 1) \subseteq Turned(i - 1)
      BY <1>1, <3>1 DEF Turned
    <3> QED
      BY <1>3, <1>5, <3>2, <3>3 DEF Collecting
  <2>3. /\ DOMAIN s.out = K \union Turned(i - 1) /\ DOMAIN s.computed = Sources(i - 1)
        /\ \A n \in K \ Turned(i - 1) : s.out[n] = observed[n]
        /\ \A k \in 1 .. (i - 1) : s.out[G[k].name] = s.computed[G[k].source]
        /\ \A t \in Sources(i - 1) \intersect Trackers(manifest) : s.computed[t] = s.tf[t]
    BY <1>5, Zenon DEF Collecting, Computed, K, G
  <2>4. /\ DOMAIN next = DOMAIN s /\ next.out = Bind(s.out, g.name, s.computed[g.source])
        /\ next.computed = s.computed /\ next.tf = s.tf /\ next.raised = s.raised
    BY <1>5, <2>1 DEF Collecting
  <2> HIDE DEF next
  <2>5. /\ DOMAIN next.out = DOMAIN s.out \union {g.name}
        /\ next.out[g.name] = s.computed[g.source]
        /\ \A n \in DOMAIN s.out : n # g.name => next.out[n] = s.out[n]
    BY <2>4 DEF Bind
  <2>6. Computed(next, i)
    <3>1. DOMAIN next.out = K \union Turned(i)
      BY <1>2, <2>3, <2>4, <2>5
    <3>2. DOMAIN next.computed = Sources(i)
      BY <1>2, <1>5, <2>3, <2>4
    <3>3. \A n \in K \ Turned(i) : next.out[n] = observed[n]
      BY <1>2, <2>3, <2>4, <2>5
    <3>4. ASSUME NEW k \in 1 .. i PROVE next.out[G[k].name] = next.computed[G[k].source]
      <4>1. CASE k = i
        BY <2>4, <2>5, <4>1 DEF g
      <4>2. CASE k # i
        <5>1. k \in 1 .. (i - 1) /\ k \in 1 .. Len(G)
          BY <1>1, <4>2 DEF G
        <5>2. G[k].name # g.name /\ G[k].name \in DOMAIN s.out
          BY <1>1, <2>3, <4>2, <5>1 DEF Turned, G, g
        <5>3. s.out[G[k].name] = s.computed[G[k].source]
          BY <2>3, <5>1
        <5> QED
          BY <2>4, <2>5, <5>2, <5>3
      <4> QED
        BY <4>1, <4>2
    <3>5. \A t \in Sources(i) \intersect Trackers(manifest) : next.computed[t] = next.tf[t]
      BY <1>2, <1>5, <2>3, <2>4
    <3> QED
      BY <3>1, <3>2, <3>3, <3>4, <3>5 DEF Computed, K, G
  <2> QED
    BY <1>5, <2>2, <2>4, <2>6, Zenon DEF Collecting, next, g, G
<1>6. CASE ~ s.raised /\ g.source \notin DOMAIN s.computed /\ missing(d, s.out)
  <2>1. next = [s EXCEPT !.raised = TRUE]
    BY <1>6 DEF generate, compute, d
  <2>2. ~ Ready(i)
    BY <1>3, <1>6 DEF missing, Collecting, Computed, K
  <2>3. DOMAIN next = DOMAIN s /\ next.raised = TRUE /\ next.tf = s.tf
    BY <2>1 DEF Collecting
  <2> QED
    BY <1>6, <2>2, <2>3, Zenon DEF Collecting, next, g, G
<1>7. CASE ~ s.raised /\ g.source \notin DOMAIN s.computed /\ ~ missing(d, s.out)
  <2> DEFINE pose == _last_pose(s.tf[g.source], readings[s.looks + 1])
             value == IF d.type = RobotPose THEN pose ELSE subgoal(d, s.out, short)
  <2>1. /\ DOMAIN next = DOMAIN s /\ next.raised = FALSE
        /\ next.out = Bind(s.out, g.name, value)
        /\ next.computed = Bind(s.computed, g.source, value)
        /\ DOMAIN next.tf = DOMAIN s.tf
        /\ \A t \in DOMAIN s.tf : t # g.source => next.tf[t] = s.tf[t]
        /\ d.type = RobotPose /\ g.source \in DOMAIN s.tf => next.tf[g.source] = value
    BY <1>7 DEF generate, compute, d, Collecting
  <2> HIDE DEF next, value
  <2>2. /\ DOMAIN next.out = DOMAIN s.out \union {g.name} /\ next.out[g.name] = value
        /\ \A n \in DOMAIN s.out : n # g.name => next.out[n] = s.out[n]
        /\ DOMAIN next.computed = DOMAIN s.computed \union {g.source}
        /\ next.computed[g.source] = value
        /\ \A t \in DOMAIN s.computed : t # g.source => next.computed[t] = s.computed[t]
    BY <2>1 DEF Bind
  <2>3. Ready(i)
    BY <1>3, <1>7 DEF missing, Collecting, Computed, K
  <2>4. /\ DOMAIN s.out = K \union Turned(i - 1) /\ DOMAIN s.computed = Sources(i - 1)
        /\ \A n \in K \ Turned(i - 1) : s.out[n] = observed[n]
        /\ \A k \in 1 .. (i - 1) : s.out[G[k].name] = s.computed[G[k].source]
        /\ \A t \in Sources(i - 1) \intersect Trackers(manifest) : s.computed[t] = s.tf[t]
    BY <1>7, Zenon DEF Collecting, Computed, K, G
  <2>5. DOMAIN s.tf = Trackers(manifest)
    BY DEF Collecting, Built
  <2>6. Computed(next, i)
    <3>1. DOMAIN next.out = K \union Turned(i)
      BY <1>2, <2>1, <2>4, <2>2
    <3>2. DOMAIN next.computed = Sources(i)
      BY <1>2, <2>1, <2>4, <2>2
    <3>3. \A n \in K \ Turned(i) : next.out[n] = observed[n]
      BY <1>2, <2>1, <2>4, <2>2
    <3>4. ASSUME NEW k \in 1 .. i PROVE next.out[G[k].name] = next.computed[G[k].source]
      <4>1. CASE k = i
        BY <2>1, <4>1, <2>2 DEF g
      <4>2. CASE k # i
        <5>1. k \in 1 .. (i - 1) /\ k \in 1 .. Len(G)
          BY <1>1, <4>2 DEF G
        <5>2. G[k].name # g.name /\ G[k].name \in DOMAIN s.out
          BY <1>1, <2>4, <4>2, <5>1 DEF Turned, G, g
        <5>3. G[k].source # g.source /\ G[k].source \in DOMAIN s.computed
          BY <1>7, <2>4, <5>1 DEF Sources, G
        <5>4. s.out[G[k].name] = s.computed[G[k].source]
          BY <2>4, <5>1
        <5> QED
          BY <2>1, <5>2, <5>3, <5>4, <2>2
      <4> QED
        BY <4>1, <4>2
    <3>5. ASSUME NEW t \in Sources(i) \intersect Trackers(manifest)
          PROVE  next.computed[t] = next.tf[t]
      <4>1. CASE t = g.source
        <5>1. d.type = RobotPose
          BY <1>1, <4>1, GeneratedTypes DEF d
        <5> QED
          BY <2>1, <2>2, <2>5, <4>1, <5>1
      <4>2. CASE t # g.source
        BY <1>2, <2>1, <2>2, <2>4, <2>5, <4>2
      <4> QED
        BY <4>1, <4>2
    <3> QED
      BY <3>1, <3>2, <3>3, <3>4, <3>5 DEF Computed, K, G
  <2> QED
    BY <1>7, <2>1, <2>3, <2>6, Zenon DEF Collecting, next, g, G
<1> QED
  BY <1>4, <1>5, <1>6, <1>7 DEF Collecting, g

LEMMA CollectCollects ==
  ASSUME Built, Up, NEW readings, NEW short
  PROVE  Collecting(collect(readings, short), Len(pipeline.generators))
<1> DEFINE n == Len(pipeline.generators)
<1>1. /\ pipeline.generators \in Seq([name : Names(manifest), source : Generated(manifest)])
      /\ n \in Nat
  BY BuiltGenerators
<1>2. PICK run : /\ Runs(run, "generate", readings, short, start, pipeline.generators)
                 /\ collect(readings, short) = run[n]
  BY <1>1, CollectRuns
<1> DEFINE Kept == {i \in Nat : i <= n => Collecting(run[i], i)}
<1>3. 0 \in Kept
  BY <1>2, StartCollecting DEF Runs
<1>4. ASSUME NEW i \in Nat, i \in Kept PROVE i + 1 \in Kept
  <2> SUFFICES ASSUME i + 1 <= n PROVE Collecting(run[i + 1], i + 1)
    OBVIOUS
  <2>1. i + 1 \in 1 .. n /\ (i + 1) - 1 = i /\ Collecting(run[i], i)
    BY <1>1, <1>4
  <2>2. run[i + 1] = generate(run[i], pipeline.generators[i + 1], readings, short)
    BY <1>2, <2>1 DEF Runs, turn
  <2>3. Collecting(generate(run[i], pipeline.generators[i + 1], readings, short), i + 1)
    BY <2>1, GenerateCollects
  <2> QED
    BY <2>2, <2>3
<1> HIDE DEF Kept
<1>5. Nat \subseteq Kept
  BY <1>3, <1>4, Inductive
<1> QED
  BY <1>1, <1>2, <1>5 DEF Kept

(* Every tracker computed has looked at TF once. *)
Looked(s) ==
  /\ s.looks = Cardinality(DOMAIN s.computed \intersect DOMAIN tf)
  /\ s.tf \in [DOMAIN tf -> Poses \union {None}]

LEMMA FiniteTrackers ==
  ASSUME NEW m, IsManifest(m)
  PROVE  IsFiniteSet(Trackers(m))
<1> DEFINE ds == m.datasources
           D == {d \in ToSet(ds) : d.type = RobotPose}
<1>1. Len(ds) \in Nat /\ DOMAIN ds = 1 .. Len(ds)
  BY LenProperties DEF IsManifest
<1>2. [i \in 1 .. Len(ds) |-> ds[i]] \in Surjection(1 .. Len(ds), ToSet(ds))
  BY <1>1 DEF ToSet, Surjection
<1>3. IsFiniteSet(ToSet(ds))
  <2>1. IsFiniteSet(1 .. Len(ds))
    BY <1>1, FS_Interval
  <2> QED
    BY <1>2, <2>1, FS_Surjection
<1>4. IsFiniteSet(D)
  BY <1>3, FS_Subset
<1>5. [d \in D |-> d.name] \in Surjection(D, Trackers(m))
  BY DEF Trackers, Surjection
<1> HIDE DEF D
<1> QED
  BY <1>4, <1>5, FS_Surjection

LEMMA GenerateLooks ==
  ASSUME Built, Up, NEW short,
         NEW readings \in [1 .. Cardinality(DOMAIN tf) -> Poses \union {None}],
         NEW i \in 1 .. Len(pipeline.generators), NEW s, Collecting(s, i - 1), Looked(s)
  PROVE  Looked(generate(s, pipeline.generators[i], readings, short))
<1> DEFINE g == pipeline.generators[i]
           d == datasource(manifest, g.source)
           next == generate(s, g, readings, short)
           T == DOMAIN tf
           C == DOMAIN s.computed
<1>1. g.source \in Generated(manifest)
  BY BuiltGenerators
<1>2. IsFiniteSet(T) /\ T = Trackers(manifest) /\ (g.source \in T <=> d.type = RobotPose)
  BY <1>1, FiniteTrackers, GeneratedTypes DEF Built
<1>3. s.looks = Cardinality(C \intersect T) /\ s.tf \in [T -> Poses \union {None}]
      /\ DOMAIN s = {"out", "computed", "tf", "looks", "raised"}
  BY DEF Looked, Collecting
<1>4. IsFiniteSet(C \intersect T) /\ s.looks \in Nat
  BY <1>2, <1>3, FS_Subset, FS_CardinalityType
<1>5. CASE s.raised \/ g.source \in C \/ missing(d, s.out)
  <2>1. next.looks = s.looks /\ next.tf = s.tf /\ next.computed = s.computed
    BY <1>3, <1>5 DEF generate, compute
  <2> QED
    BY <1>3, <2>1 DEF Looked
<1>6. CASE ~ s.raised /\ g.source \notin C /\ ~ missing(d, s.out) /\ d.type # RobotPose
  <2>1. next.looks = s.looks /\ next.tf = s.tf /\ DOMAIN next.computed = C \union {g.source}
    BY <1>3, <1>6 DEF generate, compute, Bind
  <2>2. (C \union {g.source}) \intersect T = C \intersect T
    BY <1>2, <1>6
  <2> QED
    BY <1>3, <2>1, <2>2 DEF Looked
<1>7. CASE ~ s.raised /\ g.source \notin C /\ ~ missing(d, s.out) /\ d.type = RobotPose
  <2> DEFINE pose == _last_pose(s.tf[g.source], readings[s.looks + 1])
  <2>1. /\ next.looks = s.looks + 1
        /\ next.tf = [s.tf EXCEPT ![g.source] = pose]
        /\ DOMAIN next.computed = C \union {g.source}
    BY <1>3, <1>7 DEF generate, compute, Bind
  <2>2. /\ (C \union {g.source}) \intersect T = (C \intersect T) \union {g.source}
        /\ g.source \in T /\ g.source \notin C \intersect T
    BY <1>2, <1>7
  <2>3. Cardinality((C \intersect T) \union {g.source}) = s.looks + 1
    BY <1>3, <1>4, <2>2, FS_AddElement
  <2>4. s.looks + 1 <= Cardinality(T) /\ Cardinality(T) \in Nat
    <3>1. (C \intersect T) \union {g.source} \in SUBSET T
      BY <2>2
    <3> QED
      BY <1>2, <2>3, <3>1, FS_Subset, FS_CardinalityType
  <2>5. readings[s.looks + 1] \in Poses \union {None}
    BY <1>4, <2>4
  <2>6. pose \in Poses \union {None}
    BY <1>3, <2>2, <2>5 DEF _last_pose
  <2> HIDE DEF pose, next
  <2>7. next.tf \in [T -> Poses \union {None}]
    BY <1>3, <2>1, <2>6
  <2> QED
    BY <2>1, <2>2, <2>3, <2>7 DEF Looked, next
<1> QED
  BY <1>5, <1>6, <1>7

LEMMA CollectLooks ==
  ASSUME Built, Up, NEW short,
         NEW readings \in [1 .. Cardinality(DOMAIN tf) -> Poses \union {None}]
  PROVE  collect(readings, short).tf \in [DOMAIN tf -> Poses \union {None}]
<1> DEFINE n == Len(pipeline.generators)
<1>1. /\ pipeline.generators \in Seq([name : Names(manifest), source : Generated(manifest)])
      /\ n \in Nat
  BY BuiltGenerators
<1>2. PICK run : /\ Runs(run, "generate", readings, short, start, pipeline.generators)
                 /\ collect(readings, short) = run[n]
  BY <1>1, CollectRuns
<1> DEFINE Kept == {i \in Nat : i <= n => Collecting(run[i], i) /\ Looked(run[i])}
<1>3. 0 \in Kept
  <2>1. Looked(start)
    <3>1. start.looks = 0 /\ start.tf = tf /\ DOMAIN start.computed = {}
      BY DEF start
    <3>2. tf \in [DOMAIN tf -> Poses \union {None}] /\ {} \intersect DOMAIN tf = {}
      BY DEF Built
    <3> QED
      BY <3>1, <3>2, FS_EmptySet DEF Looked
  <2> QED
    BY <1>2, <2>1, StartCollecting DEF Runs
<1>4. ASSUME NEW i \in Nat, i \in Kept PROVE i + 1 \in Kept
  <2> SUFFICES ASSUME i + 1 <= n PROVE Collecting(run[i + 1], i + 1) /\ Looked(run[i + 1])
    OBVIOUS
  <2>1. i + 1 \in 1 .. n /\ (i + 1) - 1 = i /\ Collecting(run[i], i) /\ Looked(run[i])
    BY <1>1, <1>4
  <2> DEFINE next == generate(run[i], pipeline.generators[i + 1], readings, short)
  <2>2. run[i + 1] = next
    BY <1>2, <2>1 DEF Runs, turn
  <2>3. Collecting(next, i + 1)
    BY <2>1, GenerateCollects
  <2>4. Looked(next)
    BY <2>1, GenerateLooks
  <2> QED
    BY <2>2, <2>3, <2>4
<1> HIDE DEF Kept
<1>5. Nat \subseteq Kept
  BY <1>3, <1>4, Inductive
<1>6. Looked(run[n])
  BY <1>1, <1>5 DEF Kept
<1> QED
  BY <1>2, <1>6 DEF Looked

-----------------------------------------------------------------------------
(* Invariants *)

Bound(dict) == {dict[i].source : i \in DOMAIN dict}

(* Before its setup a pipeline has nothing. *)
Idle == ~ Up => manifest \in Manifests /\ obs = None /\ payload = {} /\ ~ collected

(* What the observation shows comes from what has a name: a collector that *)
(* is not stale has had a message since the last reset, a tracker that has *)
(* a pose has seen one.                                                    *)
Fresh ==
  Up => /\ \A c \in Collectors(manifest) \intersect Bound(pipeline.collectors) :
             ~ cells[c].stale => c \in received
        /\ \A t \in Trackers(manifest) \intersect Bound(pipeline.generators) :
             tf[t] # None => t \in received

(* A pipeline that has delivered has every name its generators require. *)
Complete == /\ phase = "dead" => ~ Ready(Len(pipeline.generators))
            /\ collected => Up /\ Ready(Len(pipeline.generators))

LEMMA Loop ==
  ASSUME Built, Up
  PROVE  /\ Keys(pipeline.generators) = Turned(Len(pipeline.generators))
         /\ Bound(pipeline.generators) = Sources(Len(pipeline.generators))
BY BuiltGenerators DEF Keys, Turned, Bound, Sources

(* What a name of an observation holds. *)
LEMMA CollectedValue ==
  ASSUME Built, Up, NEW s, Collecting(s, Len(pipeline.generators)), ~ s.raised,
         NEW n \in DOMAIN s.out
  PROVE  \/ /\ source(n) \in Generated(manifest) \intersect Bound(pipeline.generators)
            /\ s.out[n] = s.computed[source(n)]
            /\ source(n) \in Trackers(manifest) => s.out[n] = s.tf[source(n)]
         \/ /\ source(n) \in Collectors(manifest) \intersect Bound(pipeline.collectors)
            /\ s.out[n] = get_observation(cells[source(n)])
<1> DEFINE G == pipeline.generators
           N == Len(G)
<1>1. Computed(s, N)
  BY DEF Collecting
<1>2. /\ N \in Nat /\ DOMAIN G = 1 .. N
      /\ \A i \in 1 .. N : G[i].source \in Generated(manifest)
      /\ \A i, j \in 1 .. N : G[i].name = G[j].name => i = j
  BY BuiltGenerators
<1>3. /\ G \in Dicts(Names(manifest), Generated(manifest))
      /\ pipeline.collectors \in Dicts(Names(manifest), Collectors(manifest))
  BY DEF Built, Pipelines
<1>4. CASE n \in Keys(G)
  <2>1. Lookup(G, n) \in DOMAIN G /\ G[Lookup(G, n)].name = n
    BY <1>3, <1>4, LookupDict
  <2>2. source(n) = G[Lookup(G, n)].source
    BY <1>4 DEF source, Source
  <2>3. s.out[n] = s.computed[source(n)]
    <3>1. \A k \in 1 .. N : s.out[G[k].name] = s.computed[G[k].source]
      BY <1>1, Zenon DEF Computed
    <3> QED
      BY <1>2, <2>1, <2>2, <3>1, Zenon
  <2>4. source(n) \in Generated(manifest) \intersect Bound(G)
    BY <1>2, <2>1, <2>2 DEF Bound
  <2>5. source(n) \in Sources(N)
    BY <2>4, Loop
  <2>6. source(n) \in Trackers(manifest) => s.computed[source(n)] = s.tf[source(n)]
    BY <1>1, <2>5 DEF Computed
  <2> QED
    BY <2>3, <2>4, <2>6
<1>5. CASE n \notin Keys(G)
  <2>1. n \in Keys(pipeline.collectors) \ Turned(N)
    BY <1>1, <1>5, Loop DEF Computed
  <2>2. source(n) = Source(pipeline.collectors, n)
    BY <1>5 DEF source
  <2>3. s.out[n] = observed[n]
    BY <1>1, <2>1 DEF Computed
  <2>4. observed[n] = get_observation(cells[source(n)])
    BY <2>1, <2>2 DEF observed
  <2>5. source(n) \in Collectors(manifest) \intersect Bound(pipeline.collectors)
    <3>1. /\ Lookup(pipeline.collectors, n) \in DOMAIN pipeline.collectors
          /\ Source(pipeline.collectors, n) \in Collectors(manifest)
      BY <1>3, <2>1, LookupDict
    <3> QED
      BY <2>2, <3>1 DEF Bound, Source
  <2> QED
    BY <2>3, <2>4, <2>5
<1> QED
  BY <1>4, <1>5

LEMMA InitObservations == Init => Built /\ Idle /\ Fresh /\ Complete
BY DEF Init, Built, Idle, Fresh, Complete, Up

LEMMA SetupObservations ==
  ASSUME Built, Idle, Fresh, Complete, Setup
  PROVE  Built' /\ Idle' /\ Fresh' /\ Complete'
<1>1. phase = "new" /\ manifest \in Manifests /\ obs = None /\ payload = {} /\ ~ collected
  BY DEF Setup, Idle, Up
<1>2. CASE phase' = "refused"
  <2>1. phase' = "refused" /\ UNCHANGED <<manifest, obs, payload, collected>>
    BY <1>2 DEF Setup
  <2> QED
    BY <1>1, <2>1 DEF Built, Idle, Fresh, Complete, Up
<1>3. CASE phase' # "refused"
  <2> DEFINE m == IF "pose" \notin Revealed THEN withhold_pose(manifest) ELSE manifest
  <2>1. /\ phase' = "running" /\ manifest' = m
        /\ pipeline' = from_config(m) /\ ~ from_config(m).error
        /\ cells' = [c \in Collectors(m) |->
                       [msg |-> EmptyMessage, stale |-> TRUE,
                        value |-> _preprocess(datasource(m, c), EmptyMessage)]]
        /\ tf' = [t \in Trackers(m) |-> None]
        /\ UNCHANGED <<obs, payload, received, collected>>
    BY <1>3, Zenon DEF Setup
  <2>2. IsManifest(m)
    BY <1>1, Withholding
  <2> HIDE DEF m
  <2>3. pipeline' \in Pipelines(m)
    BY <2>1, <2>2, ConfigBuilds
  <2>4. Built'
    BY <2>1, <2>2, <2>3 DEF Built, Up
  <2>5. Idle' /\ Fresh' /\ Complete'
    BY <1>1, <2>1 DEF Idle, Fresh, Complete, Up
  <2> QED
    BY <2>4, <2>5
<1> QED
  BY <1>2, <1>3

LEMMA DeliverObservations ==
  ASSUME Built, Idle, Fresh, Complete, NEW c \in DOMAIN cells, Deliver(c)
  PROVE  Built' /\ Idle' /\ Fresh' /\ Complete'
<1> DEFINE d == datasource(manifest, c)
<1>1. PICK msg \in Messages[params(manifest, c).topic] :
        /\ cells' = [cells EXCEPT ![c] = update(d, @, msg)]
        /\ received' = IF raises(d, msg) THEN received ELSE received \union {c}
  BY DEF Deliver
<1>2. /\ Up /\ obs' = None
      /\ UNCHANGED <<manifest, goal, phase, pipeline, tf, payload, collected>>
  BY DEF Deliver, Up
<1>3. /\ DOMAIN cells' = DOMAIN cells
      /\ \A x \in DOMAIN cells : x # c => cells'[x] = cells[x]
      /\ cells'[c] = update(d, cells[c], msg)
  BY <1>1
<1>4. /\ DOMAIN cells'[c] = {"msg", "value", "stale"} /\ cells'[c].stale \in BOOLEAN
      /\ ~ cells'[c].stale => ~ cells[c].stale \/ c \in received'
  BY <1>1, <1>2, <1>3 DEF update, Built
<1>5. received \subseteq received'
  BY <1>1
<1>6. Built'
  BY <1>2, <1>3, <1>4 DEF Built, Up
<1>7. Fresh'
  <2>1. \A x \in DOMAIN cells : ~ cells'[x].stale => ~ cells[x].stale \/ x \in received'
    BY <1>3, <1>4
  <2>2. DOMAIN cells = Collectors(manifest)
    BY <1>2 DEF Built
  <2> QED
    BY <1>2, <1>5, <2>1, <2>2 DEF Fresh, Up
<1>8. Idle' /\ Complete'
  BY <1>2 DEF Idle, Complete, Up, Ready, Turned
<1> QED
  BY <1>6, <1>7, <1>8

LEMMA CollectObservations ==
  ASSUME Built, Idle, Fresh, Complete, Collect
  PROVE  Built' /\ Idle' /\ Fresh' /\ Complete'
<1> DEFINE n == Len(pipeline.generators)
<1>1. PICK readings \in [1 .. Cardinality(DOMAIN tf) -> Poses \union {None}],
           short \in SUBSET Roundings :
        LET s == collect(readings, short)
        IN /\ tf' = s.tf
           /\ phase' = IF s.raised THEN "dead" ELSE phase
           /\ collected' = (collected \/ ~ s.raised)
           /\ received' = received \union {t \in DOMAIN tf : s.tf[t] # tf[t]}
  BY DEF Collect
<1>2. Up /\ phase = "running" /\ UNCHANGED <<manifest, goal, pipeline, cells, payload>>
  BY DEF Collect, Up
<1> DEFINE s == collect(readings, short)
<1>3. s.raised <=> ~ Ready(n)
  BY <1>2, CollectCollects DEF Collecting
<1>4. tf' \in [DOMAIN tf -> Poses \union {None}]
  BY <1>1, <1>2, CollectLooks
<1>5. phase' \in {"running", "dead"} /\ (phase' = "dead" => ~ Ready(n)) /\ (collected' => Ready(n))
  BY <1>1, <1>2, <1>3 DEF Complete
<1>6. received' = received \union {t \in DOMAIN tf : tf'[t] # tf[t]}
  BY <1>1
<1>7. Built'
  BY <1>2, <1>4, <1>5 DEF Built, Up
<1>8. Fresh'
  BY <1>2, <1>6 DEF Fresh, Up, Built
<1>9. Idle' /\ Complete'
  BY <1>2, <1>5 DEF Idle, Complete, Up, Ready, Turned
<1> QED
  BY <1>7, <1>8, <1>9

LEMMA ResetObservations ==
  ASSUME Built, Idle, Fresh, Complete, Reset
  PROVE  Built' /\ Idle' /\ Fresh' /\ Complete'
<1>1. /\ Up /\ phase = "running" /\ UNCHANGED <<manifest, goal, phase, pipeline, collected>>
      /\ cells' = [c \in DOMAIN cells |->
                    [cells[c] EXCEPT !.stale =
                       @ \/ \E e \in ToSet(pipeline.collectors) : e.source = c]]
      /\ tf' = [t \in DOMAIN tf |-> IF \E e \in ToSet(pipeline.generators) : e.source = t
                                     THEN None ELSE tf[t]]
  BY DEF Reset, Up
<1>2. ASSUME NEW c \in DOMAIN cells
      PROVE  /\ DOMAIN cells'[c] = {"msg", "value", "stale"} /\ cells'[c].stale \in BOOLEAN
             /\ c \in Bound(pipeline.collectors) => cells'[c].stale
  BY <1>1 DEF Built, Bound, ToSet
<1>3. Built'
  BY <1>1, <1>2 DEF Built, Up
<1>4. Fresh'
  BY <1>1, <1>2 DEF Fresh, Up, Bound, ToSet, Built
<1>5. Idle' /\ Complete'
  BY <1>1 DEF Idle, Complete, Up, Ready, Turned
<1> QED
  BY <1>3, <1>4, <1>5

LEMMA OtherObservations ==
  ASSUME Built, Idle, Fresh, Complete, Shutdown \/ UNCHANGED vars
  PROVE  Built' /\ Idle' /\ Fresh' /\ Complete'
<1>1. CASE Shutdown
  <2>1. /\ Up /\ phase' = "stopped" /\ obs' = None
        /\ UNCHANGED <<manifest, goal, pipeline, cells, tf, payload, received, collected>>
    BY <1>1 DEF Shutdown, Up
  <2> QED
    BY <2>1 DEF Built, Idle, Fresh, Complete, Up, Ready, Turned
<1>2. CASE UNCHANGED vars
  BY <1>2 DEF vars, Built, Idle, Fresh, Complete, Up, Ready, Turned
<1> QED
  BY <1>1, <1>2

(* From setup on there is a source behind every name, what is shown is     *)
(* fresh and a pipeline that has delivered is complete (Pipeline.add,      *)
(* alias, from_config, collect, reset; Collector.update).                  *)
THEOREM Observing == Spec => [](Built /\ Idle /\ Fresh /\ Complete)
<1>1. Built /\ Idle /\ Fresh /\ Complete /\ [Next]_vars
        => (Built /\ Idle /\ Fresh /\ Complete)'
  BY SetupObservations, DeliverObservations, CollectObservations, ResetObservations,
     OtherObservations DEF Next
<1> QED
  BY InitObservations, <1>1, PTL DEF Spec

(* A pipeline that has delivered one observation never fails a later one,  *)
(* for every manifest: Pipeline.collect raises by the manifest alone.      *)
THEOREM KeepsWorking == Spec => []CollectKeepsWorking
<1>1. Complete => CollectKeepsWorking
  BY DEF Complete, CollectKeepsWorking
<1> QED
  BY Observing, <1>1, PTL

LEMMA CollectedNothingOld ==
  ASSUME Built, Idle, Fresh, Complete, Collect
  PROVE  NothingCarriedOver'
<1> SUFFICES ASSUME NEW n \in DOMAIN obs', obs' # None, obs'[n] # None,
                    (type(manifest, source(n)) \in CollectorTypes \union {RobotPose})'
             PROVE  source(n)' \in received'
  BY DEF NothingCarriedOver, Observed
<1>1. PICK readings \in [1 .. Cardinality(DOMAIN tf) -> Poses \union {None}],
           short \in SUBSET Roundings :
        LET s == collect(readings, short)
        IN /\ tf' = s.tf
           /\ obs' = IF s.raised THEN None ELSE wire(s.out)
  BY DEF Collect
<1> DEFINE s == collect(readings, short)
<1>2. Up /\ Up' /\ UNCHANGED <<manifest, pipeline, cells>> /\ received \subseteq received'
  BY DEF Collect, Up
<1>3. ~ s.raised /\ n \in DOMAIN s.out /\ s.out[n] # None
  BY <1>1 DEF wire
<1>4. Collecting(s, Len(pipeline.generators)) /\ source(n)' = source(n)
  BY <1>2, CollectCollects DEF source
<1>5. Built' /\ Fresh'
  BY CollectObservations
<1>6. CASE /\ source(n) \in Generated(manifest) \intersect Bound(pipeline.generators)
           /\ source(n) \in Trackers(manifest) => s.out[n] = s.tf[source(n)]
  <2>1. source(n) \in Trackers(manifest)
    <3>1. type(manifest, source(n))' = datasource(manifest, source(n)).type
      BY <1>2, <1>4 DEF type, datasource
    <3>2. /\ datasource(manifest, source(n)).type \in GeneratorTypes
          /\ source(n) \in Trackers(manifest) <=> datasource(manifest, source(n)).type = RobotPose
      BY <1>2, <1>6, GeneratedTypes
    <3>3. Subgoal \notin CollectorTypes \union {RobotPose}
      BY DEF Subgoal, CollectorTypes, RobotPose, LaserScan, Image, CompressedImage, Path,
             OccupancyGrid, PoseStamped
    <3> QED
      BY <3>1, <3>2, <3>3 DEF GeneratorTypes
  <2> QED
    BY <1>1, <1>2, <1>3, <1>4, <1>5, <1>6, <2>1 DEF Fresh
<1>7. CASE /\ source(n) \in Collectors(manifest) \intersect Bound(pipeline.collectors)
           /\ s.out[n] = get_observation(cells[source(n)])
  BY <1>2, <1>3, <1>4, <1>7 DEF Fresh, get_observation
<1> HIDE DEF s
<1> QED
  BY <1>2, <1>3, <1>4, <1>6, <1>7, CollectedValue

(* What an observation holds of a topic or of TF has arrived since the     *)
(* last reset, for every manifest and every order of messages and looks.   *)
THEOREM NothingOld == Spec => []NothingCarriedOver
<1>1. Init => NothingCarriedOver
  BY DEF Init, NothingCarriedOver
<1>2. Built /\ Idle /\ Fresh /\ Complete /\ NothingCarriedOver /\ [Next]_vars => NothingCarriedOver'
  <2> SUFFICES ASSUME Built, Idle, Fresh, Complete, NothingCarriedOver, [Next]_vars
               PROVE  NothingCarriedOver'
    OBVIOUS
  <2>1. CASE obs' = None
    BY <2>1 DEF NothingCarriedOver
  <2>2. CASE Collect
    BY <2>2, CollectedNothingOld
  <2>3. CASE Setup
    BY <2>3 DEF Setup, Idle, Up, NothingCarriedOver
  <2>4. CASE UNCHANGED vars
    BY <2>4 DEF vars, NothingCarriedOver, Observed, type, source
  <2> QED
    BY <2>1, <2>2, <2>3, <2>4 DEF Next, Deliver, Reset, Shutdown
<1> QED
  BY Observing, <1>1, <1>2, PTL DEF Spec

-----------------------------------------------------------------------------
(* The goal withheld *)

(* What is left of the manifest and of the collectors when the launch      *)
(* withholds the pose.                                                     *)
Withheld ==
  "pose" \notin Revealed /\ Up =>
    /\ \A d \in ToSet(manifest.datasources) :
         /\ d.type # Subgoal
         /\ d.type = PoseStamped =>
              GoalPoints \intersect {msg.point : msg \in Messages[d.params.topic]} = {}
    /\ "pose" \notin payload
    /\ \A c \in Collectors(manifest) :
         type(manifest, c) = PoseStamped /\ ~ cells[c].stale =>
           cells[c].value \in {msg.point : msg \in Messages[params(manifest, c).topic]}

LEMMA WithheldManifest ==
  ASSUME NEW m \in Manifests, NEW d \in ToSet(withhold_pose(m).datasources)
  PROVE  /\ d.type # Subgoal
         /\ d.type = PoseStamped =>
              GoalPoints \intersect {msg.point : msg \in Messages[d.params.topic]} = {}
<1>1. d \in ToSet(m.datasources) /\ d.name \notin dropped(m)
  BY Withholding
<1>2. d.type # Subgoal /\ (d.type = PoseStamped => d.params.topic # "goal_pose")
  BY <1>1 DEF dropped
<1> QED
  BY <1>1, <1>2, GoalAssumption

LEMMA RevealedStays ==
  ASSUME Built, Idle, [Next]_vars
  PROVE  Revealed' = Revealed
<1>1. goal' = goal /\ manifest'.goal_inputs = manifest.goal_inputs
  <2>1. CASE Setup
    <3>1. manifest \in Manifests
      BY <2>1 DEF Setup, Idle, Up
    <3>2. manifest' = manifest \/ manifest' = withhold_pose(manifest)
      BY <2>1, Zenon DEF Setup
    <3> QED
      BY <2>1, <3>1, <3>2, Withholding DEF Setup
  <2> QED
    BY <2>1 DEF Next, Deliver, Collect, Reset, Shutdown, vars
<1> QED
  BY <1>1 DEF Revealed, declared

LEMMA SetupWithholds ==
  ASSUME Built, Idle, Setup
  PROVE  Withheld'
<1> SUFFICES ASSUME "pose" \notin Revealed', Up' PROVE Withheld'
  BY DEF Withheld
<1>1. manifest \in Manifests /\ payload = {}
  BY DEF Setup, Idle, Up
<1>2. "pose" \notin Revealed
  BY RevealedStays DEF Next
<1> DEFINE m == withhold_pose(manifest)
<1>3. /\ manifest' = m /\ payload' = payload
      /\ cells' = [c \in Collectors(m) |->
                     [msg |-> EmptyMessage, stale |-> TRUE,
                      value |-> _preprocess(datasource(m, c), EmptyMessage)]]
  <2>1. phase' # "refused"
    BY DEF Up
  <2>2. /\ manifest' = IF "pose" \notin Revealed THEN m ELSE manifest
        /\ payload' = payload
        /\ cells' = [c \in Collectors(manifest') |->
                       [msg |-> EmptyMessage, stale |-> TRUE,
                        value |-> _preprocess(datasource(manifest', c), EmptyMessage)]]
    BY <2>1 DEF Setup
  <2> QED
    BY <1>2, <2>2
<1>4. \A c \in Collectors(manifest') : cells'[c].stale
  BY <1>3
<1>5. ASSUME NEW d \in ToSet(manifest'.datasources)
      PROVE  /\ d.type # Subgoal
             /\ d.type = PoseStamped =>
                  GoalPoints \intersect {msg.point : msg \in Messages[d.params.topic]} = {}
  BY <1>1, <1>3, WithheldManifest
<1> QED
  BY <1>1, <1>3, <1>4, <1>5 DEF Withheld

LEMMA DeliverWithholds ==
  ASSUME Built, Idle, Withheld, NEW c \in DOMAIN cells, Deliver(c)
  PROVE  Withheld'
<1> SUFFICES ASSUME "pose" \notin Revealed', Up' PROVE Withheld'
  BY DEF Withheld
<1> DEFINE d == datasource(manifest, c)
<1>1. PICK msg \in Messages[params(manifest, c).topic] :
        cells' = [cells EXCEPT ![c] = update(d, @, msg)]
  BY DEF Deliver
<1>2. Up /\ "pose" \notin Revealed /\ UNCHANGED <<manifest, payload>>
  BY RevealedStays DEF Deliver, Up, Next
<1>3. /\ \A x \in DOMAIN cells : x # c => cells'[x] = cells[x]
      /\ cells'[c] = update(d, cells[c], msg) /\ DOMAIN cells = Collectors(manifest)
      /\ DOMAIN cells[c] = {"msg", "value", "stale"}
  BY <1>1, <1>2 DEF Built
<1>4. type(manifest, c) = PoseStamped /\ ~ cells'[c].stale =>
        cells'[c].value \in {x.point : x \in Messages[params(manifest, c).topic]}
  <2> SUFFICES ASSUME d.type = PoseStamped
               PROVE  cells'[c].value \in {x.point : x \in Messages[params(manifest, c).topic]}
    BY DEF type
  <2>1. d.type \notin {Image, CompressedImage, LaserScan, Path, OccupancyGrid}
    BY DEF PoseStamped, Image, CompressedImage, LaserScan, Path, OccupancyGrid
  <2>2. ~ raises(d, msg)
    BY <2>1 DEF raises
  <2>3. cells'[c].value = msg.point
    BY <1>3, <2>1, <2>2 DEF update, _preprocess
  <2> QED
    BY <2>3
<1> QED
  BY <1>2, <1>3, <1>4 DEF Withheld, type, params

LEMMA CollectWithholds ==
  ASSUME Built, Idle, Fresh, Complete, Withheld, Collect
  PROVE  Withheld' /\ GoalWithheld'
<1> SUFFICES ASSUME "pose" \notin Revealed', Up' PROVE Withheld' /\ GoalWithheld'
  <2>1. phase' = "running" => Up'
    BY DEF Up
  <2> QED
    BY <2>1 DEF Withheld, GoalWithheld, Running
<1>1. PICK readings \in [1 .. Cardinality(DOMAIN tf) -> Poses \union {None}],
           short \in SUBSET Roundings :
        LET s == collect(readings, short)
        IN /\ tf' = s.tf
           /\ obs' = IF s.raised THEN None ELSE wire(s.out)
  BY DEF Collect
<1> DEFINE s == collect(readings, short)
<1>2. Up /\ "pose" \notin Revealed /\ UNCHANGED <<manifest, pipeline, cells, payload>>
  BY RevealedStays DEF Collect, Up, Next
<1>3. Withheld'
  BY <1>2 DEF Withheld
<1>4. /\ Collecting(s, Len(pipeline.generators))
      /\ s.tf \in [Trackers(manifest) -> Poses \union {None}]
  BY <1>2, CollectCollects, CollectLooks DEF Built
<1> HIDE DEF s
<1>5. ASSUME obs' # None, NEW n \in DOMAIN obs',
             type(manifest, source(n)) \in {PoseStamped, RobotPose, Subgoal}
      PROVE  obs'[n] \notin GoalPoints
  <2>1. ~ s.raised /\ n \in DOMAIN s.out /\ obs'[n] = s.out[n]
    BY <1>1, <1>5 DEF wire, s
  <2>2. CASE /\ source(n) \in Generated(manifest) \intersect Bound(pipeline.generators)
             /\ source(n) \in Trackers(manifest) => s.out[n] = s.tf[source(n)]
    <3> DEFINE d == datasource(manifest, source(n))
    <3>1. /\ d \in ToSet(manifest.datasources) /\ d.type \in GeneratorTypes
          /\ source(n) \in Trackers(manifest) <=> d.type = RobotPose
      BY <1>2, <2>2, GeneratedTypes
    <3>2. d.type # Subgoal
      BY <1>2, <3>1 DEF Withheld
    <3>3. source(n) \in Trackers(manifest)
      BY <3>1, <3>2 DEF GeneratorTypes
    <3> QED
      BY <1>4, <2>1, <2>2, <3>3, GoalAssumption
  <2>3. CASE /\ source(n) \in Collectors(manifest) \intersect Bound(pipeline.collectors)
             /\ s.out[n] = get_observation(cells[source(n)])
    <3> DEFINE c == source(n)
               d == datasource(manifest, c)
    <3>1. d \in ToSet(manifest.datasources) /\ d.type \in CollectorTypes
      BY <1>2, <2>3, CollectedTypes
    <3>2. d.type = PoseStamped
      <4>1. RobotPose \notin CollectorTypes /\ Subgoal \notin CollectorTypes
        BY DEF Subgoal, CollectorTypes, RobotPose, LaserScan, Image, CompressedImage, Path,
               OccupancyGrid, PoseStamped
      <4> QED
        BY <1>5, <3>1, <4>1 DEF type
    <3>3. CASE cells[c].stale
      BY <2>1, <2>3, <3>3, GoalAssumption DEF get_observation
    <3>4. CASE ~ cells[c].stale
      <4>1. cells[c].value \in {msg.point : msg \in Messages[d.params.topic]}
        BY <1>2, <2>3, <3>2, <3>4 DEF Withheld, type, params
      <4>2. GoalPoints \intersect {msg.point : msg \in Messages[d.params.topic]} = {}
        BY <1>2, <3>1, <3>2 DEF Withheld
      <4>3. obs'[n] = cells[c].value
        BY <2>1, <2>3, <3>4 DEF get_observation
      <4> QED
        BY <4>1, <4>2, <4>3
    <3> QED
      BY <3>3, <3>4
  <2> QED
    BY <1>2, <1>4, <2>1, <2>2, <2>3, CollectedValue
<1>6. GoalWithheld'
  <2>1. "pose" \notin payload'
    BY <1>2 DEF Withheld
  <2>2. /\ Messages["goal_pose"] = Messages["goal_pose"]'
        /\ \A n : type(manifest, source(n))' = type(manifest, source(n))
    BY <1>2 DEF type, source, datasource
  <2> QED
    BY <1>5, <2>1, <2>2 DEF GoalWithheld, Observed, GoalPoints
<1> QED
  BY <1>3, <1>6

LEMMA OtherWithholds ==
  ASSUME Built, Idle, Withheld, Reset \/ Shutdown \/ UNCHANGED vars
  PROVE  Withheld'
<1> SUFFICES ASSUME "pose" \notin Revealed', Up' PROVE Withheld'
  BY DEF Withheld
<1>1. "pose" \notin Revealed
  BY RevealedStays DEF Next
<1>2. CASE Reset
  <2>1. Up /\ UNCHANGED manifest /\ payload' \in {{}, initial_state(Revealed)}
        /\ DOMAIN cells = Collectors(manifest)
    BY <1>2 DEF Reset, Up, Built
  <2>2. \A c \in DOMAIN cells : /\ cells'[c].value = cells[c].value
                                /\ ~ cells'[c].stale => ~ cells[c].stale
    BY <1>2, <2>1 DEF Reset, Built
  <2>3. "pose" \notin payload'
    BY <1>1, <2>1 DEF initial_state
  <2> QED
    BY <1>1, <2>1, <2>2, <2>3 DEF Withheld
<1>3. CASE Shutdown
  <2>1. Up /\ UNCHANGED <<manifest, payload, cells>>
    BY <1>3 DEF Shutdown, Up
  <2> QED
    BY <1>1, <2>1 DEF Withheld
<1>4. CASE UNCHANGED vars
  <2>1. Up /\ UNCHANGED <<manifest, payload, cells>>
    BY <1>4 DEF vars, Up
  <2> QED
    BY <1>1, <2>1 DEF Withheld
<1> QED
  BY <1>2, <1>3, <1>4

(* A run that withholds the goal pose keeps it from the planner, for every *)
(* manifest: what withhold_pose leaves has no way to the goal.             *)
THEOREM GoalKept == Spec => []GoalWithheld
<1> DEFINE Inv == Withheld /\ GoalWithheld
<1>1. Init => Inv
  BY DEF Init, Withheld, GoalWithheld, Running, Up
<1>2. Built /\ Idle /\ Fresh /\ Complete /\ Inv /\ [Next]_vars => Inv'
  <2> SUFFICES ASSUME Built, Idle, Fresh, Complete, Withheld, GoalWithheld, [Next]_vars
               PROVE  Inv'
    OBVIOUS
  <2>1. CASE Setup
    <3>1. Withheld' /\ obs' = None
      BY <2>1, SetupWithholds DEF Setup, Idle, Up
    <3> QED
      BY <3>1 DEF Withheld, GoalWithheld, Running, Up
  <2>2. CASE \E c \in DOMAIN cells : Deliver(c)
    <3>1. Withheld' /\ obs' = None
      BY <2>2, DeliverWithholds DEF Deliver
    <3> QED
      BY <3>1 DEF Withheld, GoalWithheld, Running, Up
  <2>3. CASE Collect
    BY <2>3, CollectWithholds
  <2>4. CASE Reset \/ Shutdown
    <3>1. Withheld' /\ obs' = None
      BY <2>4, OtherWithholds DEF Reset, Shutdown
    <3> QED
      BY <3>1 DEF Withheld, GoalWithheld, Running, Up
  <2>5. CASE UNCHANGED vars
    <3>1. Withheld'
      BY <2>5, OtherWithholds
    <3>2. GoalWithheld'
      BY <2>5 DEF vars, GoalWithheld, Running, Revealed, declared, Observed, type, source,
                  datasource
    <3> QED
      BY <3>1, <3>2
  <2> QED
    BY <2>1, <2>2, <2>3, <2>4, <2>5 DEF Next
<1>3. Inv => GoalWithheld
  OBVIOUS
<1> QED
  BY Observing, <1>1, <1>2, <1>3, PTL DEF Spec

-----------------------------------------------------------------------------
(* The lookaheads *)

Points == Int \X Int

LEMMA DistanceType ==
  ASSUME NEW p \in Points, NEW q \in Points
  PROVE  Length(p, q) \in Nat /\ Distance2(p, q) \in Nat
<1>1. p[1] \in Int /\ p[2] \in Int /\ q[1] \in Int /\ q[2] \in Int
  BY DEF Points
<1>2. \A n \in Int : n * n \in Nat
  OBVIOUS
<1> QED
  BY <1>1, <1>2 DEF Length, Distance2, Abs

LEMMA ProjectionType ==
  ASSUME NEW p \in Points, NEW q \in Points, NEW r \in Points
  PROVE  /\ Projection(p, q, r) \in Points
         /\ Length(p, Projection(p, q, r)) + Length(Projection(p, q, r), q) = Length(p, q)
<1>1. p[1] \in Int /\ p[2] \in Int /\ q[1] \in Int /\ q[2] \in Int /\ r[1] \in Int /\ r[2] \in Int
  BY DEF Points
<1>2. ASSUME NEW a \in Int, NEW b \in Int, NEW n \in Int
      PROVE  /\ Clamp(n, a, b) \in Int
             /\ Abs(Clamp(n, a, b) - a) + Abs(b - Clamp(n, a, b)) = Abs(b - a)
  BY DEF Clamp, Abs
<1>3. ASSUME NEW n \in Int PROVE Abs(n) \in Int
  BY DEF Abs
<1> DEFINE x == Clamp(r[1], p[1], q[1])
           y == Clamp(r[2], p[2], q[2])
<1>4. x \in Int /\ y \in Int /\ Abs(x - p[1]) + Abs(q[1] - x) = Abs(q[1] - p[1])
      /\ Abs(y - p[2]) + Abs(q[2] - y) = Abs(q[2] - p[2])
  BY <1>1, <1>2
<1> HIDE DEF x, y
<1>5. Length(p, <<x, y>>) + Length(<<x, y>>, q) = Length(p, q)
  <2>1. /\ Abs(x - p[1]) \in Int /\ Abs(q[1] - x) \in Int /\ Abs(y - p[2]) \in Int
        /\ Abs(q[2] - y) \in Int
    BY <1>1, <1>3, <1>4
  <2> QED
    BY <1>4, <2>1 DEF Length
<1> QED
  BY <1>4, <1>5 DEF Projection, x, y, Points

(* The first of the closest segments. *)
LEMMA ClosestIs ==
  ASSUME NEW path \in Seq(Points), Len(path) > 1, NEW r \in Points
  PROVE  LET d2(i) == Distance2(Projection(path[i], path[i + 1], r), r)
             c == closest(path, r)
         IN /\ c \in 1 .. Len(path) - 1
            /\ \A i \in 1 .. Len(path) - 1 : d2(i) \in Nat /\ d2(c) <= d2(i)
                                             /\ (i < c => d2(c) < d2(i))
<1> DEFINE d2(i) == Distance2(Projection(path[i], path[i + 1], r), r)
           n == Len(path) - 1
           all == {d2(i) : i \in 1 .. n}
           first == {i \in 1 .. n : \A j \in 1 .. n : d2(i) <= d2(j)}
<1>1. n \in Nat \ {0} /\ \A i \in 1 .. n : path[i] \in Points /\ path[i + 1] \in Points
  BY LenProperties, ElementOfSeq
<1>2. \A i \in 1 .. n : d2(i) \in Nat
  BY <1>1, ProjectionType, DistanceType
<1> HIDE DEF d2
<1>3. all \in SUBSET Nat /\ all # {}
  <2>1. 1 \in 1 .. n
    BY <1>1
  <2>2. d2(1) \in all
    BY <2>1
  <2> QED
    BY <1>2, <2>2
<1>4. PICK i \in 1 .. n : d2(i) = Min(all) /\ \A x \in all : Min(all) <= x
  BY <1>3, MinOf
<1>5. i \in first
  BY <1>4
<1>6. first \in SUBSET Nat
  BY <1>1
<1>7. Min(first) \in first /\ \A x \in first : Min(first) <= x
  BY <1>5, <1>6, MinOf
<1> DEFINE c == Min(first)
<1>8. c = closest(path, r)
  BY DEF closest, d2
<1>9. c \in 1 .. n /\ \A j \in 1 .. n : d2(c) <= d2(j)
  BY <1>7
<1>10. ASSUME NEW j \in 1 .. n, j < c PROVE d2(c) < d2(j)
  <2>1. j \notin first
    BY <1>7, <1>9, <1>10
  <2>2. PICK l \in 1 .. n : ~ (d2(j) <= d2(l))
    BY <2>1
  <2>3. d2(c) <= d2(l) /\ d2(c) \in Nat /\ d2(l) \in Nat /\ d2(j) \in Nat
    BY <1>2, <1>9
  <2> QED
    BY <2>2, <2>3
<1> HIDE DEF c
<1> QED
  BY <1>2, <1>8, <1>9, <1>10 DEF d2

(* A running sum from c to n, as the lookaheads walk. *)
Sums(f, c, n, base, w) == f = [i \in c .. n |-> IF i = c THEN base ELSE f[i - 1] + w[i]]

LEMMA SumExists ==
  ASSUME NEW c \in Nat, NEW n \in Nat, c <= n, NEW base \in Int, NEW w \in [c .. n -> Int]
  PROVE  \E f : Sums(f, c, n, base, w)
<1> DEFINE Defined == {k \in Nat : c + k <= n => \E f : Sums(f, c, c + k, base, w)}
<1>1. 0 \in Defined
  <2> DEFINE f == [i \in c .. c + 0 |-> base]
  <2>1. \A i \in c .. c + 0 : i = c
    OBVIOUS
  <2>2. Sums(f, c, c + 0, base, w)
    BY <2>1 DEF Sums
  <2> QED
    BY <2>2
<1>2. ASSUME NEW k \in Nat, k \in Defined PROVE k + 1 \in Defined
  <2> SUFFICES ASSUME c + (k + 1) <= n PROVE \E f : Sums(f, c, c + (k + 1), base, w)
    OBVIOUS
  <2> DEFINE m == c + k
  <2>1. m \in Nat /\ c <= m /\ c + (k + 1) = m + 1 /\ m <= n
    OBVIOUS
  <2>2. PICK f : Sums(f, c, m, base, w)
    BY <1>2, <2>1
  <2> HIDE DEF m
  <2> DEFINE g == [i \in c .. m + 1 |-> IF i = m + 1 THEN f[m] + w[m + 1] ELSE f[i]]
  <2>3. ASSUME NEW i \in c .. m + 1 PROVE g[i] = IF i = c THEN base ELSE g[i - 1] + w[i]
    <3>1. CASE i = m + 1
      <4>1. i # c /\ i - 1 = m /\ m \in c .. m + 1 /\ m # m + 1
        BY <2>1, <3>1
      <4> QED
        BY <3>1, <4>1
    <3>2. CASE i \in c .. m
      <4>1. f[i] = IF i = c THEN base ELSE f[i - 1] + w[i]
        BY <2>2, <3>2 DEF Sums
      <4>2. i # c => i - 1 \in c .. m + 1 /\ i - 1 # m + 1
        BY <2>1, <3>2
      <4>3. i # m + 1
        BY <2>1, <3>2
      <4> QED
        BY <4>1, <4>2, <4>3
    <3> QED
      BY <2>1, <3>1, <3>2
  <2>4. Sums(g, c, m + 1, base, w)
    BY <2>3 DEF Sums
  <2> QED
    BY <2>1, <2>4
<1> HIDE DEF Defined
<1>3. n - c \in Nat /\ c + (n - c) = n
  OBVIOUS
<1>4. n - c \in Defined
  BY <1>1, <1>2, <1>3, Inductive
<1> QED
  BY <1>3, <1>4 DEF Defined

LEMMA SumType ==
  ASSUME NEW c \in Nat, NEW n \in Nat, c <= n, NEW base \in Int, NEW w \in [c .. n -> Int],
         NEW f, Sums(f, c, n, base, w)
  PROVE  \A i \in c .. n : f[i] \in Int
<1> DEFINE Typed == {k \in Nat : c + k <= n => f[c + k] \in Int}
<1>1. 0 \in Typed
  BY DEF Sums
<1>2. ASSUME NEW k \in Nat, k \in Typed PROVE k + 1 \in Typed
  <2> SUFFICES ASSUME c + (k + 1) <= n PROVE f[c + (k + 1)] \in Int
    OBVIOUS
  <2>1. /\ c + (k + 1) \in c .. n /\ c + (k + 1) # c /\ (c + (k + 1)) - 1 = c + k
        /\ f[c + k] \in Int /\ w[c + (k + 1)] \in Int
    BY <1>2
  <2>2. f[c + (k + 1)] = f[c + k] + w[c + (k + 1)]
    BY <2>1 DEF Sums
  <2> QED
    BY <2>1, <2>2
<1> HIDE DEF Typed
<1>3. Nat \subseteq Typed
  BY <1>1, <1>2, Inductive
<1>4. ASSUME NEW i \in c .. n PROVE f[i] \in Int
  <2>1. i - c \in Nat /\ c + (i - c) = i /\ i <= n
    OBVIOUS
  <2>2. i - c \in Typed
    BY <1>3, <2>1
  <2> QED
    BY <2>1, <2>2, Zenon DEF Typed
<1> QED
  BY <1>4

(* A running rest: what is left of base. *)
Rests(g, c, n, base, w) == g = [i \in c .. n |-> IF i = c THEN base ELSE g[i - 1] - w[i]]

LEMMA RestExists ==
  ASSUME NEW c \in Nat, NEW n \in Nat, c <= n, NEW base \in Int, NEW w \in [c .. n -> Int]
  PROVE  \E g : Rests(g, c, n, base, w)
<1>1. PICK f : Sums(f, c, n, 0, w)
  BY SumExists
<1>2. \A i \in c .. n : f[i] \in Int
  BY <1>1, SumType
<1> DEFINE g == [i \in c .. n |-> base - f[i]]
<1>3. ASSUME NEW i \in c .. n PROVE g[i] = IF i = c THEN base ELSE g[i - 1] - w[i]
  <2>1. CASE i = c
    <3>1. f[i] = 0
      BY <1>1, <2>1 DEF Sums
    <3> QED
      BY <2>1, <3>1
  <2>2. CASE i # c
    <3>1. i - 1 \in c .. n
      BY <2>2
    <3>2. f[i] = f[i - 1] + w[i]
      BY <1>1, <2>2 DEF Sums
    <3>3. PICK x \in Int, y \in Int : x = f[i - 1] /\ y = w[i]
      BY <1>2, <3>1
    <3>4. base - (x + y) = (base - x) - y
      OBVIOUS
    <3>5. g[i] = base - (x + y) /\ g[i - 1] = base - x
      BY <3>1, <3>2, <3>3
    <3> QED
      BY <2>2, <3>3, <3>4, <3>5
  <2> QED
    BY <2>1, <2>2
<1>4. Rests(g, c, n, base, w)
  BY <1>3 DEF Rests
<1> QED
  BY <1>4

(* What is left to walk is what has not been walked. *)
LEMMA RestMeetsSum ==
  ASSUME NEW c \in Nat, NEW n \in Nat, c <= n, NEW base \in Int, NEW w \in [c .. n -> Int],
         NEW f, NEW g, Sums(f, c, n, 0, w), Rests(g, c, n, base, w)
  PROVE  \A i \in c .. n : f[i] \in Int /\ g[i] = base - f[i]
<1> DEFINE Meeting == {k \in Nat : c + k <= n => g[c + k] = base - f[c + k]}
<1>0. \A i \in c .. n : f[i] \in Int
  BY SumType
<1>1. 0 \in Meeting
  BY DEF Sums, Rests
<1>2. ASSUME NEW k \in Nat, k \in Meeting PROVE k + 1 \in Meeting
  <2> SUFFICES ASSUME c + (k + 1) <= n PROVE g[c + (k + 1)] = base - f[c + (k + 1)]
    OBVIOUS
  <2> DEFINE i == c + (k + 1)
  <2>1. i \in c .. n /\ i # c /\ i - 1 = c + k /\ i - 1 \in c .. n
    OBVIOUS
  <2>2. g[i - 1] = base - f[i - 1]
    BY <1>2, <2>1
  <2> HIDE DEF i
  <2>3. f[i] = f[i - 1] + w[i] /\ g[i] = g[i - 1] - w[i]
    BY <2>1 DEF Sums, Rests
  <2>4. PICK x \in Int, y \in Int : x = f[i - 1] /\ y = w[i]
    BY <1>0, <2>1
  <2>5. f[i] = x + y /\ g[i] = (base - x) - y
    BY <2>2, <2>3, <2>4, Zenon
  <2>6. (base - x) - y = base - (x + y)
    OBVIOUS
  <2>7. g[i] = base - f[i]
    BY <2>5, <2>6, Zenon
  <2> QED
    BY <2>7 DEF i
<1> HIDE DEF Meeting
<1>3. Nat \subseteq Meeting
  BY <1>1, <1>2, Inductive
<1>4. ASSUME NEW i \in c .. n PROVE g[i] = base - f[i]
  <2>1. i - c \in Nat /\ c + (i - c) = i /\ i <= n
    OBVIOUS
  <2>2. i - c \in Meeting
    BY <1>3, <2>1
  <2> QED
    BY <2>1, <2>2, Zenon DEF Meeting
<1> QED
  BY <1>0, <1>4

(* On a piece along an axis, so far from its start is so much farther from *)
(* the projection.                                                         *)
LEMMA AlongPiece ==
  ASSUME NEW p \in Points, NEW q \in Points, NEW r \in Points, p[1] = q[1] \/ p[2] = q[2],
         NEW d \in Nat \ {0}, d <= Length(Projection(p, q, r), q)
  PROVE  PointAlong(Projection(p, q, r), q, d)
           = PointAlong(p, q, Length(p, Projection(p, q, r)) + d)
<1> DEFINE x == Clamp(r[1], p[1], q[1])
           y == Clamp(r[2], p[2], q[2])
<1>1. p[1] \in Int /\ p[2] \in Int /\ q[1] \in Int /\ q[2] \in Int /\ r[1] \in Int /\ r[2] \in Int
  BY DEF Points
<1>2. ASSUME NEW a \in Int, NEW n \in Int PROVE Clamp(n, a, a) = a
  BY DEF Clamp
<1>3. ASSUME NEW a \in Int, NEW b \in Int, NEW n \in Int, d <= Abs(b - Clamp(n, a, b))
      PROVE  Clamp(n, a, b) + d * Sign(b - Clamp(n, a, b))
               = a + (Abs(Clamp(n, a, b) - a) + d) * Sign(b - a)
  <2>1. CASE a <= b
    <3>1. Clamp(n, a, b) \in Int /\ a <= Clamp(n, a, b) /\ Clamp(n, a, b) < b
      BY <1>3, <2>1 DEF Clamp, Abs
    <3>2. /\ Sign(b - a) = 1 /\ Sign(b - Clamp(n, a, b)) = 1
          /\ Abs(Clamp(n, a, b) - a) = Clamp(n, a, b) - a
      BY <2>1, <3>1 DEF Sign, Abs
    <3> QED
      BY <3>1, <3>2
  <2>2. CASE b < a
    <3>1. Clamp(n, a, b) \in Int /\ Clamp(n, a, b) <= a /\ b < Clamp(n, a, b)
      BY <1>3, <2>2 DEF Clamp, Abs
    <3>2. /\ Sign(b - a) = -1 /\ Sign(b - Clamp(n, a, b)) = -1
          /\ Abs(Clamp(n, a, b) - a) = a - Clamp(n, a, b)
      BY <2>2, <3>1 DEF Sign, Abs
    <3>3. \A c \in Int : c + d * (-1) = a + ((a - c) + d) * (-1)
      BY <2>2
    <3> QED
      BY <3>1, <3>2, <3>3
  <2> QED
    BY <2>1, <2>2
<1>4. Sign(0) = 0 /\ Abs(0) = 0
  BY DEF Sign, Abs
<1>5. x \in Int /\ y \in Int
  BY <1>1 DEF Clamp
<1>6. CASE p[1] = q[1]
  <2>1. x = p[1] /\ x = q[1]
    BY <1>1, <1>2, <1>6
  <2>2. Length(<<x, y>>, q) = Abs(q[2] - y) /\ Length(p, <<x, y>>) = Abs(y - p[2])
    <3>1. Abs(q[2] - y) \in Int /\ Abs(y - p[2]) \in Int
      BY <1>1, <1>5 DEF Abs
    <3> QED
      BY <1>1, <1>4, <2>1, <3>1 DEF Length
  <2>3. y + d * Sign(q[2] - y) = p[2] + (Abs(y - p[2]) + d) * Sign(q[2] - p[2])
    BY <1>1, <1>3, <2>2 DEF Projection
  <2>4. /\ x + d * Sign(q[1] - x) = p[1]
        /\ p[1] + (Abs(y - p[2]) + d) * Sign(q[1] - p[1]) = p[1]
    <3>1. Abs(y - p[2]) \in Int
      BY <1>1, <1>5 DEF Abs
    <3> QED
      BY <1>1, <1>4, <1>6, <2>1, <3>1
  <2> QED
    BY <2>2, <2>3, <2>4 DEF PointAlong, Projection
<1>7. CASE p[2] = q[2]
  <2>1. y = p[2] /\ y = q[2]
    BY <1>1, <1>2, <1>7
  <2>2. Length(<<x, y>>, q) = Abs(q[1] - x) /\ Length(p, <<x, y>>) = Abs(x - p[1])
    <3>1. Abs(q[1] - x) \in Int /\ Abs(x - p[1]) \in Int
      BY <1>1, <1>5 DEF Abs
    <3> QED
      BY <1>1, <1>4, <2>1, <3>1 DEF Length
  <2>3. x + d * Sign(q[1] - x) = p[1] + (Abs(x - p[1]) + d) * Sign(q[1] - p[1])
    BY <1>1, <1>3, <2>2 DEF Projection
  <2>4. /\ y + d * Sign(q[2] - y) = p[2]
        /\ p[2] + (Abs(x - p[1]) + d) * Sign(q[2] - p[2]) = p[2]
    <3>1. Abs(x - p[1]) \in Int
      BY <1>1, <1>5 DEF Abs
    <3> QED
      BY <1>1, <1>4, <1>7, <2>1, <3>1
  <2> QED
    BY <2>2, <2>3, <2>4 DEF PointAlong, Projection
<1> QED
  BY <1>6, <1>7

(* What the lookahead walks after the closest segment's start: from the    *)
(* projection, then from point to point.                                   *)
Onward(path, r) ==
  LET c == closest(path, r)
      p == Projection(path[c], path[c + 1], r)
  IN [i \in c .. Len(path) |-> IF i = c THEN 0
                               ELSE Length(IF i - 1 = c THEN p ELSE path[i - 1], path[i])]

(* The planner's lookahead, with its running sum. *)
LEMMA PlannerWalks ==
  ASSUME NEW path \in Seq(Points), Len(path) > 1, NEW r \in Points,
         NEW lookahead \in Nat \ {0}
  PROVE  LET n == Len(path)
             c == closest(path, r)
             p == Projection(path[c], path[c + 1], r)
         IN /\ Onward(path, r) \in [c .. n -> Nat]
            /\ \A i \in c .. n - 1 :
                 Onward(path, r)[i + 1] = Length(path[i], path[i + 1])
                                            - IF i = c THEN Length(path[c], p) ELSE 0
            /\ \E acc : LET ends == {i \in c .. n - 1 : acc[i + 1] >= lookahead}
                            m == Min(ends)
                        IN /\ Sums(acc, c, n, 0, Onward(path, r))
                           /\ lookahead_on_path(path, r, lookahead) =
                                IF ends = {} THEN path[n]
                                ELSE PointAlong(IF m = c THEN p ELSE path[m], path[m + 1],
                                                lookahead - acc[m])
<1> DEFINE n == Len(path)
           c == closest(path, r)
           p == Projection(path[c], path[c + 1], r)
           from(i) == IF i = c THEN p ELSE path[i]
           w == Onward(path, r)
           walked(g) == g = [i \in c .. n |->
                    IF i = c THEN 0 ELSE g[i - 1] + Length(from(i - 1), path[i])]
           acc == CHOOSE g : walked(g)
           ends == {i \in c .. n - 1 : acc[i + 1] >= lookahead}
<1>1. lookahead_on_path(path, r, lookahead) =
        IF ends = {} THEN path[n]
        ELSE PointAlong(from(Min(ends)), path[Min(ends) + 1], lookahead - acc[Min(ends)])
  BY DEF lookahead_on_path
<1>2. /\ n \in Nat /\ c \in 1 .. n - 1 /\ c \in Nat /\ c <= n
      /\ \A i \in 1 .. n : path[i] \in Points
  BY LenProperties, ElementOfSeq, ClosestIs
<1>3. path[c] \in Points /\ path[c + 1] \in Points
  BY <1>2
<1>w. w = [i \in c .. n |-> IF i = c THEN 0 ELSE Length(from(i - 1), path[i])]
  BY DEF Onward
<1> HIDE DEF n, c, w
<1>4. p \in Points /\ Length(path[c], p) + Length(p, path[c + 1]) = Length(path[c], path[c + 1])
  BY <1>3, ProjectionType
<1> HIDE DEF p
<1>5. ASSUME NEW i \in c .. n - 1
      PROVE  /\ i + 1 \in c .. n /\ i + 1 # c /\ (i + 1) - 1 = i
             /\ w[i + 1] = Length(from(i), path[i + 1]) /\ w[i + 1] \in Nat
             /\ w[i + 1] = Length(path[i], path[i + 1]) - IF i = c THEN Length(path[c], p) ELSE 0
  <2>1. path[i] \in Points /\ path[i + 1] \in Points
    BY <1>2
  <2>2. i + 1 \in c .. n /\ i + 1 # c /\ (i + 1) - 1 = i
    BY <1>2
  <2>3. w[i + 1] = Length(from(i), path[i + 1])
    BY <1>w, <2>2
  <2>4. CASE i = c
    <3>1. /\ Length(path[c], p) \in Nat /\ Length(p, path[c + 1]) \in Nat
          /\ Length(path[c], path[c + 1]) \in Nat
      BY <1>3, <1>4, DistanceType
    <3>2. Length(path[c], path[c + 1]) - Length(path[c], p) = Length(p, path[c + 1])
      BY <1>4, <3>1
    <3> QED
      BY <2>2, <2>3, <2>4, <3>1, <3>2
  <2>5. CASE i # c
    <3>1. Length(path[i], path[i + 1]) \in Nat
      BY <2>1, DistanceType
    <3>2. Length(path[i], path[i + 1]) - 0 = Length(path[i], path[i + 1])
      BY <3>1
    <3> QED
      BY <2>2, <2>3, <2>5, <3>1, <3>2
  <2> QED
    BY <2>4, <2>5
<1> HIDE DEF from
<1>6. w \in [c .. n -> Nat]
  <2>1. ASSUME NEW i \in c .. n PROVE w[i] \in Nat
    <3>1. CASE i = c
      BY <1>w, <3>1
    <3>2. CASE i # c
      <4>1. i - 1 \in c .. n - 1 /\ (i - 1) + 1 = i
        BY <1>2, <3>2
      <4> QED
        BY <1>5, <4>1
    <3> QED
      BY <3>1, <3>2
  <2> QED
    BY <1>w, <2>1
<1>7. Sums(acc, c, n, 0, w)
  <2>1. PICK f : Sums(f, c, n, 0, w)
    <3>1. 0 \in Int /\ w \in [c .. n -> Int]
      BY <1>6
    <3> QED
      BY <1>2, <3>1, SumExists, Zenon
  <2>2. ASSUME NEW g PROVE Sums(g, c, n, 0, w) <=> walked(g)
    BY <1>w DEF Sums
  <2> HIDE DEF walked
  <2> QED
    BY <2>1, <2>2
<1> HIDE DEF acc
<1>8. lookahead_on_path(path, r, lookahead) =
        IF ends = {} THEN path[n]
        ELSE PointAlong(IF Min(ends) = c THEN p ELSE path[Min(ends)], path[Min(ends) + 1],
                        lookahead - acc[Min(ends)])
  BY <1>1 DEF from
<1> QED
  BY <1>5, <1>6, <1>7, <1>8 DEF n, c, p, w

(* The planner's lookahead and the bridge's find the same point of every   *)
(* plan along the axes, from everywhere: the one walks on from the         *)
(* projection, the other from the start of the piece it lies on.           *)
THEOREM LookaheadsMeet ==
  ASSUME NEW path \in Seq(Points), Len(path) > 1, Rectilinear(path),
         NEW r \in Points, NEW lookahead \in Nat \ {0}
  PROVE  lookahead_on_path(path, r, lookahead) = chunk_lookahead(path, r, lookahead)
<1> DEFINE n == Len(path)
           c == closest(path, r)
           p == Projection(path[c], path[c + 1], r)
           start_(i) == IF i = c THEN Length(path[c], p) ELSE 0
           left(i) == Length(path[i], path[i + 1]) - start_(i)
           w == Onward(path, r)
           rest(g) == g = [i \in c .. n |-> IF i = c THEN lookahead ELSE g[i - 1] - left(i - 1)]
           ahead == CHOOSE g : rest(g)
           stops == {i \in c .. n - 1 : left(i) >= ahead[i]}
<1>1. PICK acc : LET ends == {i \in c .. n - 1 : acc[i + 1] >= lookahead}
                     m == Min(ends)
                 IN /\ Sums(acc, c, n, 0, w)
                    /\ lookahead_on_path(path, r, lookahead) =
                         IF ends = {} THEN path[n]
                         ELSE PointAlong(IF m = c THEN p ELSE path[m], path[m + 1],
                                         lookahead - acc[m])
  BY PlannerWalks
<1> DEFINE ends == {i \in c .. n - 1 : acc[i + 1] >= lookahead}
<1>a. lookahead_on_path(path, r, lookahead) =
        IF ends = {} THEN path[n]
        ELSE PointAlong(IF Min(ends) = c THEN p ELSE path[Min(ends)], path[Min(ends) + 1],
                        lookahead - acc[Min(ends)])
  BY <1>1
<1>2. chunk_lookahead(path, r, lookahead) =
        IF stops = {} THEN path[n]
        ELSE PointAlong(path[Min(stops)], path[Min(stops) + 1],
                        start_(Min(stops)) + ahead[Min(stops)])
  BY DEF chunk_lookahead
<1>3. /\ n \in Nat /\ c \in 1 .. n - 1 /\ c \in Nat /\ c <= n
      /\ \A i \in 1 .. n : path[i] \in Points
  BY LenProperties, ElementOfSeq, ClosestIs
<1>4. path[c] \in Points /\ path[c + 1] \in Points
  BY <1>3
<1>6. w \in [c .. n -> Nat] /\ \A i \in c .. n - 1 : w[i + 1] = left(i)
  BY PlannerWalks
<1> HIDE DEF n, c
<1>5. p \in Points /\ Length(path[c], p) + Length(p, path[c + 1]) = Length(path[c], path[c + 1])
  BY <1>4, ProjectionType
<1> HIDE DEF p
<1>7. \A i \in c .. n : i # c => i - 1 \in c .. n - 1 /\ (i - 1) + 1 = i /\ w[i] = left(i - 1)
  <2>1. ASSUME NEW i \in c .. n, i # c PROVE i - 1 \in c .. n - 1 /\ (i - 1) + 1 = i
    BY <1>3, <2>1
  <2> HIDE DEF w, left
  <2> QED
    BY <1>6, <2>1
<1>8. ASSUME NEW i \in c .. n - 1 PROVE left(i) \in Nat
  <2>1. i + 1 \in c .. n
    BY <1>3
  <2> HIDE DEF w, left
  <2> QED
    BY <1>6, <2>1
<1> HIDE DEF w, start_, left
<1>9. Rests(ahead, c, n, lookahead, w)
  <2>0. lookahead \in Int /\ w \in [c .. n -> Int]
    BY <1>6
  <2>1. PICK f : Rests(f, c, n, lookahead, w)
    BY <1>3, <2>0, RestExists, Zenon
  <2>2. ASSUME NEW g PROVE Rests(g, c, n, lookahead, w) <=> rest(g)
    BY <1>7 DEF Rests
  <2> HIDE DEF rest
  <2> QED
    BY <2>1, <2>2
<1> HIDE DEF ahead
<1>10. \A i \in c .. n : acc[i] \in Int /\ ahead[i] = lookahead - acc[i]
  <2>1. 0 \in Int /\ lookahead \in Int /\ w \in [c .. n -> Int]
    BY <1>6
  <2> QED
    BY <1>1, <1>3, <1>9, <2>1, RestMeetsSum
<1>11. ASSUME NEW i \in c .. n - 1
       PROVE  acc[i + 1] = acc[i] + left(i) /\ (acc[i + 1] >= lookahead <=> left(i) >= ahead[i])
  <2>1. i + 1 \in c .. n /\ i + 1 # c /\ (i + 1) - 1 = i /\ i \in c .. n
    BY <1>3
  <2>2. acc[i + 1] = acc[i] + left(i)
    BY <1>1, <1>6, <2>1 DEF Sums
  <2>3. PICK x \in Int, y \in Int : x = acc[i] /\ y = left(i)
    BY <1>8, <1>10, <2>1
  <2>4. x + y >= lookahead <=> y >= lookahead - x
    BY <2>3
  <2> QED
    BY <1>10, <2>1, <2>2, <2>3, <2>4
<1>12. ends = stops
  BY <1>11
<1>13. CASE ends = {}
  BY <1>2, <1>12, <1>13, <1>a
<1>14. CASE ends # {}
  <2> DEFINE m == Min(ends)
  <2>1. m \in ends
    <3>1. ends \in SUBSET Nat
      BY <1>3
    <3> HIDE DEF ends
    <3> QED
      BY <1>14, <3>1, MinOf
  <2>2. m \in c .. n - 1 /\ acc[m + 1] >= lookahead /\ Min(stops) = m
    BY <1>12, <2>1
  <2> HIDE DEF m, ends, stops
  <2>3. ahead[m] = lookahead - acc[m] /\ acc[m] \in Int
    BY <1>3, <1>10, <2>2
  <2>4. PointAlong(IF m = c THEN p ELSE path[m], path[m + 1], lookahead - acc[m])
          = PointAlong(path[m], path[m + 1], start_(m) + (lookahead - acc[m]))
    <3>1. CASE m # c
      <4>1. start_(m) = 0
        BY <3>1 DEF start_
      <4> QED
        BY <2>3, <3>1, <4>1
    <3>2. CASE m = c
      <4>1. acc[m] = 0
        BY <1>1, <1>3, <3>2 DEF Sums
      <4>2. lookahead <= Length(p, path[c + 1])
        <5>1. left(m) >= ahead[m]
          BY <1>11, <2>2
        <5>2. ahead[m] = lookahead /\ left(m) = Length(p, path[c + 1])
          <6>1. left(m) = Length(path[c], path[c + 1]) - Length(path[c], p)
            BY <3>2 DEF left, start_
          <6>2. /\ Length(path[c], p) \in Nat /\ Length(p, path[c + 1]) \in Nat
                /\ Length(path[c], path[c + 1]) \in Nat
            BY <1>4, <1>5, DistanceType
          <6> QED
            BY <1>5, <2>3, <4>1, <6>1, <6>2
        <5>3. Length(p, path[c + 1]) \in Nat
          BY <1>4, <1>5, DistanceType
        <5> QED
          BY <5>1, <5>2, <5>3
      <4>3. path[c][1] = path[c + 1][1] \/ path[c][2] = path[c + 1][2]
        BY <1>3 DEF Rectilinear, n
      <4>4. PointAlong(p, path[c + 1], lookahead)
              = PointAlong(path[c], path[c + 1], Length(path[c], p) + lookahead)
        BY <1>4, <4>2, <4>3, AlongPiece DEF p
      <4> QED
        BY <3>2, <4>1, <4>4 DEF start_
    <3> QED
      BY <3>1, <3>2
  <2> QED
    BY <1>2, <1>12, <1>14, <1>a, <2>2, <2>3, <2>4 DEF m
<1> QED
  BY <1>13, <1>14

-----------------------------------------------------------------------------
(* Walking the plan *)

(* The way from point to point of a path. *)
Ways(path) == [i \in 1 .. Len(path) |-> IF i = 1 THEN 0 ELSE Length(path[i - 1], path[i])]

(* The number x lies on one of the pieces before point i. *)
OnPiece(f, w, i, x) == \E j \in 1 .. i - 1 : \E k \in 0 .. w[j + 1] : x = f[j] + k

(* A running sum of ways grows, and every number up to it lies on one of   *)
(* the pieces.                                                             *)
Grows(f, w, n) ==
  /\ f \in [1 .. n -> Nat] /\ f[1] = 0
  /\ \A i \in 1 .. n : f[i] \in Nat /\ \A j \in 1 .. i : f[j] <= f[i]
  /\ \A i \in 1 .. n - 1 : f[i + 1] = f[i] + w[i + 1]
  /\ \A i \in 1 .. n : i > 1 => \A x \in 0 .. f[i] : OnPiece(f, w, i, x)

LEMMA SumGrows ==
  ASSUME NEW n \in Nat \ {0}, NEW w \in [1 .. n -> Nat], NEW f, Sums(f, 1, n, 0, w)
  PROVE  Grows(f, w, n)
<1>1. \A i \in 1 .. n : f[i] \in Int
  <2>1. 1 \in Nat /\ n \in Nat /\ 1 <= n /\ 0 \in Int /\ w \in [1 .. n -> Int]
    OBVIOUS
  <2> QED
    BY <2>1, SumType, Zenon
<1>2. f[1] = 0 /\ \A i \in 1 .. n - 1 : f[i + 1] = f[i] + w[i + 1]
  <2>1. ASSUME NEW i \in 1 .. n PROVE f[i] = IF i = 1 THEN 0 ELSE f[i - 1] + w[i]
    BY DEF Sums
  <2>2. ASSUME NEW i \in 1 .. n - 1 PROVE f[i + 1] = f[i] + w[i + 1]
    <3>1. i + 1 \in 1 .. n /\ i + 1 # 1 /\ (i + 1) - 1 = i
      OBVIOUS
    <3> QED
      BY <2>1, <3>1
  <2> QED
    BY <2>1, <2>2
<1> DEFINE Fine(h) == /\ f[h] \in Nat /\ \A i \in 1 .. h : f[i] <= f[h]
                      /\ h > 1 => \A x \in 0 .. f[h] : OnPiece(f, w, h, x)
           Good == {m \in Nat : m + 1 <= n => Fine(m + 1)}
<1>3. Fine(1)
  BY <1>2
<1>4. ASSUME NEW h \in 1 .. n - 1, Fine(h) PROVE Fine(h + 1)
  <2>1. /\ f[h + 1] = f[h] + w[h + 1] /\ w[h + 1] \in Nat /\ f[h] \in Nat
        /\ f[h + 1] \in Nat /\ f[h] <= f[h + 1] /\ h \in 1 .. n
    BY <1>2, <1>4
  <2>2. ASSUME NEW i \in 1 .. h + 1 PROVE f[i] <= f[h + 1]
    <3>1. CASE i = h + 1
      BY <2>1, <3>1
    <3>2. CASE i \in 1 .. h
      <4>1. f[i] \in Int /\ f[i] <= f[h]
        BY <1>1, <1>4, <3>2
      <4> QED
        BY <2>1, <4>1
    <3> QED
      BY <3>1, <3>2
  <2>3. ASSUME NEW x \in 0 .. f[h + 1] PROVE OnPiece(f, w, h + 1, x)
    <3>1. (h + 1) - 1 = h /\ h \in 1 .. h /\ x \in Nat
      BY <2>1
    <3>2. CASE x >= f[h]
      <4>1. PICK k \in 0 .. w[h + 1] : x = f[h] + k
        <5>1. x - f[h] \in 0 .. w[h + 1] /\ x = f[h] + (x - f[h])
          BY <2>1, <3>1, <3>2
        <5> QED
          BY <5>1
      <4>2. \E j \in 1 .. h : \E l \in 0 .. w[j + 1] : x = f[j] + l
        BY <3>1, <4>1, Zenon
      <4> QED
        BY <3>1, <4>2, Zenon DEF OnPiece
    <3>3. CASE x < f[h]
      <4>1. h > 1 /\ x \in 0 .. f[h]
        BY <1>2, <2>1, <3>1, <3>3
      <4>2. OnPiece(f, w, h, x)
        BY <1>4, <4>1, Zenon
      <4>3. 1 .. h - 1 \subseteq 1 .. h
        OBVIOUS
      <4>4. \E j \in 1 .. h : \E l \in 0 .. w[j + 1] : x = f[j] + l
        BY <4>2, <4>3, Zenon DEF OnPiece
      <4> QED
        BY <3>1, <4>4, Zenon DEF OnPiece
    <3> QED
      BY <2>1, <3>1, <3>2, <3>3
  <2> QED
    BY <2>1, <2>2, <2>3
<1> HIDE DEF Fine
<1>5. Nat \subseteq Good
  <2>1. 0 \in Good
    BY <1>3
  <2>2. ASSUME NEW m \in Nat, m \in Good PROVE m + 1 \in Good
    <3> SUFFICES ASSUME (m + 1) + 1 <= n PROVE Fine((m + 1) + 1)
      OBVIOUS
    <3>1. m + 1 <= n /\ m + 1 \in 1 .. n - 1
      OBVIOUS
    <3>2. Fine(m + 1)
      BY <2>2, <3>1
    <3> QED
      BY <1>4, <3>1, <3>2
  <2> HIDE DEF Good
  <2> QED
    BY <2>1, <2>2, Inductive
<1>6. ASSUME NEW i \in 1 .. n PROVE Fine(i)
  <2>1. i - 1 \in Nat /\ (i - 1) + 1 = i /\ (i - 1) + 1 <= n
    OBVIOUS
  <2>2. Fine((i - 1) + 1)
    BY <1>5, <2>1, Zenon
  <2> QED
    BY <2>1, <2>2
<1>7. f \in [1 .. n -> Nat]
  <2>1. \A i \in 1 .. n : f[i] \in Nat
    BY <1>6 DEF Fine
  <2>2. f = [i \in 1 .. n |-> f[i]]
    BY DEF Sums
  <2> QED
    BY <2>1, <2>2
<1> QED
  BY <1>2, <1>6, <1>7 DEF Fine, Grows

(* The walk along the first n points of a path. *)
Walked(v, path, n) ==
  v = [i \in 1 .. n |->
         IF i = 1 THEN <<path[1]>>
         ELSE v[i - 1] \o [k \in 1 .. Length(path[i - 1], path[i]) |->
                             PointAlong(path[i - 1], path[i], k)]]

LEMMA WalkExists ==
  ASSUME NEW path, NEW n \in Nat \ {0}
  PROVE  \E v : Walked(v, path, n)
<1> DEFINE piece(i) == [k \in 1 .. Length(path[i - 1], path[i])
                                        |-> PointAlong(path[i - 1], path[i], k)]
           Defined == {m \in Nat : \E v : Walked(v, path, m + 1)}
<1>w. ASSUME NEW v, NEW m
      PROVE  Walked(v, path, m) <=>
               v = [i \in 1 .. m |-> IF i = 1 THEN <<path[1]>> ELSE v[i - 1] \o piece(i)]
  BY DEF Walked
<1> HIDE DEF piece
<1>1. 0 \in Defined
  <2> DEFINE v == [i \in 1 .. 0 + 1 |-> <<path[1]>>]
  <2>1. \A i \in 1 .. 0 + 1 : i = 1
    OBVIOUS
  <2>2. v = [i \in 1 .. 0 + 1 |-> IF i = 1 THEN <<path[1]>> ELSE v[i - 1] \o piece(i)]
    BY <2>1
  <2> QED
    BY <1>w, <2>2
<1>2. ASSUME NEW m \in Nat, m \in Defined PROVE m + 1 \in Defined
  <2> DEFINE h == m + 1
  <2>1. h \in Nat \ {0}
    OBVIOUS
  <2>2. PICK v : v = [i \in 1 .. h |-> IF i = 1 THEN <<path[1]>> ELSE v[i - 1] \o piece(i)]
    BY <1>2, <1>w
  <2> HIDE DEF h
  <2> DEFINE u == [i \in 1 .. h + 1 |-> IF i = h + 1 THEN v[h] \o piece(h + 1) ELSE v[i]]
  <2>3. ASSUME NEW i \in 1 .. h + 1
        PROVE  u[i] = IF i = 1 THEN <<path[1]>> ELSE u[i - 1] \o piece(i)
    <3>1. CASE i = h + 1
      <4>1. i # 1 /\ i - 1 = h /\ h \in 1 .. h + 1 /\ h # h + 1
        BY <2>1, <3>1
      <4> QED
        BY <3>1, <4>1
    <3>2. CASE i \in 1 .. h
      <4>1. v[i] = IF i = 1 THEN <<path[1]>> ELSE v[i - 1] \o piece(i)
        BY <2>2, <3>2
      <4>2. i # h + 1 /\ (i # 1 => i - 1 \in 1 .. h + 1 /\ i - 1 # h + 1)
        BY <2>1, <3>2
      <4> QED
        BY <4>1, <4>2
    <3> QED
      BY <2>1, <3>1, <3>2
  <2>4. u = [i \in 1 .. h + 1 |-> IF i = 1 THEN <<path[1]>> ELSE u[i - 1] \o piece(i)]
    BY <2>3
  <2> HIDE DEF u
  <2>5. Walked(u, path, h + 1)
    BY <1>w, <2>4
  <2> QED
    BY <2>5 DEF h
<1> HIDE DEF Defined
<1>3. n - 1 \in Nat /\ (n - 1) + 1 = n
  OBVIOUS
<1>4. n - 1 \in Defined
  BY <1>1, <1>2, <1>3, Inductive
<1> QED
  BY <1>3, <1>4 DEF Defined

(* The points of a piece along an axis, from its start to its end. *)
LEMMA PieceEnds ==
  ASSUME NEW p \in Points, NEW q \in Points, p[1] = q[1] \/ p[2] = q[2]
  PROVE  /\ PointAlong(p, q, 0) = p /\ PointAlong(p, q, Length(p, q)) = q
         /\ \A k \in Int : PointAlong(p, q, k) \in Points
<1>1. /\ p[1] \in Int /\ p[2] \in Int /\ q[1] \in Int /\ q[2] \in Int
      /\ p = <<p[1], p[2]>> /\ q = <<q[1], q[2]>>
  BY DEF Points
<1>2. ASSUME NEW a \in Int, NEW b \in Int
      PROVE  /\ Abs(b - a) \in Nat /\ Sign(b - a) \in Int /\ a + Abs(b - a) * Sign(b - a) = b
             /\ a = b => Abs(b - a) = 0 /\ Sign(b - a) = 0
             /\ \A k \in Int : k * Sign(b - a) \in Int
  BY DEF Abs, Sign
<1>3. PointAlong(p, q, 0) = p
  <2>1. p[1] + 0 * Sign(q[1] - p[1]) = p[1] /\ p[2] + 0 * Sign(q[2] - p[2]) = p[2]
    BY <1>1, <1>2
  <2> QED
    BY <1>1, <2>1 DEF PointAlong
<1>4. PointAlong(p, q, Length(p, q)) = q
  <2>1. CASE p[1] = q[1]
    <3>1. Length(p, q) = Abs(q[2] - p[2])
      BY <1>1, <1>2, <2>1 DEF Length
    <3>2. p[1] + Abs(q[2] - p[2]) * Sign(q[1] - p[1]) = q[1]
      BY <1>1, <1>2, <2>1
    <3> QED
      BY <1>1, <1>2, <3>1, <3>2 DEF PointAlong
  <2>2. CASE p[2] = q[2]
    <3>1. Length(p, q) = Abs(q[1] - p[1])
      BY <1>1, <1>2, <2>2 DEF Length
    <3>2. p[2] + Abs(q[1] - p[1]) * Sign(q[2] - p[2]) = q[2]
      BY <1>1, <1>2, <2>2
    <3> QED
      BY <1>1, <1>2, <3>1, <3>2 DEF PointAlong
  <2> QED
    BY <2>1, <2>2
<1>5. ASSUME NEW k \in Int PROVE PointAlong(p, q, k) \in Points
  <2>1. k * Sign(q[1] - p[1]) \in Int /\ k * Sign(q[2] - p[2]) \in Int
    BY <1>1, <1>2
  <2> QED
    BY <1>1, <2>1 DEF PointAlong, Points
<1> QED
  BY <1>3, <1>4, <1>5

(* So far the walk has come at point i: that many points, the last of them *)
(* this one, and those of each piece where the sum of ways places them.    *)
Reached(v, f, path, i) ==
  /\ v[i] \in Seq(Points) /\ Len(v[i]) = 1 + f[i] /\ v[i][1 + f[i]] = path[i]
  /\ \A j \in 1 .. i - 1 : \A k \in 0 .. Length(path[j], path[j + 1]) :
       v[i][1 + f[j] + k] = PointAlong(path[j], path[j + 1], k)

LEMMA WalkPoints ==
  ASSUME NEW path \in Seq(Points), NEW n \in Nat \ {0}, n = Len(path), Rectilinear(path),
         NEW f, Sums(f, 1, n, 0, Ways(path)), NEW v, Walked(v, path, n)
  PROVE  /\ Ways(path) \in [1 .. n -> Nat]
         /\ \A i \in 1 .. n - 1 : Ways(path)[i + 1] = Length(path[i], path[i + 1])
         /\ \A i \in 1 .. n : Reached(v, f, path, i)
<1> DEFINE w == Ways(path)
<1>1. \A i \in 1 .. n : path[i] \in Points
  BY ElementOfSeq
<1>2. ASSUME NEW i \in 1 .. n - 1
      PROVE  /\ i + 1 \in 1 .. n /\ i \in 1 .. n /\ path[i] \in Points /\ path[i + 1] \in Points
             /\ w[i + 1] = Length(path[i], path[i + 1]) /\ w[i + 1] \in Nat
             /\ path[i][1] = path[i + 1][1] \/ path[i][2] = path[i + 1][2]
  <2>1. i + 1 \in 1 .. n /\ i \in 1 .. n /\ i + 1 # 1 /\ (i + 1) - 1 = i
    OBVIOUS
  <2>2. w[i + 1] = Length(path[i], path[i + 1])
    BY <2>1 DEF Ways
  <2>3. path[i] \in Points /\ path[i + 1] \in Points
    BY <1>1, <2>1
  <2>4. w[i + 1] \in Nat
    BY <2>2, <2>3, DistanceType
  <2> QED
    BY <2>1, <2>2, <2>3, <2>4 DEF Rectilinear
<1>3. w \in [1 .. n -> Nat]
  <2>1. ASSUME NEW i \in 1 .. n PROVE w[i] \in Nat
    <3>1. CASE i = 1
      BY <3>1 DEF Ways
    <3>2. CASE i # 1
      <4>1. i - 1 \in 1 .. n - 1 /\ (i - 1) + 1 = i
        BY <3>2
      <4> QED
        BY <1>2, <4>1
    <3> QED
      BY <3>1, <3>2
  <2> QED
    BY <2>1 DEF Ways
<1> HIDE DEF w
<1>4. /\ f[1] = 0
      /\ \A i \in 1 .. n : f[i] \in Nat /\ \A j \in 1 .. i : f[j] <= f[i]
      /\ \A i \in 1 .. n - 1 : f[i + 1] = f[i] + w[i + 1]
  <2>1. Sums(f, 1, n, 0, w)
    BY DEF w
  <2> QED
    BY <1>3, <2>1, SumGrows DEF Grows
<1>5. Reached(v, f, path, 1)
  <2>1. v[1] = <<path[1]>>
    BY DEF Walked
  <2>2. path[1] \in Points /\ 1 + f[1] = 1 /\ 1 .. 1 - 1 = {}
    BY <1>1, <1>4
  <2> QED
    BY <2>1, <2>2 DEF Reached
<1>6. ASSUME NEW h \in 1 .. n - 1, Reached(v, f, path, h) PROVE Reached(v, f, path, h + 1)
  <2> DEFINE p == path[h]
             q == path[h + 1]
             L == Length(p, q)
             s == [k \in 1 .. L |-> PointAlong(p, q, k)]
             u == v[h]
  <2>1. /\ h + 1 \in 1 .. n /\ h \in 1 .. n /\ p \in Points /\ q \in Points
        /\ L \in Nat /\ w[h + 1] = L /\ (p[1] = q[1] \/ p[2] = q[2])
    BY <1>2
  <2>2. f[h + 1] = f[h] + L /\ f[h] \in Nat
    BY <1>4, <2>1
  <2>3. v[h + 1] = u \o s
    <3>1. h + 1 # 1 /\ (h + 1) - 1 = h
      OBVIOUS
    <3> QED
      BY <2>1, <3>1 DEF Walked
  <2>4. /\ u \in Seq(Points) /\ Len(u) = 1 + f[h] /\ u[1 + f[h]] = p
        /\ \A j \in 1 .. h - 1 : \A k \in 0 .. Length(path[j], path[j + 1]) :
             u[1 + f[j] + k] = PointAlong(path[j], path[j + 1], k)
    BY <1>6 DEF Reached
  <2>5. /\ PointAlong(p, q, 0) = p /\ PointAlong(p, q, L) = q
        /\ \A k \in Int : PointAlong(p, q, k) \in Points
    BY <2>1, PieceEnds
  <2> HIDE DEF L, p, q, u
  <2>6. s \in Seq(Points) /\ Len(s) = L /\ \A k \in 1 .. L : s[k] = PointAlong(p, q, k)
    <3>1. s \in [1 .. L -> Points]
      BY <2>5
    <3> QED
      BY <2>1, <3>1, SeqDef, LenProperties
  <2> HIDE DEF s
  <2>7. /\ u \o s \in Seq(Points) /\ Len(u \o s) = 1 + f[h + 1]
        /\ \A x \in 1 .. 1 + f[h] : (u \o s)[x] = u[x]
        /\ \A k \in 1 .. L : (u \o s)[1 + f[h] + k] = PointAlong(p, q, k)
    <3>1. /\ u \o s \in Seq(Points) /\ Len(u \o s) = Len(u) + Len(s)
          /\ \A x \in 1 .. Len(u) + Len(s) :
               (u \o s)[x] = IF x <= Len(u) THEN u[x] ELSE s[x - Len(u)]
      BY <2>4, <2>6, ConcatProperties
    <3>2. ASSUME NEW x \in 1 .. 1 + f[h] PROVE (u \o s)[x] = u[x]
      BY <2>1, <2>2, <2>4, <2>6, <3>1
    <3>3. ASSUME NEW k \in 1 .. L PROVE (u \o s)[1 + f[h] + k] = PointAlong(p, q, k)
      <4>1. /\ 1 + f[h] + k \in 1 .. Len(u) + Len(s) /\ ~ (1 + f[h] + k <= Len(u))
            /\ (1 + f[h] + k) - Len(u) = k
        BY <2>1, <2>2, <2>4, <2>6, SMTT(30)
      <4> QED
        BY <2>6, <3>1, <4>1
    <3>4. Len(u) + Len(s) = 1 + f[h + 1]
      <4>1. PICK a \in Nat : a = f[h]
        BY <2>2
      <4>2. f[h + 1] = a + L /\ Len(u) = 1 + a /\ Len(s) = L
        BY <2>2, <2>4, <2>6, <4>1
      <4> QED
        BY <2>1, <4>1, <4>2
    <3> QED
      BY <3>1, <3>2, <3>3, <3>4
  <2>8. ASSUME NEW k \in 0 .. L PROVE (u \o s)[1 + f[h] + k] = PointAlong(p, q, k)
    <3>1. CASE k = 0
      <4>1. 1 + f[h] + k = 1 + f[h] /\ 1 + f[h] \in 1 .. 1 + f[h]
        BY <2>2, <3>1
      <4> QED
        BY <2>4, <2>5, <2>7, <3>1, <4>1
    <3>2. CASE k # 0
      <4>1. k \in 1 .. L
        BY <2>1, <3>2
      <4> QED
        BY <2>7, <4>1, Zenon
    <3> QED
      BY <3>1, <3>2
  <2>9. (u \o s)[1 + f[h + 1]] = q
    <3>1. 1 + f[h + 1] = 1 + f[h] + L /\ L \in 0 .. L
      BY <2>1, <2>2
    <3> QED
      BY <2>5, <2>8, <3>1
  <2>10. ASSUME NEW j \in 1 .. h - 1, NEW k \in 0 .. Length(path[j], path[j + 1])
         PROVE  (u \o s)[1 + f[j] + k] = PointAlong(path[j], path[j + 1], k)
    <3>1. /\ j \in 1 .. n - 1 /\ j + 1 \in 1 .. h /\ j \in 1 .. n
      OBVIOUS
    <3>2. f[j + 1] = f[j] + Length(path[j], path[j + 1]) /\ Length(path[j], path[j + 1]) \in Nat
      BY <1>2, <1>4, <3>1
    <3>3. f[j] \in Nat /\ f[j + 1] <= f[h]
      BY <1>4, <2>1, <3>1
    <3>4. 1 + f[j] + k \in 1 .. 1 + f[h]
      BY <2>2, <3>2, <3>3, SMTT(30)
    <3> QED
      BY <2>4, <2>7, <3>4
  <2>11. ASSUME NEW j \in 1 .. (h + 1) - 1, NEW k \in 0 .. Length(path[j], path[j + 1])
         PROVE  (u \o s)[1 + f[j] + k] = PointAlong(path[j], path[j + 1], k)
    <3>1. CASE j = h
      BY <2>8, <3>1 DEF L, p, q
    <3>2. CASE j # h
      <4>1. j \in 1 .. h - 1
        BY <3>2
      <4> QED
        BY <2>10, <4>1
    <3> QED
      BY <3>1, <3>2
  <2> QED
    BY <2>3, <2>7, <2>9, <2>11 DEF Reached, q
<1>7. \A i \in 1 .. n : Reached(v, f, path, i)
  <2> DEFINE R(i) == Reached(v, f, path, i)
             Good == {m \in Nat : m + 1 <= n => R(m + 1)}
  <2>0. R(1) /\ \A h \in 1 .. n - 1 : R(h) => R(h + 1)
    BY <1>5, <1>6
  <2> HIDE DEF R
  <2>1. 0 \in Good
    BY <2>0
  <2>2. ASSUME NEW m \in Nat, m \in Good PROVE m + 1 \in Good
    <3> SUFFICES ASSUME (m + 1) + 1 <= n PROVE R((m + 1) + 1)
      OBVIOUS
    <3>1. m + 1 <= n /\ m + 1 \in 1 .. n - 1
      OBVIOUS
    <3>2. R(m + 1)
      BY <2>2, <3>1
    <3> QED
      BY <2>0, <3>1, <3>2
  <2>3. Nat \subseteq Good
    <3> HIDE DEF Good
    <3> QED
      BY <2>1, <2>2, Inductive
  <2>4. ASSUME NEW i \in 1 .. n PROVE R(i)
    <3>1. i - 1 \in Nat /\ (i - 1) + 1 = i /\ (i - 1) + 1 <= n
      OBVIOUS
    <3>2. R((i - 1) + 1)
      BY <2>3, <3>1, Zenon
    <3> QED
      BY <3>1, <3>2
  <2> QED
    BY <2>4 DEF R
<1> QED
  BY <1>2, <1>3, <1>7 DEF w

(* Of the points of a piece the projection is the only one as close. *)
LEMMA PieceClosest ==
  ASSUME NEW p \in Points, NEW q \in Points, NEW r \in Points, p[1] = q[1] \/ p[2] = q[2],
         NEW k \in 0 .. Length(p, q)
  PROVE  LET o == Projection(p, q, r) IN
           /\ o = PointAlong(p, q, Length(p, o))
           /\ Distance2(o, r) <= Distance2(PointAlong(p, q, k), r)
           /\ k # Length(p, o) => Distance2(o, r) < Distance2(PointAlong(p, q, k), r)
<1>1. /\ p[1] \in Int /\ p[2] \in Int /\ q[1] \in Int /\ q[2] \in Int
      /\ r[1] \in Int /\ r[2] \in Int
      /\ p = <<p[1], p[2]>> /\ q = <<q[1], q[2]>> /\ k \in Nat
  <2>1. Length(p, q) \in Nat
    BY DistanceType
  <2> QED
    BY <2>1 DEF Points
(* on one axis *)
<1>2. ASSUME NEW a \in Int, NEW b \in Int, NEW n \in Int, k <= Abs(b - a)
      PROVE  LET c == Clamp(n, a, b)
                 x == a + k * Sign(b - a)
             IN /\ c \in Int /\ x \in Int /\ c = a + Abs(c - a) * Sign(b - a)
                /\ (n - c) * (n - c) <= (n - x) * (n - x)
                /\ k # Abs(c - a) => (n - c) * (n - c) < (n - x) * (n - x)
  <2> DEFINE c == Clamp(n, a, b)
             x == a + k * Sign(b - a)
  <2>1. c \in Int /\ x \in Int /\ c = a + Abs(c - a) * Sign(b - a)
    BY <1>1 DEF Clamp, Abs, Sign
  <2>2. \/ x = c /\ k = Abs(c - a)
        \/ x < c /\ c <= n
        \/ c < x /\ n <= c
    BY <1>1, <1>2 DEF Clamp, Abs, Sign
  <2> HIDE DEF c, x
  <2>3. \A y, z \in Nat : y < z => y * y < z * z
    OBVIOUS
  <2>4. \A y \in Int : (n - y) * (n - y) = (y - n) * (y - n)
    OBVIOUS
  <2>5. CASE x < c /\ c <= n
    <3>1. n - c \in Nat /\ n - x \in Nat /\ n - c < n - x
      BY <2>1, <2>5
    <3> QED
      BY <2>1, <2>3, <3>1 DEF c, x
  <2>6. CASE c < x /\ n <= c
    <3>1. c - n \in Nat /\ x - n \in Nat /\ c - n < x - n
      BY <2>1, <2>6
    <3>2. (c - n) * (c - n) < (x - n) * (x - n)
      BY <2>3, <3>1
    <3> QED
      BY <2>1, <2>4, <3>2 DEF c, x
  <2>7. CASE x = c /\ k = Abs(c - a)
    BY <2>1, <2>7 DEF c, x
  <2> QED
    BY <2>2, <2>5, <2>6, <2>7
<1>3. ASSUME NEW a \in Int, NEW n \in Int, NEW j \in Int
      PROVE  /\ Clamp(n, a, a) = a /\ a + j * Sign(a - a) = a /\ Abs(a - a) = 0
  BY DEF Clamp, Sign, Abs
<1>4. ASSUME NEW a \in Int, NEW n \in Int PROVE (a - n) * (a - n) \in Nat
  BY SMT
<1> DEFINE cx == Clamp(r[1], p[1], q[1])
           cy == Clamp(r[2], p[2], q[2])
<1>6. CASE p[1] = q[1]
  <2>1. cx = p[1] /\ Abs(cx - p[1]) = 0 /\ Abs(q[1] - p[1]) = 0
    BY <1>1, <1>3, <1>6
  <2>2. k <= Abs(q[2] - p[2])
    <3>1. Abs(q[2] - p[2]) \in Int
      BY <1>1 DEF Abs
    <3> QED
      BY <1>1, <2>1, <3>1 DEF Length
  <2> DEFINE x == p[2] + k * Sign(q[2] - p[2])
  <2>3. /\ cy \in Int /\ x \in Int /\ cy = p[2] + Abs(cy - p[2]) * Sign(q[2] - p[2])
        /\ (r[2] - cy) * (r[2] - cy) <= (r[2] - x) * (r[2] - x)
        /\ k # Abs(cy - p[2]) => (r[2] - cy) * (r[2] - cy) < (r[2] - x) * (r[2] - x)
    BY <1>1, <1>2, <2>2
  <2>4. Length(p, <<cx, cy>>) = Abs(cy - p[2]) /\ Abs(cy - p[2]) \in Int
    <3>1. Abs(cy - p[2]) \in Int
      BY <1>1, <2>3 DEF Abs
    <3> QED
      BY <2>1, <3>1 DEF Length
  <2>5. \A j \in Int : p[1] + j * Sign(q[1] - p[1]) = p[1]
    BY <1>1, <1>3, <1>6
  <2>6. PointAlong(p, q, k) = <<p[1], x>>
    BY <1>1, <2>5 DEF PointAlong
  <2>7. PointAlong(p, q, Length(p, <<cx, cy>>)) = <<cx, cy>>
    BY <2>1, <2>3, <2>4, <2>5 DEF PointAlong
  <2> HIDE DEF x, cx, cy
  <2>8. /\ Distance2(<<cx, cy>>, r) = (r[1] - p[1]) * (r[1] - p[1]) + (r[2] - cy) * (r[2] - cy)
        /\ Distance2(<<p[1], x>>, r) = (r[1] - p[1]) * (r[1] - p[1]) + (r[2] - x) * (r[2] - x)
    BY <2>1 DEF Distance2
  <2>9. /\ (r[1] - p[1]) * (r[1] - p[1]) \in Nat /\ (r[2] - cy) * (r[2] - cy) \in Nat
        /\ (r[2] - x) * (r[2] - x) \in Nat
    BY <1>1, <1>4, <2>3
  <2> QED
    BY <2>3, <2>4, <2>6, <2>7, <2>8, <2>9 DEF Projection, cx, cy
<1>7. CASE p[2] = q[2]
  <2>1. cy = p[2] /\ Abs(cy - p[2]) = 0 /\ Abs(q[2] - p[2]) = 0
    BY <1>1, <1>3, <1>7
  <2>2. k <= Abs(q[1] - p[1])
    <3>1. Abs(q[1] - p[1]) \in Int
      BY <1>1 DEF Abs
    <3> QED
      BY <1>1, <2>1, <3>1 DEF Length
  <2> DEFINE x == p[1] + k * Sign(q[1] - p[1])
  <2>3. /\ cx \in Int /\ x \in Int /\ cx = p[1] + Abs(cx - p[1]) * Sign(q[1] - p[1])
        /\ (r[1] - cx) * (r[1] - cx) <= (r[1] - x) * (r[1] - x)
        /\ k # Abs(cx - p[1]) => (r[1] - cx) * (r[1] - cx) < (r[1] - x) * (r[1] - x)
    BY <1>1, <1>2, <2>2
  <2>4. Length(p, <<cx, cy>>) = Abs(cx - p[1]) /\ Abs(cx - p[1]) \in Int
    <3>1. Abs(cx - p[1]) \in Int
      BY <1>1, <2>3 DEF Abs
    <3> QED
      BY <2>1, <3>1 DEF Length
  <2>5. \A j \in Int : p[2] + j * Sign(q[2] - p[2]) = p[2]
    BY <1>1, <1>3, <1>7
  <2>6. PointAlong(p, q, k) = <<x, p[2]>>
    BY <1>1, <2>5 DEF PointAlong
  <2>7. PointAlong(p, q, Length(p, <<cx, cy>>)) = <<cx, cy>>
    BY <2>1, <2>3, <2>4, <2>5 DEF PointAlong
  <2> HIDE DEF x, cx, cy
  <2>8. /\ Distance2(<<cx, cy>>, r) = (r[1] - cx) * (r[1] - cx) + (r[2] - p[2]) * (r[2] - p[2])
        /\ Distance2(<<x, p[2]>>, r) = (r[1] - x) * (r[1] - x) + (r[2] - p[2]) * (r[2] - p[2])
    BY <2>1 DEF Distance2
  <2>9. /\ (r[2] - p[2]) * (r[2] - p[2]) \in Nat /\ (r[1] - cx) * (r[1] - cx) \in Nat
        /\ (r[1] - x) * (r[1] - x) \in Nat
    BY <1>1, <1>4, <2>3
  <2> QED
    BY <2>3, <2>4, <2>6, <2>7, <2>8, <2>9 DEF Projection, cx, cy
<1> QED
  BY <1>6, <1>7

(* A running sum that starts later, o past the point c. *)
Later(g, f, c, n, o) == g[c] = 0 /\ \A i \in c + 1 .. n : g[i] = f[i] - f[c] - o

LEMMA LaterSum ==
  ASSUME NEW n \in Nat, NEW c \in 1 .. n - 1, NEW w \in [1 .. n -> Nat], NEW u \in [c .. n -> Nat],
         NEW f, NEW g, Sums(f, 1, n, 0, w), Sums(g, c, n, 0, u), NEW o \in Int,
         u[c + 1] = w[c + 1] - o, \A i \in c + 2 .. n : u[i] = w[i]
  PROVE  Later(g, f, c, n, o)
<1>1. /\ \A i \in 1 .. n : f[i] \in Nat
      /\ \A i \in 1 .. n - 1 : f[i + 1] = f[i] + w[i + 1]
  <2>1. n \in Nat \ {0}
    OBVIOUS
  <2> QED
    BY <2>1, SumGrows, ZenonT(40) DEF Grows
<1>2. g[c] = 0 /\ \A i \in c .. n - 1 : g[i + 1] = g[i] + u[i + 1]
  <2>1. ASSUME NEW i \in c .. n PROVE g[i] = IF i = c THEN 0 ELSE g[i - 1] + u[i]
    BY DEF Sums
  <2>2. ASSUME NEW i \in c .. n - 1 PROVE g[i + 1] = g[i] + u[i + 1]
    <3>1. i + 1 \in c .. n /\ i + 1 # c /\ (i + 1) - 1 = i
      OBVIOUS
    <3> QED
      BY <2>1, <3>1
  <2> QED
    BY <2>1, <2>2
<1> DEFINE E(i) == g[i] = f[i] - f[c] - o
           Good == {m \in Nat : c + 1 + m <= n => E(c + 1 + m)}
<1>3. E(c + 1)
  <2>1. c \in c .. n - 1 /\ c \in 1 .. n - 1 /\ c + 1 \in 1 .. n
    OBVIOUS
  <2>2. g[c + 1] = 0 + u[c + 1] /\ f[c + 1] = f[c] + w[c + 1] /\ u[c + 1] = w[c + 1] - o
    BY <1>1, <1>2, <2>1
  <2>3. PICK x \in Int, y \in Int : x = f[c] /\ y = w[c + 1]
    <3>1. f[c] \in Int /\ w[c + 1] \in Int
      BY <1>1, <2>1
    <3> QED
      BY <3>1, Zenon
  <2>4. (x + y) - x - o = 0 + (y - o)
    OBVIOUS
  <2>5. g[c + 1] = 0 + (y - o) /\ f[c + 1] - f[c] - o = (x + y) - x - o
    BY <2>2, <2>3, Zenon
  <2> QED
    BY <2>4, <2>5, Zenon
<1>4. ASSUME NEW i \in c + 1 .. n - 1, E(i) PROVE E(i + 1)
  <2>1. /\ i \in c .. n - 1 /\ i \in 1 .. n - 1 /\ i + 1 \in c + 2 .. n /\ i \in 1 .. n
        /\ i + 1 \in 1 .. n
        /\ c \in 1 .. n
    OBVIOUS
  <2>2. g[i + 1] = g[i] + w[i + 1] /\ f[i + 1] = f[i] + w[i + 1]
    BY <1>1, <1>2, <2>1
  <2>3. PICK x \in Int, y \in Int, z \in Int : x = f[c] /\ y = w[i + 1] /\ z = f[i]
    <3>1. f[c] \in Int /\ f[i] \in Int
      <4>1. f[c] \in Nat /\ f[i] \in Nat
        BY <1>1, <2>1, Zenon
      <4> QED
        BY <4>1, SMTT(30)
    <3>2. w[i + 1] \in Int
      BY <2>1
    <3> QED
      BY <3>1, <3>2, Zenon
  <2>4. (z + y) - x - o = (z - x - o) + y
    OBVIOUS
  <2>5. g[i + 1] = (z - x - o) + y /\ f[i + 1] - f[c] - o = (z + y) - x - o
    BY <1>4, <2>2, <2>3, Zenon
  <2> QED
    BY <2>4, <2>5, Zenon
<1> HIDE DEF E
<1>5. Nat \subseteq Good
  <2>1. 0 \in Good
    BY <1>3
  <2>2. ASSUME NEW m \in Nat, m \in Good PROVE m + 1 \in Good
    <3> SUFFICES ASSUME c + 1 + (m + 1) <= n PROVE E(c + 1 + (m + 1))
      OBVIOUS
    <3>1. c + 1 + m \in c + 1 .. n - 1 /\ c + 1 + (m + 1) = (c + 1 + m) + 1
      OBVIOUS
    <3>2. E(c + 1 + m)
      BY <2>2, <3>1
    <3> QED
      BY <1>4, <3>1, <3>2
  <2> HIDE DEF Good
  <2> QED
    BY <2>1, <2>2, Inductive
<1>6. ASSUME NEW i \in c + 1 .. n PROVE E(i)
  <2>1. i - (c + 1) \in Nat /\ c + 1 + (i - (c + 1)) = i /\ c + 1 + (i - (c + 1)) <= n
    OBVIOUS
  <2>2. E(c + 1 + (i - (c + 1)))
    BY <1>5, <2>1, Zenon
  <2> QED
    BY <2>1, <2>2
<1> QED
  BY <1>2, <1>6 DEF E, Later

LEMMA WaysType ==
  ASSUME NEW path \in Seq(Points), NEW n \in Nat \ {0}, n = Len(path)
  PROVE  /\ Ways(path) \in [1 .. n -> Nat]
         /\ \A i \in 1 .. n - 1 : Ways(path)[i + 1] = Length(path[i], path[i + 1])
<1> DEFINE w == Ways(path)
<1>1. \A i \in 1 .. n : path[i] \in Points
  BY ElementOfSeq
<1>2. ASSUME NEW i \in 1 .. n - 1
      PROVE  w[i + 1] = Length(path[i], path[i + 1]) /\ w[i + 1] \in Nat
  <2>1. i + 1 \in 1 .. n /\ i \in 1 .. n /\ i + 1 # 1 /\ (i + 1) - 1 = i
    OBVIOUS
  <2>2. w[i + 1] = Length(path[i], path[i + 1])
    BY <2>1 DEF Ways
  <2>3. path[i] \in Points /\ path[i + 1] \in Points
    BY <1>1, <2>1
  <2> QED
    BY <2>2, <2>3, DistanceType
<1>3. ASSUME NEW i \in 1 .. n PROVE w[i] \in Nat
  <2>1. CASE i = 1
    BY <2>1 DEF Ways
  <2>2. CASE i # 1
    <3>1. i - 1 \in 1 .. n - 1 /\ (i - 1) + 1 = i
      BY <2>2
    <3> QED
      BY <1>2, <3>1
  <2> QED
    BY <2>1, <2>2
<1> QED
  BY <1>2, <1>3 DEF Ways

LEMMA WalkOf ==
  ASSUME NEW path \in Seq(Points), NEW n \in Nat \ {0}, n = Len(path)
  PROVE  \E v : Walked(v, path, n) /\ Walk(path) = v[n]
<1> DEFINE walked(g) == g = [i \in DOMAIN path |->
                          IF i = 1 THEN <<path[1]>>
                          ELSE g[i - 1] \o [k \in 1 .. Length(path[i - 1], path[i]) |->
                                              PointAlong(path[i - 1], path[i], k)]]
           v == CHOOSE g : walked(g)
<1>1. Walk(path) = v[n]
  BY DEF Walk
<1>2. DOMAIN path = 1 .. n
  BY LenProperties
<1>3. ASSUME NEW g PROVE Walked(g, path, n) <=> walked(g)
  BY <1>2 DEF Walked
<1>4. PICK g : Walked(g, path, n)
  BY WalkExists
<1> HIDE DEF walked
<1>5. walked(v)
  BY <1>3, <1>4
<1> QED
  BY <1>1, <1>3, <1>5

(* The walk holds the points of the path one unit apart: the sum of ways   *)
(* at the start of a piece says where its points are.                      *)
WalkFacts(w, path, n, f) ==
  /\ f \in [1 .. n -> Nat] /\ \A i \in 1 .. n : \A j \in 1 .. i : f[j] <= f[i]
  /\ \A j \in 1 .. n - 1 : /\ Length(path[j], path[j + 1]) \in Nat
                           /\ f[j + 1] = f[j] + Length(path[j], path[j + 1])
  /\ w \in Seq(Points) /\ Len(w) = 1 + f[n] /\ w[1 + f[n]] = path[n]
  /\ \A j \in 1 .. n - 1 : \A k \in 0 .. Length(path[j], path[j + 1]) :
       w[1 + f[j] + k] = PointAlong(path[j], path[j + 1], k)
  /\ \A x \in 1 .. Len(w) :
       \E j \in 1 .. n - 1 : \E k \in 0 .. Length(path[j], path[j + 1]) : x = 1 + f[j] + k

LEMMA WalkIs ==
  ASSUME NEW path \in Seq(Points), NEW n \in Nat \ {0}, n = Len(path), n > 1, Rectilinear(path),
         NEW f, Sums(f, 1, n, 0, Ways(path))
  PROVE  WalkFacts(Walk(path), path, n, f)
<1>1. PICK v : Walked(v, path, n) /\ Walk(path) = v[n]
  BY WalkOf
<1>2. Reached(v, f, path, n) /\ n \in 1 .. n
  BY <1>1, WalkPoints
<1>3. /\ Ways(path) \in [1 .. n -> Nat]
      /\ \A i \in 1 .. n - 1 : Ways(path)[i + 1] = Length(path[i], path[i + 1])
  BY WaysType
<1>4. /\ f \in [1 .. n -> Nat] /\ \A i \in 1 .. n : f[i] \in Nat /\ \A j \in 1 .. i : f[j] <= f[i]
      /\ \A i \in 1 .. n - 1 : f[i + 1] = f[i] + Ways(path)[i + 1]
      /\ \A x \in 0 .. f[n] : OnPiece(f, Ways(path), n, x)
  <2>1. Sums(f, 1, n, 0, Ways(path)) /\ n \in Nat \ {0}
    OBVIOUS
  <2> QED
    <3>1. Grows(f, Ways(path), n)
      BY <1>3, <2>1, SumGrows, Zenon
    <3> QED
      BY <1>2, <3>1, Zenon DEF Grows
<1>5. ASSUME NEW x \in 1 .. Len(Walk(path))
      PROVE  \E j \in 1 .. n - 1 : \E k \in 0 .. Length(path[j], path[j + 1]) : x = 1 + f[j] + k
  <2>1. x - 1 \in 0 .. f[n]
    BY <1>1, <1>2, <1>4 DEF Reached
  <2>2. PICK j \in 1 .. n - 1 : \E k \in 0 .. Ways(path)[j + 1] : x - 1 = f[j] + k
    BY <1>4, <2>1 DEF OnPiece
  <2>3. PICK k \in 0 .. Ways(path)[j + 1] : x - 1 = f[j] + k
    BY <2>2
  <2>4. x = 1 + f[j] + k
    <3>1. PICK a \in Nat : a = f[j]
      <4>1. j \in 1 .. n
        OBVIOUS
      <4> QED
        BY <1>4, <4>1, Zenon
    <3>2. k \in Int
      OBVIOUS
    <3>3. x - 1 = a + k
      BY <2>3, <3>1, Zenon
    <3>4. x = 1 + a + k
      BY <3>1, <3>2, <3>3, SMTT(30)
    <3> QED
      BY <3>1, <3>4, Zenon
  <2> QED
    BY <1>3, <2>4
<1>6. ASSUME NEW j \in 1 .. n - 1 PROVE Length(path[j], path[j + 1]) \in Nat
  <2>1. j + 1 \in 1 .. n /\ Ways(path)[j + 1] \in Nat
    BY <1>3
  <2> QED
    BY <1>3, <2>1
<1> QED
  BY <1>1, <1>2, <1>3, <1>4, <1>5, <1>6 DEF Reached, WalkFacts

(* The first of the closest points of the walk is the projection on the    *)
(* first of the closest segments.                                          *)
LEMMA WalkNearest ==
  ASSUME NEW path \in Seq(Points), NEW n \in Nat \ {0}, n = Len(path), n > 1, Rectilinear(path),
         NEW f, Sums(f, 1, n, 0, Ways(path)), NEW r \in Points
  PROVE  LET w == Walk(path)
             c == closest(path, r)
             p == Projection(path[c], path[c + 1], r)
             at == 1 + f[c] + Length(path[c], p)
             nearest == Min({Distance2(w[i], r) : i \in DOMAIN w})
         IN /\ at \in 1 .. Len(w) /\ w[at] = p
            /\ at = Min({i \in DOMAIN w : Distance2(w[i], r) = nearest})
<1> DEFINE w == Walk(path)
           c == closest(path, r)
           o(j) == Projection(path[j], path[j + 1], r)
           L(j) == Length(path[j], path[j + 1])
           B(j) == Length(path[j], o(j))
           at == 1 + f[c] + B(c)
           D(x) == Distance2(w[x], r)
           far == {D(i) : i \in DOMAIN w}
           first == {i \in DOMAIN w : D(i) = Min(far)}
<1>1. /\ f \in [1 .. n -> Nat] /\ \A i \in 1 .. n : \A j \in 1 .. i : f[j] <= f[i]
      /\ \A j \in 1 .. n - 1 : L(j) \in Nat /\ f[j + 1] = f[j] + L(j)
      /\ w \in Seq(Points) /\ Len(w) = 1 + f[n]
      /\ \A j \in 1 .. n - 1 : \A k \in 0 .. L(j) :
           w[1 + f[j] + k] = PointAlong(path[j], path[j + 1], k)
      /\ \A x \in 1 .. Len(w) : \E j \in 1 .. n - 1 : \E k \in 0 .. L(j) : x = 1 + f[j] + k
  <2>1. WalkFacts(Walk(path), path, n, f)
    BY WalkIs, Zenon
  <2> QED
    BY <2>1 DEF WalkFacts
<1>2. /\ c \in 1 .. n - 1
      /\ \A j \in 1 .. n - 1 : /\ Distance2(o(j), r) \in Nat
                               /\ Distance2(o(c), r) <= Distance2(o(j), r)
                               /\ j < c => Distance2(o(c), r) < Distance2(o(j), r)
  BY ClosestIs
<1>3. \A j \in 1 .. n - 1 : /\ path[j] \in Points /\ path[j + 1] \in Points
                            /\ path[j][1] = path[j + 1][1] \/ path[j][2] = path[j + 1][2]
  BY ElementOfSeq DEF Rectilinear
<1>4. ASSUME NEW j \in 1 .. n - 1
      PROVE  /\ B(j) \in 0 .. L(j) /\ o(j) = PointAlong(path[j], path[j + 1], B(j))
             /\ \A k \in 0 .. L(j) :
                  LET x == PointAlong(path[j], path[j + 1], k)
                  IN /\ Distance2(o(j), r) <= Distance2(x, r)
                     /\ k # B(j) => Distance2(o(j), r) < Distance2(x, r)
  <2>1. /\ path[j] \in Points /\ path[j + 1] \in Points
        /\ path[j][1] = path[j + 1][1] \/ path[j][2] = path[j + 1][2]
    BY <1>3
  <2>2. o(j) \in Points /\ B(j) + Length(o(j), path[j + 1]) = L(j)
    BY <2>1, ProjectionType
  <2>3. B(j) \in Nat /\ Length(o(j), path[j + 1]) \in Nat /\ L(j) \in Nat
    BY <2>1, <2>2, DistanceType
  <2>4. B(j) \in 0 .. L(j)
    BY <2>2, <2>3
  <2> QED
    BY <2>1, <2>4, PieceClosest
<1> HIDE DEF w, c, o, L, B
<1>5. \A x \in 1 .. Len(w) : D(x) \in Nat
  BY <1>1, ElementOfSeq, DistanceType
<1>6. DOMAIN w = 1 .. Len(w) /\ Len(w) \in Nat
  BY <1>1, LenProperties
<1>7. at \in 1 .. Len(w) /\ w[at] = o(c)
  <2>1. B(c) \in 0 .. L(c) /\ c \in 1 .. n /\ c + 1 \in 1 .. n /\ n \in 1 .. n /\ c + 1 \in 1 .. n
    BY <1>2, <1>4
  <2>2. f[c] \in Nat /\ f[c + 1] \in Nat /\ f[n] \in Nat /\ f[c + 1] <= f[n]
    <3>1. c + 1 \in 1 .. n
      BY <1>2
    <3> QED
      BY <1>1, <2>1, <3>1
  <2>3. L(c) \in Nat /\ f[c + 1] = f[c] + L(c)
    BY <1>1, <1>2, Zenon
  <2>4. at \in 1 .. Len(w)
    <3>1. PICK x \in Nat, y \in Nat : x = f[c] /\ y = f[n]
      BY <2>2, Zenon
    <3>2. x + L(c) <= y /\ Len(w) = 1 + y /\ at = 1 + x + B(c)
      BY <1>1, <2>2, <2>3, <3>1, Zenon
    <3> QED
      BY <2>1, <2>3, <3>1, <3>2, SMTT(30)
  <2>5. w[at] = PointAlong(path[c], path[c + 1], B(c))
    BY <1>1, <1>2, <2>1, Zenon
  <2> QED
    BY <1>2, <1>4, <2>4, <2>5
<1>8. ASSUME NEW x \in 1 .. Len(w)
      PROVE  Distance2(o(c), r) <= D(x) /\ (x < at => Distance2(o(c), r) < D(x))
  <2>1. PICK j \in 1 .. n - 1 : \E k \in 0 .. L(j) : x = 1 + f[j] + k
    BY <1>1, Zenon
  <2>2. PICK k \in 0 .. L(j) : x = 1 + f[j] + k
    BY <2>1
  <2>3. D(x) = Distance2(PointAlong(path[j], path[j + 1], k), r)
    BY <1>1, <2>2, Zenon
  <2>4. /\ Distance2(o(j), r) <= D(x)
        /\ k # B(j) => Distance2(o(j), r) < D(x)
    BY <1>4, <2>3
  <2>5. /\ Distance2(o(j), r) \in Nat /\ Distance2(o(c), r) \in Nat /\ D(x) \in Nat
        /\ Distance2(o(c), r) <= Distance2(o(j), r)
        /\ j < c => Distance2(o(c), r) < Distance2(o(j), r)
    BY <1>2, <1>5
  <2>6. ASSUME x < at PROVE j < c \/ (j = c /\ k # B(j))
    <3>1. j \in 1 .. n /\ c \in 1 .. n /\ B(c) \in 0 .. L(c) /\ c + 1 \in 1 .. n
      BY <1>2, <1>4
    <3>2. /\ f[j] \in Nat /\ f[c] \in Nat /\ L(c) \in Nat /\ L(j) \in Nat
          /\ f[c + 1] = f[c] + L(c) /\ f[c + 1] \in Nat
      BY <1>1, <1>2, <3>1
    <3>3. CASE j > c
      <4>1. c + 1 \in 1 .. j
        BY <1>2, <3>3
      <4>2. f[c + 1] <= f[j]
        BY <1>1, <3>1, <4>1, Zenon
      <4>3. PICK a \in Nat, b \in Nat : a = f[j] /\ b = f[c]
        BY <3>2, Zenon
      <4>4. b + L(c) <= a /\ x = 1 + a + k /\ x < 1 + b + B(c)
        BY <2>2, <2>6, <3>2, <4>2, <4>3, Zenon
      <4>5. B(c) <= L(c) /\ B(c) \in Nat /\ k \in Nat
        BY <2>2, <3>1, <3>2
      <4>6. L(c) \in Nat /\ x \in Int
        BY <3>2
      <4>a. \A xa, xb, xl, xe, xk \in Nat : xb + xl <= xa /\ xe <= xl
            => ~ (1 + xa + xk < 1 + xb + xe)
        OBVIOUS
      <4>7. FALSE
        BY <4>3, <4>4, <4>5, <4>6, <4>a, Zenon
      <4> QED
        BY <4>7
    <3>4. CASE j = c
      BY <2>2, <2>6, <3>4
    <3> QED
      BY <1>2, <3>3, <3>4
  <2>7. Distance2(o(c), r) <= D(x)
    BY <2>4, <2>5
  <2>8. ASSUME x < at PROVE Distance2(o(c), r) < D(x)
    <3>1. CASE j < c
      BY <2>4, <2>5, <3>1
    <3>2. CASE j = c /\ k # B(j)
      BY <2>4, <3>2
    <3> QED
      BY <2>6, <2>8, <3>1, <3>2
  <2> QED
    BY <2>7, <2>8
<1> HIDE DEF D, at
<1>9. Min(far) = Distance2(o(c), r)
  <2>1. far \in SUBSET Nat
    BY <1>5, <1>6
  <2>2. D(at) = Distance2(o(c), r) /\ D(at) \in far
    BY <1>6, <1>7 DEF D
  <2>3. Min(far) \in far /\ \A y \in far : Min(far) <= y
    BY <2>1, <2>2, MinOf, Zenon
  <2>4. Min(far) <= Distance2(o(c), r)
    BY <2>2, <2>3
  <2>5. Distance2(o(c), r) <= Min(far)
    BY <1>6, <1>8, <2>3
  <2>6. Min(far) \in Nat /\ Distance2(o(c), r) \in Nat
    BY <2>1, <2>2, <2>3
  <2> QED
    BY <2>4, <2>5, <2>6
<1> HIDE DEF far
<1>10. at = Min(first)
  <2>1. at \in first
    BY <1>6, <1>7, <1>9 DEF D
  <2>2. first \in SUBSET Nat
    BY <1>6
  <2>3. Min(first) \in first /\ Min(first) <= at
    BY <2>1, <2>2, MinOf, Zenon
  <2>4. Min(first) \in 1 .. Len(w) /\ D(Min(first)) = Distance2(o(c), r)
    BY <1>6, <1>9, <2>3
  <2>5. Distance2(o(c), r) \in Nat
    BY <1>2
  <2>6. ~ (Min(first) < at)
    BY <1>8, <2>4, <2>5
  <2> QED
    BY <1>7, <2>3, <2>4, <2>6
<1> QED
  BY <1>7, <1>10 DEF w, c, o, at, D, far, B

(* The planner's lookahead is the point so far along the plan. *)
THEOREM LookaheadWalks ==
  ASSUME NEW path \in Seq(Points), Len(path) > 1, Rectilinear(path),
         NEW r \in Points, NEW d \in Nat \ {0}
  PROVE  lookahead_on_path(path, r, d) = Ahead(path, r, d)
<1> DEFINE n == Len(path)
           c == closest(path, r)
           p == Projection(path[c], path[c + 1], r)
           o == Length(path[c], p)
           w == Walk(path)
           L(j) == Length(path[j], path[j + 1])
<1>1. n \in Nat \ {0} /\ n > 1
  BY LenProperties
<1>2. PICK f : Sums(f, 1, n, 0, Ways(path))
  <2>1. 1 \in Nat /\ n \in Nat /\ 1 <= n /\ 0 \in Int /\ Ways(path) \in [1 .. n -> Int]
    <3>1. Ways(path) \in [1 .. n -> Nat]
      BY <1>1, WaysType
    <3> QED
      BY <1>1, <3>1
  <2> QED
    BY <2>1, SumExists, Zenon
<1> DEFINE at == 1 + f[c] + o
<1>3. /\ f \in [1 .. n -> Nat] /\ \A i \in 1 .. n : \A j \in 1 .. i : f[j] <= f[i]
      /\ \A j \in 1 .. n - 1 : L(j) \in Nat /\ f[j + 1] = f[j] + L(j)
      /\ w \in Seq(Points) /\ Len(w) = 1 + f[n] /\ w[1 + f[n]] = path[n]
      /\ \A j \in 1 .. n - 1 : \A k \in 0 .. L(j) :
           w[1 + f[j] + k] = PointAlong(path[j], path[j + 1], k)
  <2>1. Len(path) = n
    OBVIOUS
  <2> HIDE DEF n
  <2>2. WalkFacts(Walk(path), path, n, f)
    BY <1>1, <1>2, <2>1, WalkIs, Zenon
  <2> QED
    BY <2>2 DEF WalkFacts
<1>4. /\ at \in 1 .. Len(w) /\ w[at] = p
      /\ Ahead(path, r, d) = w[Min({at + d, Len(w)})]
  <2>1. LET nearest == Min({Distance2(w[i], r) : i \in DOMAIN w})
        IN /\ at \in 1 .. Len(w) /\ w[at] = p
           /\ at = Min({i \in DOMAIN w : Distance2(w[i], r) = nearest})
    BY <1>1, <1>2, WalkNearest
  <2> QED
    BY <2>1 DEF Ahead
<1>5. PICK acc : LET ends == {i \in c .. n - 1 : acc[i + 1] >= d}
                     m == Min(ends)
                 IN /\ Sums(acc, c, n, 0, Onward(path, r))
                    /\ lookahead_on_path(path, r, d) =
                         IF ends = {} THEN path[n]
                         ELSE PointAlong(IF m = c THEN p ELSE path[m], path[m + 1], d - acc[m])
  BY PlannerWalks
<1>6. /\ Onward(path, r) \in [c .. n -> Nat]
      /\ \A i \in c .. n - 1 : Onward(path, r)[i + 1] = L(i) - IF i = c THEN o ELSE 0
  BY PlannerWalks
<1>7. /\ c \in 1 .. n - 1 /\ c \in Nat /\ path[c] \in Points /\ path[c + 1] \in Points
      /\ path[c][1] = path[c + 1][1] \/ path[c][2] = path[c + 1][2]
  <2>1. c \in 1 .. n - 1
    BY ClosestIs
  <2>2. \A i \in 1 .. n : path[i] \in Points
    BY ElementOfSeq
  <2> HIDE DEF c
  <2>3. c \in Nat /\ c \in 1 .. n /\ c + 1 \in 1 .. n
    BY <1>1, <2>1
  <2> QED
    BY <2>1, <2>2, <2>3 DEF Rectilinear
<1>8. o \in Nat /\ o <= L(c) /\ Length(p, path[c + 1]) = L(c) - o
  <2>1. p \in Points /\ o + Length(p, path[c + 1]) = L(c)
    BY <1>7, ProjectionType
  <2>2. o \in Nat /\ Length(p, path[c + 1]) \in Nat /\ L(c) \in Nat
    BY <1>7, <2>1, DistanceType
  <2> QED
    BY <2>1, <2>2
<1>9. acc[c] = 0 /\ \A i \in c + 1 .. n : acc[i] = f[i] - f[c] - o
  <2> DEFINE W == Ways(path)
             U == Onward(path, r)
  <2>1. W \in [1 .. n -> Nat] /\ \A i \in 1 .. n - 1 : W[i + 1] = L(i)
    BY <1>1, WaysType
  <2> HIDE DEF W, U, L, n, c, o, p
  <2>2. U[c + 1] = W[c + 1] - o
    <3>1. c \in c .. n - 1
      BY <1>1, <1>7
    <3> QED
      BY <1>6, <1>7, <2>1, <3>1 DEF U
  <2>3. ASSUME NEW i \in c + 2 .. n PROVE U[i] = W[i]
    <3>1. i - 1 \in c .. n - 1 /\ i - 1 \in 1 .. n - 1 /\ (i - 1) + 1 = i /\ i - 1 # c
      BY <1>1, <1>7
    <3>2. U[(i - 1) + 1] = L(i - 1) - 0 /\ W[(i - 1) + 1] = L(i - 1)
      BY <1>6, <2>1, <3>1 DEF U
    <3>3. L(i - 1) \in Nat
      BY <1>3, <3>1
    <3> QED
      BY <3>1, <3>2, <3>3
  <2>4. /\ n \in Nat /\ o \in Int /\ Sums(f, 1, n, 0, W) /\ Sums(acc, c, n, 0, U)
        /\ U \in [c .. n -> Nat]
    BY <1>1, <1>2, <1>5, <1>6, <1>8 DEF U, W
  <2>5. n \in Nat /\ c \in 1 .. n - 1 /\ W \in [1 .. n -> Nat] /\ U \in [c .. n -> Nat] /\ o \in Int
    BY <1>7, <2>1, <2>4
  <2>6. Sums(f, 1, n, 0, W) /\ Sums(acc, c, n, 0, U)
    BY <2>4
  <2>7. \A i \in c + 2 .. n : U[i] = W[i]
    BY <2>3
  <2> QED
    <3>1. Later(acc, f, c, n, o)
      BY <2>2, <2>5, <2>6, <2>7, LaterSum, Zenon
    <3> QED
      BY <3>1 DEF Later
<1> DEFINE ends == {i \in c .. n - 1 : acc[i + 1] >= d}
           m == Min(ends)
<1>10. lookahead_on_path(path, r, d) =
         IF ends = {} THEN path[n]
         ELSE PointAlong(IF m = c THEN p ELSE path[m], path[m + 1], d - acc[m])
  BY <1>5
<1>p. \A k \in Nat \ {0} : k <= Length(p, path[c + 1]) =>
        PointAlong(p, path[c + 1], k) = PointAlong(path[c], path[c + 1], o + k)
  BY <1>7, AlongPiece, Zenon
<1> HIDE DEF w, c, p, o, L, n
<1>11. PICK x \in Nat : x = f[c]
  <2>1. c \in 1 .. n
    BY <1>1, <1>7
  <2>2. f[c] \in Nat
    BY <1>3, <2>1
  <2> QED
    BY <2>2, Zenon
<1>12. at = 1 + x + o /\ at + d \in Nat
  BY <1>8, <1>11
<1> HIDE DEF at
<1> DEFINE Here(i, y, z) == /\ y \in Nat /\ z \in Nat /\ z = y + L(i)
                            /\ y = f[i] /\ z = f[i + 1] /\ acc[i + 1] = z - x - o
                            /\ i # c => acc[i] = y - x - o
<1>13. ASSUME NEW i \in c .. n - 1
       PROVE  Here(i, f[i], f[i + 1])
  <2>1. /\ i \in 1 .. n - 1 /\ i \in 1 .. n /\ i + 1 \in 1 .. n /\ i + 1 \in c + 1 .. n
        /\ i # c => i \in c + 1 .. n
    BY <1>1, <1>7
  <2>2. f[i] \in Nat /\ f[i + 1] \in Nat /\ f[i + 1] = f[i] + L(i)
    BY <1>3, <2>1
  <2>3. acc[i + 1] = f[i + 1] - x - o /\ (i # c => acc[i] = f[i] - x - o)
    BY <1>9, <1>11, <2>1, Zenon
  <2> QED
    BY <2>2, <2>3, Zenon
<1>14. CASE ends = {}
  <2>1. n - 1 \in c .. n - 1 /\ (n - 1) + 1 = n /\ n - 1 \notin ends
    <3>1. n - 1 \in c .. n - 1 /\ (n - 1) + 1 = n
      BY <1>1, <1>7
    <3> QED
      BY <1>14, <3>1
  <2>2. PICK y, z \in Nat : z = f[n] /\ acc[n] = z - x - o
    <3>1. Here(n - 1, f[n - 1], f[(n - 1) + 1])
      BY <1>13, <2>1, Zenon
    <3> QED
      BY <2>1, <3>1, Zenon DEF Here
  <2>3. z - x - o < d
    BY <1>8, <1>11, <2>1, <2>2
  <2>4. Len(w) = 1 + z /\ w[1 + z] = path[n]
    BY <1>3, <2>2, Zenon
  <2>5. Min({at + d, Len(w)}) = Len(w)
    <3>1. \A e, a, k, b \in Nat : e - a - k < b => 1 + e <= 1 + a + k + b
      OBVIOUS
    <3>2. z \in Nat /\ x \in Nat /\ o \in Nat /\ d \in Nat
      BY <1>8, <1>11, <2>2
    <3>3. 1 + z <= at + d
      BY <1>12, <2>3, <3>1, <3>2, Zenon
    <3> QED
      BY <1>12, <2>2, <2>4, <3>3 DEF Min
  <2> QED
    BY <1>4, <1>10, <1>14, <2>4, <2>5
<1>15. CASE ends # {}
  <2>1. m \in ends /\ \A i \in ends : m <= i
    <3>1. ends \in SUBSET Nat
      BY <1>7
    <3> HIDE DEF ends
    <3> QED
      BY <1>15, <3>1, MinOf
  <2> HIDE DEF m
  <2>2. m \in c .. n - 1 /\ acc[m + 1] >= d
    BY <2>1
  <2>3. PICK y, z : Here(m, y, z)
    BY <1>13, <2>2, Zenon
  <2>a. y \in Nat /\ z \in Nat /\ z = y + L(m) /\ y = f[m] /\ z = f[m + 1]
    BY <2>3, Zenon DEF Here
  <2>b. acc[m + 1] = z - x - o /\ (m # c => acc[m] = y - x - o)
    BY <2>3, Zenon DEF Here
  <2>4. z - x - o >= d
    BY <2>2, <2>b, Zenon
  <2>5. L(m) \in Nat /\ m \in 1 .. n - 1
    BY <1>3, <1>7, <2>2
  <2>6. Min({at + d, Len(w)}) = at + d
    <3>1. z <= f[n]
      <4>1. m + 1 \in 1 .. n /\ n \in 1 .. n
        BY <1>1, <2>5
      <4>2. f[m + 1] <= f[n]
        BY <1>3, <4>1, Zenon
      <4> QED
        BY <2>a, <4>2, Zenon
    <3>2. PICK t \in Nat : t = f[n]
      <4>1. n \in 1 .. n
        BY <1>1
      <4>2. f[n] \in Nat
        BY <1>3, <4>1
      <4> QED
        BY <4>2, Zenon
    <3>3. Len(w) = 1 + t /\ z <= t
      BY <1>3, <3>1, <3>2, Zenon
    <3>4. at + d <= 1 + t
      BY <1>8, <1>12, <2>4, <2>a, <3>3
    <3> QED
      BY <1>12, <3>2, <3>3, <3>4 DEF Min
  <2>7. ASSUME NEW k \in 0 .. L(m), at + d = 1 + y + k
        PROVE  Ahead(path, r, d) = PointAlong(path[m], path[m + 1], k)
    <3>1. Ahead(path, r, d) = w[1 + y + k]
      BY <1>4, <2>6, <2>7
    <3>2. w[1 + f[m] + k] = PointAlong(path[m], path[m + 1], k)
      BY <1>3, <2>5, Zenon
    <3> QED
      BY <2>a, <3>1, <3>2, Zenon
  <2>8. CASE m = c
    <3>1. y = x /\ z - x - o = L(m) - o /\ o + d \in 0 .. L(m) /\ at + d = 1 + y + (o + d)
      <4>1. y = x
        BY <1>11, <2>8, <2>a, Zenon
      <4> QED
        BY <1>8, <1>12, <2>4, <2>5, <2>8, <2>a, <4>1
    <3>2. Ahead(path, r, d) = PointAlong(path[c], path[c + 1], o + d)
      BY <2>7, <2>8, <3>1, Zenon
    <3>3. d <= Length(p, path[c + 1])
      BY <1>8, <2>4, <2>5, <2>8, <2>a, <3>1
    <3>4. lookahead_on_path(path, r, d) = PointAlong(p, path[c + 1], d - 0)
      BY <1>9, <1>10, <1>15, <2>8
    <3>5. d - 0 = d
      OBVIOUS
    <3> QED
      BY <1>p, <3>2, <3>3, <3>4, <3>5
  <2>9. CASE m # c
    <3>1. acc[m] = y - x - o /\ y - x - o < d
      <4>1. m - 1 \in c .. n - 1 /\ (m - 1) + 1 = m /\ ~ (m <= m - 1)
        BY <1>1, <1>7, <2>2, <2>9
      <4>2. m - 1 \notin ends
        BY <2>1, <4>1
      <4>3. ~ (acc[m] >= d)
        BY <4>1, <4>2
      <4>4. acc[m] = y - x - o
        BY <2>9, <2>b, Zenon
      <4>5. ~ (y - x - o >= d)
        BY <4>3, <4>4, Zenon
      <4> QED
        BY <1>8, <2>a, <4>4, <4>5
    <3>2. d - (y - x - o) \in 0 .. L(m) /\ at + d = 1 + y + (d - (y - x - o))
      <4>1. \A i, j, k, l \in Nat : (j + l) - i - k >= d /\ j - i - k < d =>
              /\ d - (j - i - k) \in 0 .. l
              /\ (1 + i + k) + d = 1 + j + (d - (j - i - k))
        OBVIOUS
      <4>2. x \in Nat /\ y \in Nat /\ o \in Nat /\ L(m) \in Nat /\ (y + L(m)) - x - o >= d
        BY <1>8, <2>4, <2>5, <2>a
      <4> QED
        BY <1>12, <3>1, <4>1, <4>2
    <3>3. Ahead(path, r, d) = PointAlong(path[m], path[m + 1], d - (y - x - o))
      BY <2>7, <3>2, Zenon
    <3>4. lookahead_on_path(path, r, d) = PointAlong(path[m], path[m + 1], d - acc[m])
      BY <1>10, <1>15, <2>9
    <3> QED
      BY <3>1, <3>3, <3>4
  <2> QED
    BY <2>8, <2>9
<1> QED
  BY <1>14, <1>15

(* What the topic of a path carries, and what its collector holds. *)
Plans == {path \in Seq(Points) : Rectilinear(path)}

Following ==
  Up => /\ \A d \in ToSet(manifest.datasources) :
             /\ d.type = Path => \A msg \in Messages[d.params.topic] : msg.path \in Plans
             /\ d.type = Subgoal => d.params.lookahead \in Nat
        /\ \A c \in Collectors(manifest) : type(manifest, c) = Path /\ ~ cells[c].stale =>
             cells[c].value \in Plans

LEMMA SetupFollows ==
  ASSUME Built, Idle, Setup
  PROVE  Following'
<1> SUFFICES ASSUME Up' PROVE Following'
  BY DEF Following
<1>1. manifest \in Manifests
  BY DEF Setup, Idle, Up
<1> DEFINE m == IF "pose" \notin Revealed THEN withhold_pose(manifest) ELSE manifest
<1>2. /\ manifest' = m
      /\ cells' = [c \in Collectors(m) |->
                     [msg |-> EmptyMessage, stale |-> TRUE,
                      value |-> _preprocess(datasource(m, c), EmptyMessage)]]
  <2>1. phase' # "refused"
    BY DEF Up
  <2> QED
    BY <2>1 DEF Setup
<1>3. ToSet(m.datasources) \subseteq ToSet(manifest.datasources)
  BY <1>1, Withholding
<1>4. \A d \in ToSet(manifest.datasources) :
        /\ d.type = Path => \A msg \in Messages[d.params.topic] : msg.path \in Plans
        /\ d.type = Subgoal => d.params.lookahead \in Nat
  BY <1>1, PlansAssumption DEF Plans, Points
<1> HIDE DEF m
<1>5. \A c \in Collectors(m) : cells'[c].stale
  BY <1>2
<1> QED
  BY <1>2, <1>3, <1>4, <1>5 DEF Following

LEMMA DeliverFollows ==
  ASSUME Built, Following, NEW c \in DOMAIN cells, Deliver(c)
  PROVE  Following'
<1> DEFINE d == datasource(manifest, c)
<1>1. PICK msg \in Messages[params(manifest, c).topic] :
        cells' = [cells EXCEPT ![c] = update(d, @, msg)]
  BY DEF Deliver
<1>2. Up /\ UNCHANGED manifest
  BY DEF Deliver, Up
<1>3. /\ \A x \in DOMAIN cells : x # c => cells'[x] = cells[x]
      /\ cells'[c] = update(d, cells[c], msg) /\ DOMAIN cells = Collectors(manifest)
      /\ DOMAIN cells[c] = {"msg", "value", "stale"}
  BY <1>1, <1>2 DEF Built
<1>4. type(manifest, c) = Path => cells'[c].value \in Plans
  <2> SUFFICES ASSUME d.type = Path PROVE cells'[c].value \in Plans
    BY DEF type
  <2>1. d.type \notin {Image, CompressedImage, LaserScan, OccupancyGrid, PoseStamped}
    BY DEF Image, CompressedImage, LaserScan, OccupancyGrid, PoseStamped, Path
  <2>2. ~ raises(d, msg)
    BY <2>1 DEF raises
  <2>3. cells'[c].value = msg.path
    BY <1>3, <2>1, <2>2 DEF update, _preprocess
  <2>4. d \in ToSet(manifest.datasources)
    BY <1>2, <1>3, CollectedTypes
  <2> QED
    BY <1>2, <2>3, <2>4 DEF Following, params
<1>5. \A x \in Collectors(manifest) : type(manifest, x) = Path /\ ~ cells'[x].stale =>
        cells'[x].value \in Plans
  BY <1>2, <1>3, <1>4 DEF Following
<1> QED
  BY <1>2, <1>5 DEF Following, Up, type, datasource

LEMMA OtherFollows ==
  ASSUME Built, Following, Collect \/ Reset \/ Shutdown \/ UNCHANGED vars
  PROVE  Following'
<1> SUFFICES ASSUME Up' PROVE Following'
  BY DEF Following
<1>1. CASE Reset
  <2>1. Up /\ UNCHANGED manifest /\ DOMAIN cells = Collectors(manifest)
    BY <1>1 DEF Reset, Up, Built
  <2>2. \A c \in DOMAIN cells : /\ cells'[c].value = cells[c].value
                                /\ ~ cells'[c].stale => ~ cells[c].stale
    BY <1>1, <2>1 DEF Reset, Built
  <2> QED
    BY <2>1, <2>2 DEF Following, type, datasource
<1>2. CASE Collect \/ Shutdown \/ UNCHANGED vars
  <2>1. Up /\ UNCHANGED <<manifest, cells>>
    BY <1>2 DEF Collect, Shutdown, Up, vars
  <2> QED
    BY <2>1 DEF Following, type, datasource
<1> QED
  BY <1>1, <1>2

LEMMA CollectAgrees ==
  ASSUME Built, Following, Collect
  PROVE  LookaheadsAgree'
<1> SUFFICES ASSUME NEW n \in DOMAIN obs', obs' # None, (type(manifest, source(n)) = Path)',
                    obs'[n] \notin {None, <<>>}, Len(obs'[n]) > 1,
                    NEW r \in Poses, NEW d \in 1 .. 12
             PROVE  /\ lookahead_on_path(obs'[n], r, d) = Ahead(obs'[n], r, d)
                    /\ chunk_lookahead(obs'[n], r, d) = Ahead(obs'[n], r, d)
  BY DEF LookaheadsAgree, Observed
<1>1. PICK readings \in [1 .. Cardinality(DOMAIN tf) -> Poses \union {None}],
           short \in SUBSET Roundings :
        LET s == collect(readings, short)
        IN obs' = IF s.raised THEN None ELSE wire(s.out)
  BY DEF Collect
<1> DEFINE s == collect(readings, short)
           c == source(n)
<1>2. Up /\ UNCHANGED <<manifest, pipeline, cells>>
  BY DEF Collect, Up
<1>3. ~ s.raised /\ n \in DOMAIN s.out /\ obs'[n] = s.out[n]
  BY <1>1 DEF wire
<1>4. Collecting(s, Len(pipeline.generators))
  BY <1>2, CollectCollects
<1>5. datasource(manifest, c).type = Path
  BY <1>2 DEF type, datasource, source
<1> HIDE DEF s, c
<1>6. CASE c \in Generated(manifest)
  <2>1. datasource(manifest, c).type \in GeneratorTypes
    BY <1>2, <1>6, GeneratedTypes
  <2> QED
    BY <1>5, <2>1 DEF GeneratorTypes, RobotPose, Subgoal, Path
<1>7. CASE c \in Collectors(manifest) /\ s.out[n] = get_observation(cells[c])
  <2>1. ~ cells[c].stale /\ obs'[n] = cells[c].value
    BY <1>3, <1>7 DEF get_observation
  <2>2. obs'[n] \in Seq(Points) /\ Rectilinear(obs'[n])
    BY <1>2, <1>5, <1>7, <2>1 DEF Following, type, Plans
  <2>3. r \in Points /\ d \in Nat \ {0}
    BY PlansAssumption DEF Points
  <2> QED
    BY <2>2, <2>3, LookaheadWalks, LookaheadsMeet
<1> QED
  BY <1>2, <1>3, <1>4, <1>6, <1>7, CollectedValue DEF c

(* On every plan along the axes, from every pose and for every manifest,   *)
(* the planner's lookahead and the bridge's both agree with walking it.    *)
THEOREM LookaheadsRight == Spec => []LookaheadsAgree
<1> DEFINE Inv == Following /\ LookaheadsAgree
<1>1. Init => Inv
  BY DEF Init, Following, LookaheadsAgree, Up
<1>2. Built /\ Idle /\ Fresh /\ Complete /\ Inv /\ [Next]_vars => Inv'
  <2> SUFFICES ASSUME Built, Idle, Following, LookaheadsAgree, [Next]_vars PROVE Inv'
    OBVIOUS
  <2>1. Following'
    BY SetupFollows, DeliverFollows, OtherFollows DEF Next
  <2>2. CASE obs' = None
    BY <2>1, <2>2 DEF LookaheadsAgree
  <2>3. CASE Collect
    BY <2>1, <2>3, CollectAgrees
  <2>4. CASE Setup
    BY <2>1, <2>4 DEF Setup, Idle, Up, LookaheadsAgree
  <2>5. CASE UNCHANGED vars
    BY <2>1, <2>5 DEF vars, LookaheadsAgree, Observed, type, source, datasource
  <2> QED
    BY <2>2, <2>3, <2>4, <2>5 DEF Next, Deliver, Reset, Shutdown
<1>3. Inv => LookaheadsAgree
  OBVIOUS
<1> QED
  BY Observing, <1>1, <1>2, <1>3, PTL DEF Spec

-----------------------------------------------------------------------------
(* The canonical scan.  Bearings lie on a circle: what % does to them,     *)
(* which beams lie on either side of a bearing and which of them is next.  *)

LEMMA ModIs ==
  ASSUME NEW x \in Int, NEW t \in Nat \ {0}
  PROVE  x % t \in 0 .. t - 1 /\ x = t * (x \div t) + (x % t) /\ x \div t \in Int
OBVIOUS

LEMMA Small ==
  ASSUME NEW x \in Int, NEW t \in Nat \ {0}
  PROVE  /\ x \in 0 .. t - 1 => x % t = x
         /\ -t <= x /\ x < 0 => x % t = x + t
OBVIOUS

LEMMA DivBound ==
  ASSUME NEW m \in Int, NEW s \in Nat \ {0}, NEW lo \in Int, NEW hi \in Int,
         lo * s <= m, m <= hi * s
  PROVE  m \div s \in lo .. hi
OBVIOUS

LEMMA WrapIs ==
  ASSUME NEW x \in Int
  PROVE  LET half == Turn \div 2 IN
         /\ half \in Nat /\ Turn = half + half /\ half > 0
         /\ wrap(x) \in -half .. half - 1
         /\ \E q \in Int : x = wrap(x) + Turn * q
         /\ x \in -half .. half - 1 => wrap(x) = x
<1> DEFINE half == Turn \div 2
<1>1. Turn \in Nat \ {0} /\ Turn % 2 = 0
  BY GeometryAssumption
<1>2. half \in Nat /\ Turn = half + half /\ half > 0
  BY <1>1
<1> HIDE DEF half
<1>3. x + half \in Int
  BY <1>2
<1>4. /\ (x + half) % Turn \in 0 .. Turn - 1 /\ (x + half) \div Turn \in Int
      /\ x + half = Turn * ((x + half) \div Turn) + ((x + half) % Turn)
  BY <1>1, <1>3, ModIs
<1>5. wrap(x) = ((x + half) % Turn) - half
  BY DEF wrap, half
<1>6. x \in -half .. half - 1 => (x + half) % Turn = x + half
  BY <1>1, <1>2, <1>3, Small
<1>7. x = wrap(x) + Turn * ((x + half) \div Turn)
  BY <1>2, <1>4, <1>5
<1>8. wrap(x) \in -half .. half - 1 /\ (x \in -half .. half - 1 => wrap(x) = x)
  BY <1>2, <1>4, <1>5, <1>6
<1> QED
  BY <1>2, <1>4, <1>7, <1>8 DEF half

LEMMA Average ==
  ASSUME NEW x \in Nat, NEW y \in Nat, x + y > 0, NEW p \in Int, NEW q \in Int,
         NEW lo \in Int, NEW hi \in Int, lo <= p, p <= hi, lo <= q, q <= hi
  PROVE  (p * y + q * x) \div (x + y) \in lo .. hi
<1>1. lo * (x + y) <= p * y + q * x
  <2>1. \A a, b \in Int, c \in Nat : a <= b => a * c <= b * c
    OBVIOUS
  <2>2. lo * y <= p * y /\ lo * x <= q * x
    BY <2>1
  <2>3. lo * (x + y) = lo * y + lo * x
    OBVIOUS
  <2> QED
    BY <2>2, <2>3
<1>2. p * y + q * x <= hi * (x + y)
  <2>1. \A a, b \in Int, c \in Nat : a <= b => a * c <= b * c
    OBVIOUS
  <2>2. p * y <= hi * y /\ q * x <= hi * x
    BY <2>1
  <2>3. hi * (x + y) = hi * y + hi * x
    OBVIOUS
  <2> QED
    BY <2>2, <2>3
<1>3. p * y + q * x \in Int /\ x + y \in Nat \ {0}
  OBVIOUS
<1> QED
  BY <1>1, <1>2, <1>3, DivBound

LEMMA ModSame ==
  ASSUME NEW x \in Int, NEW y \in Int, NEW q \in Int, NEW t \in Nat \ {0}, x = y + t * q
  PROVE  x % t = y % t
<1>1. /\ x % t \in 0 .. t - 1 /\ x \div t \in Int /\ x = t * (x \div t) + (x % t)
      /\ y % t \in 0 .. t - 1 /\ y \div t \in Int /\ y = t * (y \div t) + (y % t)
  BY ModIs
<1> DEFINE m == (y \div t) + q - (x \div t)
<1>2. m \in Int /\ (x % t) - (y % t) = t * m
  BY <1>1
<1> HIDE DEF m
<1>3. \A k \in Int : -t < t * k /\ t * k < t => k = 0
  OBVIOUS
<1> QED
  BY <1>1, <1>2, <1>3

(* Beams e along a turn t from the first one, a ray at x: u is how far     *)
(* each beam lies before the ray, the rest of the turn how far after.      *)
After(u, t) == IF u = 0 THEN 0 ELSE t - u
Apart(u, t) == IF u <= After(u, t) THEN u ELSE After(u, t)

InRing(n, t, s, x, e, u) ==
  /\ n \in Nat /\ t \in Nat /\ s \in Nat \ {0} /\ x \in 0 .. t - 1
  /\ e \in [1 .. n -> 0 .. t - 1] /\ e[1] = 0
  /\ \A i \in 1 .. n - 1 : e[i + 1] = e[i] + s
  /\ \A i \in 1 .. n : \A j \in 1 .. n : i < j => e[i] + s <= e[j]
  /\ u \in [1 .. n -> 0 .. t - 1]
  /\ \A i \in 1 .. n : u[i] = IF x >= e[i] THEN x - e[i] ELSE x - e[i] + t

Places(t, s, x, e, u, i, j) ==
  \E ei, ej, ui, uj \in 0 .. t - 1 :
    /\ ei = e[i] /\ ej = e[j] /\ ui = u[i] /\ uj = u[j]
    /\ ui = IF x >= ei THEN x - ei ELSE x - ei + t
    /\ uj = IF x >= ej THEN x - ej ELSE x - ej + t
    /\ i < j => ei + s <= ej
    /\ j < i => ej + s <= ei
    /\ j = i + 1 => ej = ei + s

LEMMA InRingAt ==
  ASSUME NEW n, NEW t, NEW s, NEW x, NEW e, NEW u, InRing(n, t, s, x, e, u),
         NEW i \in 1 .. n, NEW j \in 1 .. n
  PROVE  Places(t, s, x, e, u, i, j)
<1>1. e[i] \in 0 .. t - 1 /\ e[j] \in 0 .. t - 1 /\ u[i] \in 0 .. t - 1 /\ u[j] \in 0 .. t - 1
  BY DEF InRing
<1>2. /\ u[i] = IF x >= e[i] THEN x - e[i] ELSE x - e[i] + t
      /\ u[j] = IF x >= e[j] THEN x - e[j] ELSE x - e[j] + t
      /\ i < j => e[i] + s <= e[j]
      /\ j < i => e[j] + s <= e[i]
  BY Zenon DEF InRing
<1>3. j = i + 1 => e[j] = e[i] + s
  <2>1. j = i + 1 => i \in 1 .. n - 1
    BY DEF InRing
  <2> QED
    BY <2>1, Zenon DEF InRing
<1> QED
  BY <1>1, <1>2, <1>3, Zenon DEF Places

LEMMA InRingOnce ==
  ASSUME NEW n, NEW t, NEW s, NEW x, NEW e, NEW u, InRing(n, t, s, x, e, u),
         NEW i \in 1 .. n, NEW j \in 1 .. n, u[i] = u[j]
  PROVE  i = j
<1>0. n \in Nat /\ t \in Nat /\ s \in Nat \ {0} /\ x \in 0 .. t - 1
  BY DEF InRing
<1>1. PICK ei, ej, ui, uj \in 0 .. t - 1 :
        /\ ui = u[i] /\ uj = u[j]
        /\ ui = IF x >= ei THEN x - ei ELSE x - ei + t
        /\ uj = IF x >= ej THEN x - ej ELSE x - ej + t
        /\ i < j => ei + s <= ej
        /\ j < i => ej + s <= ei
  <2>1. Places(t, s, x, e, u, i, j)
    BY InRingAt, Zenon
  <2> QED
    BY <2>1, Zenon DEF Places
<1>2. ui = uj
  BY <1>1
<1>3. ei = ej
  BY <1>0, <1>1, <1>2
<1> QED
  BY <1>0, <1>1, <1>3

Nearest(n, t, u, a, b) ==
  /\ a \in 1 .. n /\ \A j \in 1 .. n : u[a] <= u[j]
  /\ b \in 1 .. n /\ \A j \in 1 .. n : After(u[b], t) <= After(u[j], t)

LEMMA NearestOn ==
  ASSUME NEW n, NEW t, NEW s, NEW x, NEW e, NEW u, InRing(n, t, s, x, e, u),
         NEW a, NEW b, Nearest(n, t, u, a, b),
         NEW i \in 1 .. n, u[i] = 0
  PROVE  a = i /\ b = i
<1>0. t \in Nat /\ i \in 1 .. n
  BY DEF InRing
<1>1. a \in 1 .. n /\ b \in 1 .. n /\ u[a] <= u[i] /\ After(u[b], t) <= After(u[i], t)
  BY DEF Nearest
<1>2. u[a] \in 0 .. t - 1 /\ u[b] \in 0 .. t - 1
  BY <1>1 DEF InRing
<1>3. u[a] = 0
  BY <1>1, <1>2
<1>4. u[b] = 0
  BY <1>0, <1>1, <1>2 DEF After
<1>5. u[a] = u[i] /\ u[b] = u[i]
  BY <1>3, <1>4
<1>6. a = i
  BY <1>0, <1>1, <1>5, InRingOnce
<1>7. b = i
  BY <1>0, <1>1, <1>5, InRingOnce
<1> QED
  BY <1>6, <1>7

LEMMA NearestBetween ==
  ASSUME NEW n, NEW t, NEW s, NEW x, NEW e, NEW u, InRing(n, t, s, x, e, u),
         NEW a, NEW b, Nearest(n, t, u, a, b),
         NEW i \in 1 .. n - 1, Apart(u[i], t) + Apart(u[i + 1], t) = s
  PROVE  /\ a \in {i, i + 1} /\ b \in {i, i + 1}
         /\ u[a] + After(u[b], t) \in {0, s}
<1>0. /\ n \in Nat /\ t \in Nat /\ s \in Nat \ {0} /\ x \in 0 .. t - 1
      /\ i \in 1 .. n /\ i + 1 \in 1 .. n /\ i \in Int
  BY DEF InRing
<1> USE <1>0
<1>1. PICK ei, ek, ui, uk \in 0 .. t - 1 :
        /\ ei = e[i] /\ ek = e[i + 1] /\ ui = u[i] /\ uk = u[i + 1]
        /\ ui = IF x >= ei THEN x - ei ELSE x - ei + t
        /\ uk = IF x >= ek THEN x - ek ELSE x - ek + t
        /\ ek = ei + s
  <2>1. Places(t, s, x, e, u, i, i + 1)
    BY <1>0, InRingAt, Zenon
  <2> QED
    BY <2>1, Zenon DEF Places
<1>2. Apart(ui, t) + Apart(uk, t) = s
  BY <1>1, Zenon
<1>3. \/ ui = 0 \/ uk = 0
      \/ ei < x /\ x < ek
      \/ t = 2 * s /\ ui # 0 /\ uk # 0
  BY <1>1, <1>2 DEF Apart, After
<1>4. \A v \in Nat : v = 0 => v + After(v, t) = 0
  BY DEF After
<1>5. CASE ui = 0
  <2>0. u[i] = 0
    BY <1>1, <1>5, Zenon
  <2>1. a = i /\ b = i
    BY <2>0, NearestOn, Zenon
  <2> QED
    BY <1>1, <1>4, <1>5, <2>1
<1>6. CASE uk = 0
  <2>0. u[i + 1] = 0
    BY <1>1, <1>6, Zenon
  <2>1. a = i + 1 /\ b = i + 1
    BY <2>0, NearestOn, Zenon
  <2> QED
    BY <1>1, <1>4, <1>6, <2>1
<1>7. a \in 1 .. n /\ b \in 1 .. n
      /\ \A j \in 1 .. n : u[a] <= u[j] /\ After(u[b], t) <= After(u[j], t)
  BY DEF Nearest
<1>8. PICK ua, ub \in 0 .. t - 1 : ua = u[a] /\ ub = u[b]
  BY <1>7 DEF InRing
<1>9. /\ ua <= ui /\ After(ub, t) <= After(ui, t)
      /\ ua <= uk /\ After(ub, t) <= After(uk, t)
  BY <1>0, <1>1, <1>7, <1>8, Zenon
<1>10. CASE ei < x /\ x < ek
  <2>1. ui = x - ei /\ uk = x - ek + t
    BY <1>1, <1>10
  <2>2. ASSUME NEW j \in 1 .. n, NEW uj \in 0 .. t - 1, uj = u[j]
        PROVE  ui <= uj /\ uj <= uk /\ uj > 0
    <3>1. PICK di, ej, vi, vj \in 0 .. t - 1 :
            /\ di = e[i] /\ vj = u[j]
            /\ vj = IF x >= ej THEN x - ej ELSE x - ej + t
            /\ i < j => di + s <= ej
            /\ j < i => ej + s <= di
            /\ i = j => ej = e[i]
      <4>1. PICK di, ej, vi, vj \in 0 .. t - 1 :
              /\ di = e[i] /\ ej = e[j] /\ vj = u[j]
              /\ vj = IF x >= ej THEN x - ej ELSE x - ej + t
              /\ i < j => di + s <= ej
              /\ j < i => ej + s <= di
        <5>1. Places(t, s, x, e, u, i, j)
          BY <1>0, InRingAt, Zenon
        <5> QED
          BY <5>1, Zenon DEF Places
      <4> QED
        BY <4>1, Zenon
    <3>2. i = j => ej = ei
      BY <1>1, <3>1, Zenon
    <3>3. di = ei /\ vj = uj
      BY <1>1, <2>2, <3>1, Zenon
    <3> QED
      BY <1>1, <1>10, <2>1, <3>1, <3>2, <3>3
  <2>3. ui <= ua /\ ub <= uk /\ ub > 0 /\ uk > 0
    <3>1. ui <= ua
      BY <1>7, <1>8, <2>2, Zenon
    <3>2. ub <= uk /\ ub > 0
      BY <1>7, <1>8, <2>2, Zenon
    <3> QED
      BY <3>1, <3>2, <1>0
  <2>4. ua = ui
    BY <1>9, <2>3
  <2>5. ub = uk
    BY <1>9, <2>3 DEF After
  <2>6. a = i /\ b = i + 1
    <3>1. u[a] = u[i] /\ u[b] = u[i + 1]
      BY <1>1, <1>8, <2>4, <2>5, Zenon
    <3>2. a = i
      BY <1>7, <3>1, InRingOnce
    <3>3. b = i + 1
      BY <1>7, <3>1, InRingOnce
    <3> QED
      BY <3>2, <3>3
  <2>7. ua + After(ub, t) = s
    BY <1>1, <2>1, <2>3, <2>4, <2>5 DEF After
  <2> QED
    BY <1>8, <2>6, <2>7, Zenon
<1>11. CASE t = 2 * s /\ ui # 0 /\ uk # 0
  <2>1. n = 2
    <3>1. ASSUME n > 2 PROVE FALSE
      <4>1. 1 \in 1 .. n /\ 2 \in 1 .. n /\ 3 \in 1 .. n /\ 2 = 1 + 1 /\ 3 = 2 + 1
        BY <3>1
      <4>p. Places(t, s, x, e, u, 1, 2) /\ Places(t, s, x, e, u, 2, 3)
        BY <4>1, InRingAt, Zenon
      <4>2. PICK e1, e2, u1, u2 \in 0 .. t - 1 : e2 = e[2] /\ e2 = e1 + s
        BY <4>1, <4>p, Zenon DEF Places
      <4>3. PICK d2, e3, v2, u3 \in 0 .. t - 1 : d2 = e[2] /\ e3 = d2 + s
        BY <4>1, <4>p, Zenon DEF Places
      <4>4. d2 = e2
        BY <4>2, <4>3, Zenon
      <4> QED
        BY <1>11, <4>2, <4>3, <4>4
    <3> QED
      BY <3>1
  <2>2. i = 1 /\ i + 1 = 2
    BY <2>1
  <2>3. ei = 0
    BY <1>1, <2>2 DEF InRing
  <2>4. (a = i \/ a = i + 1) /\ (b = i \/ b = i + 1)
    BY <1>7, <2>1, <2>2
  <2>5. (ua = ui \/ ua = uk) /\ (ub = ui \/ ub = uk)
    BY <1>1, <1>8, <2>4, Zenon
  <2>6. ua + After(ub, t) = s
    BY <1>1, <1>9, <1>11, <2>3, <2>5 DEF After
  <2> QED
    BY <1>8, <2>4, <2>6, Zenon
<1> QED
  BY <1>3, <1>5, <1>6, <1>10, <1>11

Half == Turn \div 2

(* What these say of a circle, and of a turn. *)
LEMMA OnCircle ==
  ASSUME NEW t \in Nat \ {0}
  PROVE  /\ \A x, y, q \in Int : x = y + t * q => x % t = y % t
         /\ \A x \in Int : -t <= x /\ x < t => x % t = IF x >= 0 THEN x ELSE x + t
         /\ \A x \in Int : \E m \in 0 .. t - 1, q \in Int : m = x % t /\ x = t * q + m
<1>2. ASSUME NEW x \in Int, NEW y \in Int, NEW q \in Int, x = y + t * q PROVE x % t = y % t
  BY <1>2, ModSame, ZenonT(40)
<1>3. ASSUME NEW x \in Int, -t <= x, x < t PROVE x % t = IF x >= 0 THEN x ELSE x + t
  <2>1. (x >= 0 => x \in 0 .. t - 1) /\ (x < 0 \/ x >= 0) /\ ~ (x < 0 /\ x >= 0)
    BY <1>3
  <2>2. x >= 0 => x % t = x
    BY <2>1, Small, Zenon
  <2>3. x < 0 => x % t = x + t
    BY <1>3, Small, Zenon
  <2> QED
    BY <2>1, <2>2, <2>3, Zenon
<1>4. ASSUME NEW x \in Int PROVE \E m \in 0 .. t - 1, q \in Int : m = x % t /\ x = t * q + m
  <2>1. x % t \in 0 .. t - 1 /\ x = t * (x \div t) + (x % t) /\ x \div t \in Int
    BY ModIs
  <2> QED
    BY <2>1, Zenon
<1> QED
  BY <1>2, <1>3, <1>4, Zenon

LEMMA OnTurn ==
  /\ \A x, y, q \in Int : x = y + Turn * q => x % Turn = y % Turn
  /\ \A x \in Int : -Turn <= x /\ x < Turn => x % Turn = IF x >= 0 THEN x ELSE x + Turn
  /\ \A x \in Int : \E m \in 0 .. Turn - 1, q \in Int : m = x % Turn /\ x = Turn * q + m
<1>1. Turn \in Nat \ {0}
  BY GeometryAssumption
<1> QED
  BY <1>1, OnCircle, Zenon

(* Within a turn of the bearing 0, either way round. *)
LEMMA WithinTurn ==
  ASSUME NEW d \in Int, -Turn < d, d < Turn
  PROVE  /\ d % Turn = IF d >= 0 THEN d ELSE d + Turn
         /\ wrap(d) = IF d >= Half THEN d - Turn ELSE IF d < -Half THEN d + Turn ELSE d
<1>1. Half \in Nat /\ Turn = Half + Half /\ Half > 0 /\ Turn \in Nat \ {0}
  BY GeometryAssumption, WrapIs DEF Half
<1>2. wrap(d) = ((d + Half) % Turn) - Half
  BY DEF wrap, Half
<1> HIDE DEF Half
<1>3. d % Turn = IF d >= 0 THEN d ELSE d + Turn
  <2>1. -Turn <= d
    BY <1>1
  <2> QED
    BY <2>1, OnTurn, Zenon
<1>4. PICK v \in Int : v = d + Half
  BY <1>1
<1>5. wrap(d) = (v % Turn) - Half
  BY <1>2, <1>4, Zenon
<1>6. CASE d >= Half
  <2>1. PICK w \in 0 .. Turn - 1 : w = v - Turn
    BY <1>1, <1>4, <1>6
  <2>2. PICK q \in Int : v = w + Turn * q /\ w \in Int
    <3>1. 1 \in Int /\ v = w + Turn * 1 /\ w \in Int
      BY <1>1, <2>1
    <3> QED
      BY <3>1, Zenon
  <2>3. v % Turn = w % Turn
    BY <2>2, OnTurn, Zenon
  <2>4. w % Turn = w
    <3>1. -Turn <= w /\ w < Turn /\ w >= 0
      BY <1>1, <2>1
    <3>2. w % Turn = IF w >= 0 THEN w ELSE w + Turn
      BY <2>2, <3>1, OnTurn, Zenon
    <3> QED
      BY <3>1, <3>2, Zenon
  <2>5. v % Turn = w
    BY <2>3, <2>4, Zenon
  <2>6. wrap(d) = d - Turn
    BY <1>1, <1>4, <1>5, <2>1, <2>5
  <2> QED
    BY <1>3, <1>6, <2>6
<1>7. CASE d < Half
  <2>1. -Turn <= v /\ v < Turn
    BY <1>1, <1>4, <1>7
  <2>2. v % Turn = IF v >= 0 THEN v ELSE v + Turn
    BY <2>1, OnTurn, Zenon
  <2>3. wrap(d) = IF d < -Half THEN d + Turn ELSE d
    BY <1>1, <1>4, <1>5, <2>2
  <2> QED
    BY <1>1, <1>3, <1>7, <2>3
<1> QED
  BY <1>1, <1>6, <1>7

(* From one bearing to another, either way round. *)
LEMMA Sides ==
  ASSUME NEW p \in -Half .. Half - 1, NEW h \in -Half .. Half - 1
  PROVE  /\ (p - h) % Turn \in 0 .. Turn - 1
         /\ (h - p) % Turn = After((p - h) % Turn, Turn)
         /\ Abs(wrap(p - h)) = Apart((p - h) % Turn, Turn)
<1>1. Half \in Nat /\ Turn = Half + Half /\ Half > 0 /\ Turn \in Nat \ {0}
  BY GeometryAssumption, WrapIs DEF Half
<1> HIDE DEF Half
<1>2. PICK d \in Int : d = p - h /\ -Turn < d /\ d < Turn
  BY <1>1
<1>3. PICK f \in Int : f = h - p /\ f = -d /\ -Turn < f /\ f < Turn
  BY <1>1, <1>2
<1>4. /\ d % Turn = IF d >= 0 THEN d ELSE d + Turn
      /\ wrap(d) = IF d >= Half THEN d - Turn ELSE IF d < -Half THEN d + Turn ELSE d
  BY <1>2, WithinTurn
<1>5. f % Turn = IF f >= 0 THEN f ELSE f + Turn
  BY <1>3, WithinTurn
<1>6. (p - h) % Turn = d % Turn /\ (h - p) % Turn = f % Turn /\ wrap(p - h) = wrap(d)
  BY <1>2, <1>3, Zenon
<1>7. d % Turn \in 0 .. Turn - 1
  BY <1>1, <1>2, <1>4
<1>8. f % Turn = After(d % Turn, Turn)
  BY <1>1, <1>2, <1>3, <1>4, <1>5 DEF After
<1>9. Abs(wrap(d)) = Apart(d % Turn, Turn)
  BY <1>1, <1>2, <1>4 DEF After, Apart, Abs
<1> QED
  BY <1>6, <1>7, <1>8, <1>9, Zenon

(* The beams of a scan lie around the robot one increment after the other. *)
LEMMA Beams ==
  ASSUME NEW n \in Nat, n > 1, NEW from \in Int, NEW by \in Int, by # 0,
         (n - 1) * Abs(by) < Turn, NEW phi \in -Half .. Half - 1
  PROVE  LET s == Abs(by)
             e == [i \in 1 .. n |-> s * (i - 1)]
             theta(i) == bearing(from, by, i)
             u == [i \in 1 .. n |-> IF by > 0 THEN (phi - theta(i)) % Turn
                                              ELSE (theta(i) - phi) % Turn]
         IN InRing(n, Turn, s, u[1], e, u) /\ \A i \in 1 .. n : theta(i) \in -Half .. Half - 1
<1> DEFINE s == Abs(by)
           e == [i \in 1 .. n |-> s * (i - 1)]
           theta(i) == bearing(from, by, i)
           u == [i \in 1 .. n |-> IF by > 0 THEN (phi - theta(i)) % Turn
                                            ELSE (theta(i) - phi) % Turn]
           z == IF by > 0 THEN phi - from ELSE from - phi
<1>1. Half \in Nat /\ Turn = Half + Half /\ Half > 0 /\ Turn \in Nat \ {0} /\ phi \in Int
  BY GeometryAssumption, WrapIs DEF Half
<1>2. s \in Nat \ {0} /\ by = (IF by > 0 THEN s ELSE -s) /\ s * (n - 1) < Turn /\ z \in Int
  BY <1>1 DEF Abs
<1>3. ASSUME NEW i \in 1 .. n
      PROVE  /\ theta(i) \in -Half .. Half - 1
             /\ \E q \in Int : from + by * (i - 1) = theta(i) + Turn * q
  <2>1. from + by * (i - 1) \in Int
    OBVIOUS
  <2> QED
    BY <2>1, WrapIs DEF bearing, Half
<1> HIDE DEF s, theta, z, Half
<1>4. /\ \A i \in 1 .. n : s * (i - 1) \in 0 .. Turn - 1
      /\ \A i \in 1 .. n : \A j \in 1 .. n : i < j => s * (i - 1) + s <= s * (j - 1)
      /\ \A i \in 1 .. n - 1 : s * ((i + 1) - 1) = s * (i - 1) + s
      /\ s * (1 - 1) = 0
  <2>1. \A a, b \in Nat : a <= b => s * a <= s * b /\ s * a \in Nat
    BY <1>2
  <2>2. ASSUME NEW i \in 1 .. n PROVE s * (i - 1) \in 0 .. Turn - 1
    <3>1. i - 1 \in Nat /\ n - 1 \in Nat /\ i - 1 <= n - 1
      OBVIOUS
    <3>2. s * (i - 1) <= s * (n - 1) /\ s * (i - 1) \in Nat /\ s * (n - 1) \in Nat
      BY <2>1, <3>1
    <3> QED
      BY <1>1, <1>2, <3>2
  <2>3. ASSUME NEW i \in 1 .. n, NEW j \in 1 .. n, i < j PROVE s * (i - 1) + s <= s * (j - 1)
    <3>1. i \in Nat /\ j - 1 \in Nat /\ i <= j - 1
      BY <2>3
    <3>2. s * i <= s * (j - 1)
      BY <2>1, <3>1
    <3>3. s * i = s * (i - 1) + s
      BY <1>2
    <3> QED
      BY <3>2, <3>3
  <2>4. \A i \in 1 .. n - 1 : s * ((i + 1) - 1) = s * (i - 1) + s
    BY <1>2
  <2>5. s * (1 - 1) = 0
    BY <1>2
  <2> QED
    BY <2>2, <2>3, <2>4, <2>5
<1>5. ASSUME NEW i \in 1 .. n PROVE u[i] = (z - s * (i - 1)) % Turn
  <2>1. PICK q \in Int : from + by * (i - 1) = theta(i) + Turn * q
    BY <1>3
  <2>2. theta(i) \in Int /\ s * (i - 1) \in Int
    BY <1>1, <1>2, <1>3
  <2>3. PICK w \in Int : w = s * (i - 1)
    BY <2>2
  <2>6. \A y, v \in Int, k \in Int : y = v + Turn * k => y % Turn = v % Turn
    BY OnTurn, Zenon
  <2>7. PICK v \in Int : v = z - w
    BY <1>2, <2>3
  <2>8. PICK th \in Int : th = theta(i)
    BY <2>2
  <2>9. from + by * (i - 1) = th + Turn * q
    BY <2>1, <2>8, Zenon
  <2>4. CASE by > 0
    <3>1. by * (i - 1) = w /\ z = phi - from
      BY <1>2, <2>3, <2>4 DEF z
    <3>2. PICK y \in Int : y = phi - th
      BY <1>1
    <3>3. y = v + Turn * q
      BY <1>1, <1>2, <2>7, <2>9, <3>1, <3>2
    <3>4. y % Turn = v % Turn
      BY <2>6, <3>3, Zenon
    <3>5. u[i] = (phi - theta(i)) % Turn
      BY <2>4
    <3> QED
      BY <2>3, <2>7, <2>8, <3>2, <3>4, <3>5, Zenon
  <2>5. CASE ~ (by > 0)
    <3>1. by * (i - 1) = -w /\ z = from - phi
      BY <1>2, <2>3, <2>5 DEF z
    <3>2. PICK y \in Int, k \in Int : y = th - phi /\ k = -q
      BY <1>1
    <3>3. y = v + Turn * k
      BY <1>1, <1>2, <2>7, <2>9, <3>1, <3>2
    <3>4. y % Turn = v % Turn
      BY <2>6, <3>3, Zenon
    <3>5. u[i] = (theta(i) - phi) % Turn
      BY <2>5
    <3> QED
      BY <2>3, <2>7, <2>8, <3>2, <3>4, <3>5, Zenon
  <2> QED
    BY <2>4, <2>5
<1> DEFINE x == u[1]
<1>6. x = z % Turn /\ x \in 0 .. Turn - 1
  <2>1. 1 \in 1 .. n /\ z - s * (1 - 1) = z
    BY <1>2, <1>4
  <2>2. x = z % Turn
    BY <1>5, <2>1
  <2> HIDE DEF x
  <2> QED
    BY <1>1, <1>2, <2>2, ModIs
<1>7. ASSUME NEW i \in 1 .. n
      PROVE  /\ u[i] = IF x >= e[i] THEN x - e[i] ELSE x - e[i] + Turn
             /\ u[i] \in 0 .. Turn - 1
  <2> HIDE DEF u
  <2>1. PICK y \in 0 .. Turn - 1, w \in 0 .. Turn - 1 : y = x /\ w = s * (i - 1)
    BY <1>4, <1>6
  <2>9. PICK v \in Int, d \in Int : v = z - w /\ d = y - w
    BY <1>1, <1>2, <2>1
  <2>2. u[i] = v % Turn
    BY <1>5, <2>1, <2>9, Zenon
  <2>10. PICK q \in Int : z = Turn * q + y
    <3>1. PICK m \in 0 .. Turn - 1, q \in Int : m = z % Turn /\ z = Turn * q + m
      BY <1>2, OnTurn, Zenon
    <3>2. m = y
      BY <1>6, <2>1, <3>1, Zenon
    <3> QED
      BY <3>1, <3>2, Zenon
  <2>3. v = d + Turn * q
    BY <1>1, <1>2, <2>1, <2>9, <2>10
  <2>4. v % Turn = d % Turn
    BY <2>3, OnTurn, Zenon
  <2>5. d % Turn = IF y >= w THEN y - w ELSE y - w + Turn
    <3>1. -Turn <= d /\ d < Turn
      BY <1>1, <2>1, <2>9
    <3>2. d % Turn = IF d >= 0 THEN d ELSE d + Turn
      BY <3>1, OnTurn, Zenon
    <3> QED
      BY <1>1, <2>1, <2>9, <3>2
  <2>6. u[i] = IF y >= w THEN y - w ELSE y - w + Turn
    BY <2>2, <2>4, <2>5, Zenon
  <2>7. u[i] \in 0 .. Turn - 1
    BY <1>1, <2>1, <2>6
  <2>8. e[i] = w
    BY <2>1
  <2> QED
    BY <2>1, <2>6, <2>7, <2>8, Zenon
<1>8. InRing(n, Turn, s, x, e, u)
  <2>1. u \in [1 .. n -> 0 .. Turn - 1] /\ e \in [1 .. n -> 0 .. Turn - 1]
    BY <1>4, <1>7
  <2>2. /\ e[1] = 0 /\ \A i \in 1 .. n - 1 : e[i + 1] = e[i] + s
        /\ \A i \in 1 .. n : \A j \in 1 .. n : i < j => e[i] + s <= e[j]
    BY <1>4
  <2>3. n \in Nat /\ Turn \in Nat /\ s \in Nat \ {0} /\ x \in 0 .. Turn - 1
    BY <1>1, <1>2, <1>6
  <2> HIDE DEF u, e
  <2> QED
    BY <1>7, <2>1, <2>2, <2>3 DEF InRing
<1> QED
  BY <1>3, <1>8 DEF s, theta

LEMMA PairBounds ==
  ASSUME NEW p \in Nat, NEW q \in Nat
  PROVE  /\ Min({p, q}) \in Nat /\ Min({p, q}) \in {p, q} /\ Min({p, q}) <= p /\ Min({p, q}) <= q
         /\ Max({p, q}) \in Nat /\ p <= Max({p, q}) /\ q <= Max({p, q})
<1>1. {p, q} \in SUBSET Nat /\ {p, q} # {}
  OBVIOUS
<1>2. Min({p, q}) \in {p, q} /\ Min({p, q}) <= p /\ Min({p, q}) <= q
  BY <1>1, MinOf
<1>3. \E m \in {p, q} : \A y \in {p, q} : m >= y
  OBVIOUS
<1>4. Max({p, q}) \in {p, q} /\ p <= Max({p, q}) /\ q <= Max({p, q})
  BY <1>3 DEF Max
<1> QED
  BY <1>2, <1>4

LEMMA LeastAt ==
  ASSUME NEW n \in Nat \ {0}, NEW f \in [1 .. n -> Nat]
  PROVE  \E a \in 1 .. n : \A j \in 1 .. n : f[a] <= f[j]
<1> DEFINE S == {f[j] : j \in 1 .. n}
<1>1. S \in SUBSET Nat /\ f[1] \in S
  OBVIOUS
<1>2. Min(S) \in S /\ \A x \in S : Min(S) <= x
  BY <1>1, MinOf
<1>3. PICK a \in 1 .. n : f[a] = Min(S)
  BY <1>2
<1> QED
  BY <1>2, <1>3, Zenon

(* The other way round a circle. *)
LEMMA Around ==
  ASSUME NEW t \in Nat, NEW v \in 0 .. t - 1
  PROVE  /\ After(v, t) \in 0 .. t - 1 /\ After(After(v, t), t) = v
         /\ Apart(After(v, t), t) = Apart(v, t)
         /\ Apart(v, t) \in Nat /\ Apart(v, t) <= v /\ Apart(v, t) <= After(v, t)
         /\ Apart(v, t) = 0 => v = 0
BY DEF After, Apart

(* Beams f before a ray; a is the nearest before it, b the nearest after.  *)
(* The laser turns either way.                                             *)
Flanked(n, t, s, x, e, f, a, b, left) ==
  /\ n \in Nat /\ t \in Nat /\ s \in Nat \ {0} /\ f \in [1 .. n -> 0 .. t - 1]
  /\ left \in BOOLEAN
  /\ InRing(n, t, s, x, e, IF left THEN f ELSE [i \in 1 .. n |-> After(f[i], t)])
  /\ a \in 1 .. n /\ \A j \in 1 .. n : f[a] <= f[j]
  /\ b \in 1 .. n /\ \A j \in 1 .. n : After(f[b], t) <= After(f[j], t)

Neighbours(n, t, s, f, a, b) ==
  \A i \in 1 .. n - 1 : Apart(f[i], t) + Apart(f[i + 1], t) = s =>
    a \in {i, i + 1} /\ b \in {i, i + 1} /\ f[a] + After(f[b], t) \in {0, s}

LEMMA FlankedAt ==
  ASSUME NEW n, NEW t, NEW s, NEW x, NEW e, NEW f, NEW a, NEW b, NEW left,
         Flanked(n, t, s, x, e, f, a, b, left)
  PROVE  /\ \A i \in 1 .. n : Apart(f[i], t) = 0 => a = i /\ b = i /\ f[a] + After(f[b], t) = 0
         /\ Neighbours(n, t, s, f, a, b)
<1> DEFINE u == IF left THEN f ELSE [i \in 1 .. n |-> After(f[i], t)]
<1>1. /\ n \in Nat /\ t \in Nat /\ s \in Nat \ {0} /\ f \in [1 .. n -> 0 .. t - 1]
      /\ left \in BOOLEAN /\ a \in 1 .. n /\ b \in 1 .. n
      /\ \A j \in 1 .. n : f[a] <= f[j] /\ After(f[b], t) <= After(f[j], t)
  BY DEF Flanked
<1>2. InRing(n, t, s, x, e, u)
  BY Zenon DEF Flanked
<1>3. ASSUME NEW i \in 1 .. n
      PROVE  /\ f[i] \in 0 .. t - 1 /\ After(f[i], t) \in 0 .. t - 1
             /\ After(After(f[i], t), t) = f[i]
             /\ Apart(After(f[i], t), t) = Apart(f[i], t)
             /\ Apart(f[i], t) = 0 => f[i] = 0
  <2>1. f[i] \in 0 .. t - 1
    BY <1>1
  <2> QED
    BY <1>1, <2>1, Around, Zenon
<1>4. ASSUME NEW i \in 1 .. n
      PROVE  /\ (left => u[i] = f[i]) /\ (~ left => u[i] = After(f[i], t))
             /\ Apart(u[i], t) = Apart(f[i], t)
  <2>1. left => u[i] = f[i]
    BY Zenon
  <2>2. ~ left => u[i] = After(f[i], t)
    OBVIOUS
  <2> HIDE DEF u
  <2> QED
    BY <1>1, <1>3, <2>1, <2>2, Zenon
<1>7. 0 + After(0, t) = 0
  BY DEF After
<1> HIDE DEF u
<1>5. CASE left
  <2>1. Nearest(n, t, u, a, b)
    <3>1. \A j \in 1 .. n : u[j] = f[j]
      BY <1>4, <1>5, Zenon
    <3> QED
      BY <1>1, <3>1, Zenon DEF Nearest
  <2>2. u[a] + After(u[b], t) = f[a] + After(f[b], t)
    BY <1>1, <1>4, <1>5, Zenon
  <2>3. ASSUME NEW i \in 1 .. n, Apart(f[i], t) = 0
        PROVE  a = i /\ b = i /\ f[a] + After(f[b], t) = 0
    <3>1. f[i] = 0 /\ u[i] = 0
      BY <1>3, <1>4, <1>5, <2>3, Zenon
    <3>2. a = i /\ b = i
      BY <1>2, <2>1, <3>1, NearestOn, Zenon
    <3>3. f[a] = 0 /\ f[b] = 0
      BY <3>1, <3>2
    <3>5. f[a] + After(f[b], t) = 0 + After(0, t)
      BY <3>3, Zenon
    <3> QED
      BY <1>7, <3>5, <3>2, Zenon
  <2>4. ASSUME NEW i \in 1 .. n - 1, Apart(f[i], t) + Apart(f[i + 1], t) = s
        PROVE  a \in {i, i + 1} /\ b \in {i, i + 1} /\ f[a] + After(f[b], t) \in {0, s}
    <3>1. i \in 1 .. n /\ i + 1 \in 1 .. n
      BY <1>1
    <3>2. Apart(u[i], t) + Apart(u[i + 1], t) = s
      BY <1>4, <2>4, <3>1, Zenon
    <3>3. a \in {i, i + 1} /\ b \in {i, i + 1} /\ u[a] + After(u[b], t) \in {0, s}
      BY <1>2, <2>1, <3>2, NearestBetween
    <3> QED
      BY <2>2, <3>3, Zenon
  <2> QED
    BY <2>3, <2>4, Zenon DEF Neighbours
<1>6. CASE ~ left
  <2>0. \A j \in 1 .. n : u[j] = After(f[j], t) /\ After(u[j], t) = f[j]
    BY <1>3, <1>4, <1>6, Zenon
  <2>1. Nearest(n, t, u, b, a)
    BY <1>1, <2>0, Zenon DEF Nearest
  <2>2. u[b] + After(u[a], t) = f[a] + After(f[b], t)
    <3>1. u[b] = After(f[b], t) /\ After(u[a], t) = f[a]
      BY <1>1, <2>0, Zenon
    <3>2. f[a] \in Int /\ After(f[b], t) \in Int
      BY <1>1, <1>3
    <3> QED
      BY <3>1, <3>2
  <2>3. ASSUME NEW i \in 1 .. n, Apart(f[i], t) = 0
        PROVE  a = i /\ b = i /\ f[a] + After(f[b], t) = 0
    <3>1. f[i] = 0
      BY <1>3, <2>3, Zenon
    <3>2. u[i] = 0
      BY <1>4, <1>6, <3>1 DEF After
    <3>3. a = i /\ b = i
      BY <1>2, <2>1, <3>2, NearestOn, Zenon
    <3>4. f[a] = 0 /\ f[b] = 0
      BY <3>1, <3>3
    <3>5. f[a] + After(f[b], t) = 0 + After(0, t)
      BY <3>4, Zenon
    <3> QED
      BY <1>7, <3>5, <3>3, Zenon
  <2>4. ASSUME NEW i \in 1 .. n - 1, Apart(f[i], t) + Apart(f[i + 1], t) = s
        PROVE  a \in {i, i + 1} /\ b \in {i, i + 1} /\ f[a] + After(f[b], t) \in {0, s}
    <3>1. i \in 1 .. n /\ i + 1 \in 1 .. n
      BY <1>1
    <3>2. Apart(u[i], t) + Apart(u[i + 1], t) = s
      BY <1>4, <2>4, <3>1, Zenon
    <3>3. b \in {i, i + 1} /\ a \in {i, i + 1} /\ u[b] + After(u[a], t) \in {0, s}
      BY <1>2, <2>1, <3>2, NearestBetween
    <3> QED
      BY <2>2, <3>3, Zenon
  <2> QED
    BY <2>3, <2>4, Zenon DEF Neighbours
<1> QED
  BY <1>5, <1>6

(* What a ray reads, x after the beam before it, y before the one after it. *)
Reads(x, y, p, q, by) ==
  IF uncovered(Min({x, y}), by) THEN RangeMax
  ELSE IF x + y = 0 THEN p
  ELSE (p * y + q * x) \div (x + y)

LEMMA ReadsRight ==
  ASSUME NEW x \in Nat, NEW y \in Nat, NEW p \in Nat, NEW q \in Nat, NEW by \in Int, by # 0
  PROVE  /\ x + y = 0 => Reads(x, y, p, q, by) = p
         /\ 2 * x > 3 * Abs(by) /\ 2 * y > 3 * Abs(by) => Reads(x, y, p, q, by) = RangeMax
         /\ \A lo \in Int, hi \in Int :
              x + y \in {0, Abs(by)} /\ lo <= p /\ p <= hi /\ lo <= q /\ q <= hi =>
                Reads(x, y, p, q, by) \in lo .. hi
<1>1. Abs(by) \in Nat \ {0}
  BY DEF Abs
<1>2. PICK g \in Nat : g = Min({x, y}) /\ g \in {x, y} /\ g <= x /\ g <= y
  BY PairBounds
<1>3. uncovered(Min({x, y}), by) <=> 2 * g > 3 * Abs(by)
  BY <1>2, Zenon DEF uncovered
<1>4. x + y = 0 => Reads(x, y, p, q, by) = p
  <2>1. x + y = 0 => ~ (2 * g > 3 * Abs(by))
    BY <1>1, <1>2
  <2> QED
    BY <1>3, <2>1, Zenon DEF Reads
<1>5. 2 * x > 3 * Abs(by) /\ 2 * y > 3 * Abs(by) => Reads(x, y, p, q, by) = RangeMax
  <2>1. 2 * x > 3 * Abs(by) /\ 2 * y > 3 * Abs(by) => 2 * g > 3 * Abs(by)
    BY <1>1, <1>2
  <2> QED
    BY <1>3, <2>1, Zenon DEF Reads
<1>6. ASSUME NEW lo \in Int, NEW hi \in Int, x + y \in {0, Abs(by)},
             lo <= p, p <= hi, lo <= q, q <= hi
      PROVE  Reads(x, y, p, q, by) \in lo .. hi
  <2>1. CASE x + y = 0
    <3>1. p \in lo .. hi
      BY <1>6
    <3> QED
      BY <1>4, <2>1, <3>1, Zenon
  <2>2. CASE x + y > 0
    <3>1. ~ (2 * g > 3 * Abs(by)) /\ x + y # 0
      BY <1>1, <1>2, <1>6, <2>2
    <3>2. (p * y + q * x) \div (x + y) \in lo .. hi
      BY <1>6, <2>2, Average
    <3> QED
      BY <1>3, <3>1, <3>2, Zenon DEF Reads
  <2> QED
    BY <2>1, <2>2
<1> QED
  BY <1>4, <1>5, <1>6, Zenon

(* What canonical_scan computes at the bearing phi. *)
Ray(ranges, from, by, phi) ==
  LET n == Len(ranges)
      r(i) == clean(ranges[i])
      theta(i) == bearing(from, by, i)
      below(i) == (phi - theta(i)) % Turn
      above(i) == (theta(i) - phi) % Turn
      a == CHOOSE i \in 1 .. n : \A j \in 1 .. n : below(i) <= below(j)
      b == CHOOSE i \in 1 .. n : \A j \in 1 .. n : above(i) <= above(j)
  IN Reads(below(a), above(b), r(a), r(b), by)

ScanOf(scan, ranges, from, by, beams) ==
  /\ DOMAIN scan = 1 .. beams /\ Len(scan) = beams
  /\ \A k \in 1 .. beams : scan[k] = Ray(ranges, from, by, wrap((Turn \div beams) * (k - 1)))

LEMMA RaysOfScan ==
  ASSUME NEW ranges, NEW from, NEW by, NEW beams \in Nat,
         Len(ranges) \in Nat, Len(ranges) > 1, by # 0
  PROVE  ScanOf(canonical_scan(ranges, from, by, beams), ranges, from, by, beams)
<1>1. ~ (Len(ranges) = 0) /\ ~ (Len(ranges) < 2 \/ by = 0)
  OBVIOUS
<1> DEFINE ray(k) == Ray(ranges, from, by, wrap((Turn \div beams) * (k - 1)))
<1>2. canonical_scan(ranges, from, by, beams) = [k \in 1 .. beams |-> ray(k)]
  BY <1>1, Zenon DEF canonical_scan, Ray, Reads
<1> HIDE DEF ray
<1>3. Len([k \in 1 .. beams |-> ray(k)]) = beams
  OBVIOUS
<1>4. /\ DOMAIN canonical_scan(ranges, from, by, beams) = 1 .. beams
      /\ Len(canonical_scan(ranges, from, by, beams)) = beams
      /\ \A k \in 1 .. beams : canonical_scan(ranges, from, by, beams)[k] = ray(k)
  BY <1>2, <1>3
<1> QED
  BY <1>4, Zenon DEF ScanOf, ray

LEMMA CleanNat ==
  ASSUME NEW range \in Nat
  PROVE  clean(range) \in Nat
<1>1. RangeMax \in Nat
  BY GeometryAssumption
<1>2. Min({range, RangeMax}) \in Nat
  BY <1>1, PairBounds
<1> QED
  BY <1>1, <1>2, Zenon DEF clean

(* A ray keeps to the beams it lies on, between and away from. *)
RaySays(ranges, from, by, phi, value) ==
  LET n == Len(ranges)
      theta(i) == bearing(from, by, i)
      off(i) == Abs(wrap(phi - theta(i)))
      step == Abs(by)
      range(i) == clean(ranges[i])
  IN /\ \A i \in 1 .. n : off(i) = 0 => value = range(i)
     /\ (\A i \in 1 .. n : 2 * off(i) > 3 * step) => value = RangeMax
     /\ \A i \in 1 .. n - 1 :
          off(i) + off(i + 1) = step =>
            value \in Min({range(i), range(i + 1)}) .. Max({range(i), range(i + 1)})

LEMMA RayRight ==
  ASSUME NEW ranges \in Seq(Nat), NEW from \in Int, NEW by \in Int, by # 0, Len(ranges) > 1,
         (Len(ranges) - 1) * Abs(by) < Turn, NEW phi \in -Half .. Half - 1
  PROVE  RaySays(ranges, from, by, phi, Ray(ranges, from, by, phi))
<1> DEFINE n == Len(ranges)
           s == Abs(by)
           r(i) == clean(ranges[i])
           theta(i) == bearing(from, by, i)
           below(i) == (phi - theta(i)) % Turn
           above(i) == (theta(i) - phi) % Turn
           off(i) == Abs(wrap(phi - theta(i)))
           a == CHOOSE i \in 1 .. n : \A j \in 1 .. n : below(i) <= below(j)
           b == CHOOSE i \in 1 .. n : \A j \in 1 .. n : above(i) <= above(j)
           f == [i \in 1 .. n |-> below(i)]
           g == [i \in 1 .. n |-> above(i)]
           e == [i \in 1 .. n |-> s * (i - 1)]
           left == by > 0
           u == [i \in 1 .. n |-> IF by > 0 THEN (phi - theta(i)) % Turn
                                            ELSE (theta(i) - phi) % Turn]
           value == Ray(ranges, from, by, phi)
<1>0. n \in Nat /\ n > 1 /\ n \in Nat \ {0} /\ Turn \in Nat /\ s \in Nat \ {0} /\ (n - 1) * s < Turn
  BY GeometryAssumption DEF Abs
<1>1. InRing(n, Turn, s, u[1], e, u) /\ \A i \in 1 .. n : theta(i) \in -Half .. Half - 1
  BY <1>0, Beams, Zenon
<1>2. ASSUME NEW i \in 1 .. n
      PROVE  /\ below(i) \in 0 .. Turn - 1 /\ above(i) = After(below(i), Turn)
             /\ off(i) = Apart(below(i), Turn)
  <2>1. theta(i) \in -Half .. Half - 1
    BY <1>1
  <2> QED
    BY <2>1, Sides, Zenon
<1>3. ASSUME NEW i \in 1 .. n
      PROVE  /\ above(i) \in 0 .. Turn - 1
             /\ off(i) <= below(i) /\ off(i) <= above(i) /\ off(i) \in Nat
             /\ r(i) \in Nat
  <2>1. After(below(i), Turn) \in 0 .. Turn - 1 /\ Apart(below(i), Turn) \in Nat
        /\ Apart(below(i), Turn) <= below(i) /\ Apart(below(i), Turn) <= After(below(i), Turn)
    BY <1>0, <1>2, Around, Zenon
  <2>2. ranges[i] \in Nat
    BY <1>0
  <2>3. r(i) \in Nat
    BY <2>2, CleanNat, Zenon
  <2> QED
    BY <1>2, <2>1, <2>3, Zenon
<1>4. value = Reads(below(a), above(b), r(a), r(b), by)
  BY Zenon DEF Ray
<1>u. u = [i \in 1 .. n |-> IF left THEN below(i) ELSE above(i)]
  OBVIOUS
<1> HIDE DEF r, theta, below, above, off, value, n, s, u
<1>5. a \in 1 .. n /\ \A j \in 1 .. n : below(a) <= below(j)
  <2>1. f \in [1 .. n -> Nat]
    BY <1>0, <1>2
  <2>2. PICK m \in 1 .. n : \A j \in 1 .. n : f[m] <= f[j]
    BY <1>0, <2>1, LeastAt, Zenon
  <2>3. \A j \in 1 .. n : below(m) <= below(j)
    BY <2>2
  <2> QED
    BY <2>3, Zenon
<1>6. b \in 1 .. n /\ \A j \in 1 .. n : above(b) <= above(j)
  <2>1. g \in [1 .. n -> Nat]
    BY <1>0, <1>3
  <2>2. PICK m \in 1 .. n : \A j \in 1 .. n : g[m] <= g[j]
    BY <1>0, <2>1, LeastAt, Zenon
  <2>3. \A j \in 1 .. n : above(m) <= above(j)
    BY <2>2
  <2> QED
    BY <2>3, Zenon
<1> HIDE DEF a, b, e
<1>7. Flanked(n, Turn, s, u[1], e, f, a, b, left)
  <2>1. f \in [1 .. n -> 0 .. Turn - 1] /\ \A i \in 1 .. n : f[i] = below(i)
    BY <1>2
  <2>2. u = IF left THEN f ELSE [i \in 1 .. n |-> After(f[i], Turn)]
    <3>1. CASE left
      BY <1>u, <3>1
    <3>2. CASE ~ left
      <4>1. \A i \in 1 .. n : above(i) = After(f[i], Turn)
        BY <1>2, <2>1, Zenon
      <4>2. u = [i \in 1 .. n |-> above(i)]
        BY <1>u, <3>2
      <4> HIDE DEF f
      <4> QED
        BY <3>2, <4>1, <4>2
    <3> QED
      BY <3>1, <3>2
  <2>3. left \in BOOLEAN
    OBVIOUS
  <2>4. \A j \in 1 .. n : f[a] <= f[j]
    BY <1>5, <2>1, Zenon
  <2>5. \A j \in 1 .. n : After(f[b], Turn) <= After(f[j], Turn)
    BY <1>2, <1>6, <2>1, Zenon
  <2> HIDE DEF f, left
  <2>6. InRing(n, Turn, s, u[1], e, IF left THEN f ELSE [i \in 1 .. n |-> After(f[i], Turn)])
    BY <1>1, <2>2, Zenon
  <2> QED
    BY <1>0, <1>5, <1>6, <2>1, <2>3, <2>4, <2>5, <2>6, Zenon DEF Flanked
<1>8. /\ \A i \in 1 .. n : off(i) = 0 => a = i /\ b = i /\ below(a) + above(b) = 0
      /\ \A i \in 1 .. n - 1 : off(i) + off(i + 1) = s =>
           a \in {i, i + 1} /\ b \in {i, i + 1} /\ below(a) + above(b) \in {0, s}
  <2>1. \A i \in 1 .. n : f[i] = below(i) /\ off(i) = Apart(f[i], Turn)
    BY <1>2
  <2>2. f[a] + After(f[b], Turn) = below(a) + above(b)
    BY <1>2, <1>5, <1>6, <2>1, Zenon
  <2>3. ASSUME NEW i \in 1 .. n, off(i) = 0
        PROVE  a = i /\ b = i /\ below(a) + above(b) = 0
    <3>1. Apart(f[i], Turn) = 0
      BY <2>1, <2>3, Zenon
    <3> HIDE DEF f, left
    <3>2. a = i /\ b = i /\ f[a] + After(f[b], Turn) = 0
      BY <1>7, <3>1, FlankedAt
    <3> QED
      BY <2>2, <3>2, Zenon
  <2>4. ASSUME NEW i \in 1 .. n - 1, off(i) + off(i + 1) = s
        PROVE  a \in {i, i + 1} /\ b \in {i, i + 1} /\ below(a) + above(b) \in {0, s}
    <3>0. i \in 1 .. n /\ i + 1 \in 1 .. n
      BY <1>0
    <3>1. Apart(f[i], Turn) + Apart(f[i + 1], Turn) = s
      BY <2>1, <2>4, <3>0, Zenon
    <3> HIDE DEF f, left
    <3>3. Neighbours(n, Turn, s, f, a, b)
      BY <1>7, FlankedAt, Zenon
    <3>2. a \in {i, i + 1} /\ b \in {i, i + 1} /\ f[a] + After(f[b], Turn) \in {0, s}
      BY <3>1, <3>3 DEF Neighbours
    <3> QED
      BY <2>2, <3>2, Zenon
  <2> QED
    BY <2>3, <2>4, Zenon
<1>9. PICK x \in Nat, y \in Nat, p \in Nat, q \in Nat :
        x = below(a) /\ y = above(b) /\ p = r(a) /\ q = r(b)
  <2>1. below(a) \in Nat /\ above(b) \in Nat /\ r(a) \in Nat /\ r(b) \in Nat
    BY <1>0, <1>2, <1>3, <1>5, <1>6
  <2> QED
    BY <2>1, Zenon
<1>10. value = Reads(x, y, p, q, by)
  BY <1>4, <1>9, Zenon
<1>11. ASSUME NEW i \in 1 .. n, off(i) = 0 PROVE value = r(i)
  <2>1. x + y = 0 /\ p = r(i)
    BY <1>8, <1>9, <1>11, Zenon
  <2>2. Reads(x, y, p, q, by) = p
    BY <2>1, ReadsRight, Zenon
  <2> QED
    BY <1>10, <2>1, <2>2, Zenon
<1>12. ASSUME \A i \in 1 .. n : 2 * off(i) > 3 * s PROVE value = RangeMax
  <2>1. PICK c \in Nat, d \in Nat : c = off(a) /\ d = off(b) /\ c <= x /\ d <= y
    BY <1>3, <1>5, <1>6, <1>9, Zenon
  <2>2. 2 * c > 3 * s /\ 2 * d > 3 * s
    BY <1>5, <1>6, <1>12, <2>1, Zenon
  <2>3. 2 * x > 3 * s /\ 2 * y > 3 * s
    BY <1>0, <2>1, <2>2, SMTT(30)
  <2>4. Reads(x, y, p, q, by) = RangeMax
    BY <2>3, ReadsRight, Zenon DEF s
  <2> QED
    BY <1>10, <2>4, Zenon
<1>13. ASSUME NEW i \in 1 .. n - 1, off(i) + off(i + 1) = s
       PROVE  value \in Min({r(i), r(i + 1)}) .. Max({r(i), r(i + 1)})
  <2>1. a \in {i, i + 1} /\ b \in {i, i + 1} /\ x + y \in {0, s}
    BY <1>8, <1>9, <1>13, Zenon
  <2>2. PICK v \in Nat, w \in Nat : v = r(i) /\ w = r(i + 1)
    <3>1. i \in 1 .. n /\ i + 1 \in 1 .. n
      BY <1>0
    <3> QED
      BY <1>3, <3>1, Zenon
  <2>3. (p = v \/ p = w) /\ (q = v \/ q = w)
    BY <1>9, <2>1, <2>2
  <2>4. PICK lo \in Nat, hi \in Nat : /\ lo = Min({v, w}) /\ hi = Max({v, w})
                                      /\ lo <= v /\ lo <= w /\ v <= hi /\ w <= hi
    BY PairBounds, Zenon
  <2>5. lo \in Int /\ hi \in Int /\ lo <= p /\ p <= hi /\ lo <= q /\ q <= hi
    BY <2>3, <2>4
  <2>6. Reads(x, y, p, q, by) \in lo .. hi
    BY <2>1, <2>5, ReadsRight, Zenon DEF s
  <2> QED
    BY <1>10, <2>2, <2>4, <2>6, Zenon
<1> QED
  BY <1>11, <1>12, <1>13, Zenon DEF RaySays, r, theta, off, s, n, value

(* What ScanKeepsBearings says of one collector. *)
KeepsBearings(cell) ==
  LET m == cell.msg
      scan == cell.value
      n == Len(m.ranges)
      phi(k) == wrap((k - 1) * (Turn \div Len(scan)))
      theta(i) == bearing(m.angle_min, m.increment, i)
      off(k, i) == Abs(wrap(phi(k) - theta(i)))
      step == Abs(m.increment)
      range(i) == clean(m.ranges[i])
  IN n > 1 /\ step > 0 => \A k \in DOMAIN scan :
       /\ \A i \in 1 .. n : off(k, i) = 0 => scan[k] = range(i)
       /\ (\A i \in 1 .. n : 2 * off(k, i) > 3 * step) => scan[k] = RangeMax
       /\ \A i \in 1 .. n - 1 :
            off(k, i) + off(k, i + 1) = step =>
              scan[k] \in Min({range(i), range(i + 1)}) .. Max({range(i), range(i + 1)})

Scanned(d, cell) == OneTurn(cell.msg) /\ cell.value = _preprocess(d, cell.msg)

LEMMA ScannedKeeps ==
  ASSUME NEW d, d.type = LaserScan,
         d.params.canonical_beams = None \/ d.params.canonical_beams \in Nat,
         NEW cell, Scanned(d, cell)
  PROVE  KeepsBearings(cell)
<1> DEFINE m == cell.msg
           ranges == m.ranges
           from == m.angle_min
           by == m.increment
           beams == IF d.params.canonical_beams = None THEN Len(ranges)
                    ELSE d.params.canonical_beams
           scan == cell.value
           phi(k) == wrap((Turn \div beams) * (k - 1))
<1>1. ranges \in Seq(Nat) /\ from \in Int /\ by \in Int /\ (Len(ranges) - 1) * Abs(by) < Turn
  BY DEF Scanned, OneTurn
<1>2. scan = canonical_scan(ranges, from, by, beams)
  <2>1. d.type \notin {Path, OccupancyGrid, PoseStamped}
    BY DEF LaserScan, Path, OccupancyGrid, PoseStamped
  <2> QED
    BY <2>1 DEF Scanned, _preprocess
<1>3. beams \in Nat /\ Len(ranges) \in Nat
  BY <1>1
<1> HIDE DEF m, ranges, from, by, beams, scan
<1>4. SUFFICES ASSUME Len(ranges) > 1, Abs(by) > 0, NEW k \in DOMAIN scan
               PROVE  RaySays(ranges, from, by, wrap((k - 1) * (Turn \div Len(scan))), scan[k])
  BY DEF KeepsBearings, RaySays, m, ranges, from, by, scan
<1>5. by # 0
  BY <1>1, <1>4 DEF Abs
<1>6. ScanOf(scan, ranges, from, by, beams)
  BY <1>2, <1>3, <1>4, <1>5, RaysOfScan, Zenon
<1>7. Len(scan) = beams /\ k \in 1 .. beams /\ scan[k] = Ray(ranges, from, by, phi(k))
  BY <1>4, <1>6, Zenon DEF ScanOf
<1>8. Turn \div beams \in Int
  BY <1>3, <1>7, GeometryAssumption
<1>9. PICK w \in Int, z \in Int : w = Turn \div beams /\ z = w * (k - 1)
  <2>1. k - 1 \in Int
    BY <1>3, <1>7
  <2>2. PICK w \in Int : w = Turn \div beams
    BY <1>8, Zenon
  <2>3. w * (k - 1) \in Int
    BY <2>1
  <2> QED
    BY <2>2, <2>3, Zenon
<1>10. (k - 1) * (Turn \div beams) = z /\ (Turn \div beams) * (k - 1) = z
  <2>1. (k - 1) * w = w * (k - 1)
    BY <1>3, <1>7
  <2> QED
    BY <1>9, <2>1, Zenon
<1>11. phi(k) = wrap(z) /\ wrap((k - 1) * (Turn \div Len(scan))) = wrap(z)
  BY <1>7, <1>10, Zenon
<1>12. wrap(z) \in -Half .. Half - 1
  BY WrapIs, Zenon DEF Half
<1>13. RaySays(ranges, from, by, wrap(z), Ray(ranges, from, by, wrap(z)))
  BY <1>1, <1>4, <1>5, <1>12, RayRight, Zenon
<1>14. scan[k] = Ray(ranges, from, by, wrap(z))
  BY <1>7, <1>11, Zenon
<1> QED
  BY <1>11, <1>13, <1>14, Zenon

Scanning ==
  /\ ~ Up => cells = <<>>
  /\ Up => /\ \A d \in ToSet(manifest.datasources) : d.type = LaserScan =>
                /\ d.params.canonical_beams = None \/ d.params.canonical_beams \in Nat
                /\ \A msg \in Messages[d.params.topic] : OneTurn(msg)
           /\ \A c \in Collectors(manifest) : type(manifest, c) = LaserScan =>
                Scanned(datasource(manifest, c), cells[c])

LEMMA SetupScans ==
  ASSUME Built, Idle, Scanning, Setup
  PROVE  Scanning'
<1>1. manifest \in Manifests /\ cells = <<>>
  BY DEF Setup, Idle, Up, Scanning
<1>2. CASE phase' = "refused"
  <2>1. cells' = <<>> /\ ~ Up'
    BY <1>1, <1>2 DEF Setup, Up
  <2> QED
    BY <2>1 DEF Scanning
<1>3. CASE phase' # "refused"
  <2> DEFINE m == IF "pose" \notin Revealed THEN withhold_pose(manifest) ELSE manifest
  <2>1. /\ manifest' = m
        /\ cells' = [c \in Collectors(m) |->
                       [msg |-> EmptyMessage, stale |-> TRUE,
                        value |-> _preprocess(datasource(m, c), EmptyMessage)]]
        /\ Up'
    BY <1>3 DEF Setup, Up
  <2>2. ToSet(m.datasources) \subseteq ToSet(manifest.datasources)
    BY <1>1, Withholding
  <2>3. \A d \in ToSet(manifest.datasources) : d.type = LaserScan =>
          /\ d.params.canonical_beams = None \/ d.params.canonical_beams \in Nat
          /\ \A msg \in Messages[d.params.topic] : OneTurn(msg)
    BY <1>1, ScansAssumption
  <2> HIDE DEF m
  <2>4. OneTurn(EmptyMessage)
    <3>1. EmptyMessage.ranges = <<>> /\ EmptyMessage.angle_min = 0 /\ EmptyMessage.increment = 0
      BY DEF EmptyMessage
    <3>2. Abs(0) = 0 /\ (0 - 1) * 0 < Turn
      BY GeometryAssumption DEF Abs
    <3>3. <<>> \in Seq(Nat) /\ Len(<<>>) = 0
      OBVIOUS
    <3> QED
      BY <3>1, <3>2, <3>3 DEF OneTurn
  <2>5. \A c \in Collectors(m) : Scanned(datasource(m, c), cells'[c])
    BY <2>1, <2>4 DEF Scanned
  <2>6. \A d \in ToSet(manifest'.datasources) : d.type = LaserScan =>
          /\ d.params.canonical_beams = None \/ d.params.canonical_beams \in Nat
          /\ \A msg \in Messages[d.params.topic] : OneTurn(msg)
    BY <2>1, <2>2, <2>3
  <2>7. \A c \in Collectors(manifest') : Scanned(datasource(manifest', c), cells'[c])
    BY <2>1, <2>5, Zenon
  <2> QED
    BY <2>1, <2>6, <2>7, Zenon DEF Scanning
<1> QED
  BY <1>2, <1>3

LEMMA DeliverScans ==
  ASSUME Built, Scanning, NEW c \in DOMAIN cells, Deliver(c)
  PROVE  Scanning'
<1> DEFINE d == datasource(manifest, c)
<1>1. PICK msg \in Messages[params(manifest, c).topic] :
        cells' = [cells EXCEPT ![c] = update(d, @, msg)]
  BY DEF Deliver
<1>2. Up /\ Up' /\ UNCHANGED manifest
  BY DEF Deliver, Up
<1>3. /\ \A x \in DOMAIN cells : x # c => cells'[x] = cells[x]
      /\ cells'[c] = update(d, cells[c], msg) /\ DOMAIN cells = Collectors(manifest)
  BY <1>1, <1>2 DEF Built
<1>4. type(manifest, c) = LaserScan => Scanned(d, cells'[c])
  <2> SUFFICES ASSUME d.type = LaserScan PROVE Scanned(d, cells'[c])
    BY DEF type
  <2>1. d.type \notin {Image, CompressedImage}
    BY DEF Image, CompressedImage, LaserScan
  <2>2. ~ raises(d, msg)
    BY <2>1 DEF raises
  <2>3. cells'[c] = [msg |-> msg, value |-> _preprocess(d, msg), stale |-> FALSE]
    BY <1>3, <2>2, Zenon DEF update
  <2>4. d \in ToSet(manifest.datasources)
    BY <1>2, <1>3, CollectedTypes
  <2>5. OneTurn(msg)
    BY <1>2, <2>4 DEF Scanning, params
  <2> QED
    BY <2>3, <2>5 DEF Scanned
<1>5. \A x \in Collectors(manifest) : type(manifest, x) = LaserScan =>
        Scanned(datasource(manifest, x), cells'[x])
  BY <1>2, <1>3, <1>4, Zenon DEF Scanning
<1> QED
  BY <1>2, <1>5 DEF Scanning, type, datasource

LEMMA OtherScans ==
  ASSUME Built, Scanning, Collect \/ Reset \/ Shutdown \/ UNCHANGED vars
  PROVE  Scanning'
<1>1. CASE Reset
  <2>1. Up /\ Up' /\ UNCHANGED manifest /\ DOMAIN cells = Collectors(manifest)
    BY <1>1 DEF Reset, Up, Built
  <2>2. \A c \in DOMAIN cells : /\ cells'[c].value = cells[c].value
                                /\ cells'[c].msg = cells[c].msg
    BY <1>1, <2>1 DEF Reset, Built
  <2> QED
    BY <2>1, <2>2 DEF Scanning, Scanned, type, datasource
<1>2. CASE Collect \/ Shutdown \/ UNCHANGED vars
  <2>1. Up' <=> Up
    BY <1>2 DEF Collect, Shutdown, Up, vars
  <2>2. UNCHANGED <<manifest, cells>>
    BY <1>2 DEF Collect, Shutdown, vars
  <2> QED
    BY <2>1, <2>2 DEF Scanning, type, datasource
<1> QED
  BY <1>1, <1>2

(* Every ray of every scan, from every laser that looks at most once in    *)
(* each direction and with any number of beams, says what the message says *)
(* about its bearing (utils.scan.canonical_scan).                          *)
THEOREM ScansRight == Spec => []ScanKeepsBearings
<1>1. Init => Scanning
  BY DEF Init, Scanning, Up
<1>2. Built /\ Idle /\ Fresh /\ Complete /\ Scanning /\ [Next]_vars => Scanning'
  BY SetupScans, DeliverScans, OtherScans DEF Next
<1>3. Built /\ Scanning => ScanKeepsBearings
  <2> SUFFICES ASSUME Built, Scanning, NEW c \in DOMAIN cells, type(manifest, c) = LaserScan
               PROVE  KeepsBearings(cells[c])
    BY Zenon DEF ScanKeepsBearings, KeepsBearings
  <2>1. Up
    BY DEF Scanning
  <2>2. c \in Collectors(manifest)
    BY <2>1 DEF Built
  <2>3. /\ datasource(manifest, c) \in ToSet(manifest.datasources)
        /\ datasource(manifest, c).type = LaserScan
    BY <2>1, <2>2, CollectedTypes DEF type
  <2> QED
    BY <2>1, <2>2, <2>3, ScannedKeeps, Zenon DEF Scanning
<1> QED
  BY Observing, <1>1, <1>2, <1>3, PTL DEF Spec

-----------------------------------------------------------------------------
(* The clear lookahead.  A cell is found by truncation, a chord is seen    *)
(* where it is sampled.                                                    *)

LEMMA QuotientIs ==
  ASSUME NEW m \in Int, NEW s \in Nat \ {0}, NEW v \in Int, v * s <= m, m < v * s + s
  PROVE  m \div s = v
<1>1. (v + 1) * s = v * s + s
  OBVIOUS
<1>2. m \div s \in Int /\ s * (m \div s) <= m /\ m < s * (m \div s) + s
  OBVIOUS
<1>3. PICK w \in Int : w = m \div s
  BY <1>2
<1>4. s * w <= m /\ m < s * w + s
  BY <1>2, <1>3, Zenon
<1>5. \A a, b \in Int, c \in Nat \ {0} : a < b => c * a + c <= c * b
  <2>1. \A a, b \in Int, c \in Nat \ {0} : a < b => c * (a + 1) <= c * b
    OBVIOUS
  <2>2. \A a \in Int, c \in Nat \ {0} : c * (a + 1) = c * a + c
    OBVIOUS
  <2> QED
    BY <2>1, <2>2
<1>6. v * s = s * v
  OBVIOUS
<1>7. ~ (w < v) /\ ~ (v < w)
  BY <1>4, <1>5, <1>6
<1> QED
  BY <1>3, <1>7

(* A point q times as fine that lies within u .. u + 1 is in u's cell. *)
Fine(q, z, s, u, x) ==
  /\ q \in Nat \ {0} /\ z \in Nat \ {0} /\ s \in Nat \ {0} /\ s = q * z
  /\ u \in Nat /\ x \in Nat /\ q * u <= x /\ x < q * u + q

FinelyIn(x, s, u, z) == x \div s = u \div z

LEMMA FineCell ==
  ASSUME NEW q, NEW z, NEW s, NEW u, NEW x, Fine(q, z, s, u, x)
  PROVE  FinelyIn(x, s, u, z)
<1>0. /\ q \in Nat \ {0} /\ z \in Nat \ {0} /\ s \in Nat \ {0} /\ s = q * z
      /\ u \in Nat /\ x \in Nat /\ q * u <= x /\ x < q * u + q
  BY DEF Fine
<1> USE <1>0
<1>1. /\ u \div z \in Nat /\ z * (u \div z) <= u /\ u + 1 <= z * (u \div z) + z
  OBVIOUS
<1>2. PICK v \in Nat : v = u \div z
  BY <1>1, Zenon
<1>3. PICK b \in Nat : b = z * v
  BY <1>2
<1>4. b <= u /\ u + 1 <= b + z
  BY <1>1, <1>2, <1>3, Zenon
<1>5. q * b <= q * u /\ q * (u + 1) <= q * (b + z)
  <2>1. \A a, c \in Nat : a <= c => q * a <= q * c
    OBVIOUS
  <2> QED
    BY <1>3, <1>4, <2>1
<1>6. q * (u + 1) = q * u + q /\ q * (b + z) = q * b + q * z
  OBVIOUS
<1>8. PICK c \in Nat, d \in Nat : c = q * b /\ d = q * u
  OBVIOUS
<1>9. v * s = c
  BY <1>3, <1>8
<1>10. v * s <= x /\ x < v * s + s
  BY <1>0, <1>5, <1>6, <1>8, <1>9
<1>11. x \div s = v
  <2>1. x \in Int /\ v \in Int /\ s \in Nat \ {0}
    OBVIOUS
  <2> QED
    BY <1>10, <2>1, QuotientIs
<1>12. x \div s = u \div z
  BY <1>2, <1>11, Zenon
<1> QED
  BY <1>12 DEF FinelyIn

(* Samples l apart, from m on, reach every window at least as wide. *)
LEMMA Sampled ==
  ASSUME NEW q \in Nat, NEW l \in Nat, NEW m \in Int, NEW b \in Int, NEW w \in Nat,
         l <= w, m < b + w, b <= m + q * l
  PROVE  \E j \in 0 .. q : b <= m + j * l /\ m + j * l < b + w
<1> DEFINE s == {j \in 0 .. q : b <= m + j * l}
<1>1. q \in s /\ s \in SUBSET Nat
  OBVIOUS
<1>2. Min(s) \in s /\ \A j \in s : Min(s) <= j
  BY <1>1, MinOf
<1>3. PICK j \in 0 .. q : b <= m + j * l /\ \A i \in s : j <= i
  BY <1>2
<1>4. CASE j = 0
  BY <1>3, <1>4
<1>5. CASE j > 0
  <2>1. j - 1 \in 0 .. q /\ j - 1 \notin s
    BY <1>3, <1>5
  <2>2. ~ (b <= m + (j - 1) * l)
    BY <2>1
  <2>3. (j - 1) * l = j * l - l /\ j * l \in Int /\ (j - 1) * l \in Int
    OBVIOUS
  <2> QED
    BY <1>3, <2>2, <2>3
<1> QED
  BY <1>3, <1>4, <1>5

Cell(n, s) == Sign(n) * (Abs(n) \div s)

LEMMA SameCell ==
  ASSUME NEW q \in Nat \ {0}, NEW u \in Int, NEW x \in Int,
         \/ u >= 0 /\ q * u <= x /\ x < q * u + q
         \/ u <= 0 /\ q * u - q < x /\ x <= q * u
  PROVE  Cell(x, q * Resolution) = Cell(u, 1 * Resolution)
<1>0. PICK z \in Nat \ {0} : z = Resolution
  BY GeometryAssumption
<1>1. PICK s \in Nat \ {0} : s = q * z
  <2>1. q * z \in Nat \ {0}
    OBVIOUS
  <2> QED
    BY <2>1
<1>z. ASSUME NEW v \in Nat, NEW i \in Nat, q * v <= i, i < q * v + q PROVE i \div s = v \div z
  <2>1. Fine(q, z, s, v, i)
    BY <1>1, <1>z DEF Fine
  <2> QED
    BY <2>1, FineCell DEF FinelyIn
<1>2. q * u \in Int /\ q * (-u) = -(q * u) /\ q * 0 = 0 /\ 0 \div z = 0 /\ 1 * z = z
  <2>1. q * u \in Int /\ q * (-u) = -(q * u)
    OBVIOUS
  <2>2. q * 0 = 0 /\ 1 * z = z
    OBVIOUS
  <2>3. 0 \div z = 0
    BY QuotientIs
  <2> QED
    BY <2>1, <2>2, <2>3
<1>3. \A i \in Int : i * 0 = 0 /\ 0 * i = 0 /\ 1 * i = i /\ (-1) * i = -i
  OBVIOUS
<1>4. CASE u = 0
  <2>1. PICK a \in Nat : a = Abs(x) /\ a < q
    BY <1>2, <1>4 DEF Abs
  <2>2. a \div s = 0
    BY <1>1, <1>2, <1>z, <2>1
  <2>3. Cell(x, s) = 0
    <3>1. Cell(x, s) = Sign(x) * 0
      BY <2>1, <2>2, Zenon DEF Cell
    <3>2. Sign(x) \in Int
      BY DEF Sign
    <3> QED
      BY <3>1, <3>2
  <2>4. Cell(u, 1 * z) = 0
    BY <1>2, <1>4 DEF Cell, Sign, Abs
  <2> QED
    BY <1>0, <1>1, <2>3, <2>4, Zenon
<1>5. CASE u > 0
  <2>0. PICK qu \in Int : qu = q * u /\ qu >= q
    <3>1. q * 1 <= q * u
      BY <1>5
    <3> QED
      BY <3>1
  <2>1. q * u <= x /\ x < q * u + q /\ x > 0
    BY <1>2, <1>5, <2>0
  <2>2. x \div s = u \div z
    <3>1. x \in Nat /\ u \in Nat
      BY <1>5, <2>1
    <3> QED
      BY <1>z, <2>1, <3>1, Zenon
  <2>3. Cell(x, s) = x \div s /\ Cell(u, z) = u \div z
    <3>1. Sign(x) = 1 /\ Abs(x) = x /\ Sign(u) = 1 /\ Abs(u) = u
      BY <1>5, <2>1 DEF Sign, Abs
    <3>2. x \div s \in Int /\ u \div z \in Int
      OBVIOUS
    <3>3. 1 * (x \div s) = x \div s /\ 1 * (u \div z) = u \div z
      BY <3>2
    <3> QED
      BY <3>1, <3>3, Zenon DEF Cell
  <2>4. Cell(x, s) = Cell(u, 1 * z)
    BY <1>2, <2>2, <2>3, Zenon
  <2> QED
    BY <1>0, <1>1, <2>4, Zenon
<1>6. CASE u < 0
  <2>0. PICK qu \in Int : qu = q * u /\ -qu >= q
    <3>1. q * 1 <= q * (-u)
      BY <1>6
    <3> QED
      BY <1>2, <3>1
  <2>1. q * u - q < x /\ x <= q * u /\ x < 0
    BY <1>2, <1>6, <2>0
  <2>2. PICK v \in Nat, y \in Nat : v = -u /\ y = -x
    BY <1>6, <2>1
  <2>3. q * v <= y /\ y < q * v + q
    BY <1>2, <2>0, <2>1, <2>2
  <2>4. y \div s = v \div z
    BY <1>1, <1>z, <2>3
  <2>5. Cell(x, s) = -1 * (y \div s) /\ Cell(u, z) = -1 * (v \div z)
    BY <1>6, <2>1, <2>2 DEF Cell, Sign, Abs
  <2> QED
    BY <1>0, <1>1, <1>2, <2>4, <2>5, Zenon
<1> QED
  BY <1>4, <1>5, <1>6

(* A sample within the span of two neighbouring units is in the cell of    *)
(* one of them; the cells on either side of the origin are one.            *)
Spans(q, u, x) == \/ u >= 0 /\ q * u <= x /\ x < q * u + (q + q)
                  \/ u < 0 /\ q * u - q < x /\ x <= q * u + q

LEMMA PairCell ==
  ASSUME NEW q \in Nat \ {0}, NEW u \in Int, NEW x \in Int, Spans(q, u, x)
  PROVE  \/ Cell(x, q * Resolution) = Cell(u, 1 * Resolution)
         \/ Cell(x, q * Resolution) = Cell(u + 1, 1 * Resolution)
<1>1. q * (u + 1) = q * u + q /\ q * u \in Int /\ u + 1 \in Int
  OBVIOUS
<1>2. PICK b \in Int, w \in Int : b = q * u /\ w = u + 1 /\ q * w = b + q
  BY <1>1
<1>3. CASE u >= 0 /\ q * u <= x /\ x < q * u + (q + q)
  <2>1. CASE x < b + q
    BY <1>2, <1>3, <2>1, SameCell
  <2>2. CASE x >= b + q
    <3>1. w >= 0 /\ q * w <= x /\ x < q * w + q
      BY <1>2, <1>3, <2>2
    <3>2. Cell(x, q * Resolution) = Cell(w, 1 * Resolution)
      BY <3>1, SameCell
    <3> QED
      BY <1>2, <3>2
  <2> QED
    BY <1>2, <2>1, <2>2
<1>4. CASE u < 0 /\ q * u - q < x /\ x <= q * u + q
  <2>1. CASE x <= b
    BY <1>2, <1>4, <2>1, SameCell
  <2>2. CASE x > b
    <3>1. w <= 0 /\ q * w - q < x /\ x <= q * w
      BY <1>2, <1>4, <2>2
    <3>2. Cell(x, q * Resolution) = Cell(w, 1 * Resolution)
      BY <3>1, SameCell
    <3> QED
      BY <1>2, <3>2
  <2> QED
    BY <1>2, <2>1, <2>2
<1> QED
  BY <1>3, <1>4 DEF Spans

(* Of q + 1 samples from a to b, q + q or fewer units on, one falls in the *)
(* cell of unit k or in that of unit k + 1.                                *)
LEMMA AxisSampled ==
  ASSUME NEW q \in Nat \ {0}, NEW a \in Int, NEW b \in Int, Abs(b - a) <= q + q,
         NEW k \in 0 .. Abs(b - a) - 1
  PROVE  \E j \in 0 .. q : \E i \in {k, k + 1} :
           Cell(q * a + j * (b - a), q * Resolution) = Cell(a + i * Sign(b - a), 1 * Resolution)
<1> DEFINE l == Abs(b - a)
           low == IF a <= b THEN a ELSE b
           u == IF a <= b THEN a + k ELSE a - (k + 1)
<1>1. /\ l \in Nat /\ low \in Int /\ u \in Int /\ k \in Nat
      /\ low <= u /\ u + 1 <= low + l
      /\ a <= b => b - a = l /\ low = a
      /\ a > b => b - a = -l /\ low = b
  BY DEF Abs
<1>2. \E j \in 0 .. q : Spans(q, u, q * low + j * l)
  <2> HIDE DEF l, low, u
  <2>1. q * low <= q * u /\ q * (u + 1) <= q * (low + l)
    <3>1. \A x, y \in Int : x <= y => q * x <= q * y
      OBVIOUS
    <3> QED
      BY <1>1, <3>1
  <2>2. q * (u + 1) = q * u + q /\ q * (low + l) = q * low + q * l
    BY <1>1
  <2>3. PICK m \in Int, e \in Int, t \in Int, w \in Nat, ql \in Int :
          m = q * low /\ e = q * u /\ t = q * u - q + 1 /\ w = q + q /\ ql = q * l
    BY <1>1
  <2>4. m <= e /\ e + q <= m + ql /\ l <= w /\ t = e - q + 1
    BY <1>1, <2>1, <2>2, <2>3 DEF l
  <2>5. CASE u >= 0
    <3>1. m < e + w /\ e <= m + q * l
      BY <2>3, <2>4
    <3>2. PICK j \in 0 .. q : e <= m + j * l /\ m + j * l < e + w
      BY <1>1, <2>4, <3>1, Sampled
    <3>3. Spans(q, u, m + j * l)
      BY <2>3, <2>5, <3>2 DEF Spans
    <3> QED
      BY <2>3, <3>3, Zenon
  <2>6. CASE u < 0
    <3>1. m < t + w /\ t <= m + q * l
      BY <2>3, <2>4
    <3>2. PICK j \in 0 .. q : t <= m + j * l /\ m + j * l < t + w
      BY <1>1, <2>4, <3>1, Sampled
    <3>3. PICK y \in Int : y = m + j * l
      BY <1>1
    <3>4. e - q < y /\ y <= e + q
      BY <2>3, <2>4, <3>2, <3>3
    <3>5. Spans(q, u, y)
      BY <2>3, <2>6, <3>4 DEF Spans
    <3> QED
      BY <2>3, <3>3, <3>5, Zenon
  <2> QED
    BY <1>1, <2>5, <2>6
<1>3. PICK n \in 0 .. q : Spans(q, u, q * low + n * l)
  BY <1>2
<1> DEFINE j == IF a <= b THEN n ELSE q - n
<1>4. j \in 0 .. q
  OBVIOUS
<1>5. PICK x \in Int : x = q * low + n * l
  BY <1>1
<1>6. q * a + j * (b - a) = x
  <2>1. CASE a <= b
    BY <1>1, <1>5, <2>1
  <2>2. CASE a > b
    <3>1. b - a = -l /\ low = b /\ j = q - n /\ l = a - b
      BY <1>1, <2>2
    <3>2. q * a + (q - n) * (b - a) = q * b + n * (a - b)
      OBVIOUS
    <3>3. x = q * b + n * (a - b)
      BY <1>5, <3>1, Zenon
    <3> HIDE DEF j
    <3> QED
      BY <3>1, <3>2, <3>3, Zenon
  <2> QED
    BY <2>1, <2>2
<1>7. \/ Cell(x, q * Resolution) = Cell(u, 1 * Resolution)
      \/ Cell(x, q * Resolution) = Cell(u + 1, 1 * Resolution)
  BY <1>1, <1>3, <1>5, PairCell, Zenon
<1>8. /\ a <= b => u = a + k * Sign(b - a) /\ u + 1 = a + (k + 1) * Sign(b - a)
      /\ a > b => u + 1 = a + k * Sign(b - a) /\ u = a + (k + 1) * Sign(b - a)
  <2>1. a < b => Sign(b - a) = 1
    BY DEF Sign
  <2>2. a > b => Sign(b - a) = -1
    BY DEF Sign
  <2>3. a # b
    BY DEF Abs
  <2>4. k * 1 = k /\ (k + 1) * 1 = k + 1 /\ k * (-1) = -k /\ (k + 1) * (-1) = -(k + 1)
    BY <1>1
  <2> QED
    BY <1>1, <2>1, <2>2, <2>3, <2>4
<1>9. \E i \in {k, k + 1} : Cell(x, q * Resolution) = Cell(a + i * Sign(b - a), 1 * Resolution)
  <2> HIDE DEF u
  <2>1. CASE a <= b
    BY <1>7, <1>8, <2>1, Zenon
  <2>2. CASE a > b
    BY <1>7, <1>8, <2>2, Zenon
  <2> QED
    BY <2>1, <2>2
<1> HIDE DEF j
<1> QED
  BY <1>4, <1>6, <1>9, Zenon

LEMMA RootOf ==
  ASSUME NEW l \in Nat
  PROVE  Isqrt(l * l) = l
<1>1. PICK s \in Nat : s = l * l
  OBVIOUS
<1>2. \A x, y \in Nat : x <= y => x * x <= y * y
  <2>1. \A x, y \in Nat : x <= y => x * x <= x * y /\ x * y <= y * y
    OBVIOUS
  <2>2. \A x, y \in Nat : x * x \in Nat /\ x * y \in Nat
    OBVIOUS
  <2> QED
    BY <2>1, <2>2
<1>3. l \in 0 .. s /\ l * l <= s /\ s < (l + 1) * (l + 1)
  <2>1. (l + 1) * (l + 1) = l * l + l + l + 1
    OBVIOUS
  <2>2. l <= l * l
    <3>1. l > 0 => l * 1 <= l * l
      OBVIOUS
    <3> QED
      BY <3>1
  <2> QED
    BY <1>1, <2>1, <2>2
<1>4. ASSUME NEW r \in 0 .. s, r * r <= s, s < (r + 1) * (r + 1)
      PROVE  r = l
  <2>1. r \in Nat
    BY <1>1
  <2>2. ~ (r + 1 <= l)
    <3>1. r + 1 <= l => (r + 1) * (r + 1) <= l * l
      BY <1>2, <2>1
    <3>2. (r + 1) * (r + 1) \in Nat /\ l * l \in Nat
      BY <2>1
    <3> QED
      BY <1>1, <1>4, <3>1, <3>2
  <2>3. ~ (l + 1 <= r)
    <3>1. l + 1 <= r => (l + 1) * (l + 1) <= r * r
      BY <1>2, <2>1
    <3>2. (l + 1) * (l + 1) \in Nat /\ r * r \in Nat
      BY <2>1
    <3> QED
      BY <1>3, <1>4, <3>1, <3>2
  <2> QED
    BY <2>1, <2>2, <2>3
<1>5. Isqrt(s) = l
  BY <1>3, <1>4, Zenon DEF Isqrt
<1> QED
  BY <1>1, <1>5, Zenon

(* Along an axis the samples are at most two units apart, unless the chord *)
(* is three units long.                                                    *)
LEMMA SamplesOf ==
  ASSUME NEW r, NEW c, NEW short, NEW l \in Nat, Distance2(r, c) = l * l, l # 3
  PROVE  /\ Samples(r, c, short) - 1 \in Nat \ {0}
         /\ l <= (Samples(r, c, short) - 1) + (Samples(r, c, short) - 1)
<1>1. Isqrt(Distance2(r, c)) = l
  BY RootOf, Zenon
<1> DEFINE n == IF short THEN l - 1 ELSE l
<1>2. Samples(r, c, short) = Max({2, n})
  <2>1. Samples(r, c, short) = Max({2, IF l * l = Distance2(r, c) /\ short THEN l - 1 ELSE l})
    BY <1>1, Zenon DEF Samples
  <2> QED
    BY <2>1, Zenon
<1>3. n \in Int /\ l - 1 <= n
  OBVIOUS
<1> HIDE DEF n
<1>4. \E m \in {2, n} : \A y \in {2, n} : m >= y
  BY <1>3
<1>5. PICK m \in Int : m = Max({2, n}) /\ m >= 2 /\ m >= n
  <2>1. Max({2, n}) \in {2, n} /\ \A y \in {2, n} : Max({2, n}) >= y
    BY <1>4 DEF Max
  <2> QED
    BY <1>3, <2>1
<1>6. m - 1 \in Nat \ {0} /\ l <= (m - 1) + (m - 1)
  BY <1>3, <1>5
<1> QED
  BY <1>2, <1>5, <1>6, Zenon

ClearAt(costmap, r, c, i) == is_clear(costmap, PointAlong(r, c, i)[1], PointAlong(r, c, i)[2], 1)

(* Across the axis of a chord nothing changes. *)
LEMMA AxisKept ==
  ASSUME NEW q \in Nat \ {0}, NEW a \in Int, NEW b \in Int, a = b, NEW j \in Int, NEW i \in Int
  PROVE  Cell(q * a + j * (b - a), q * Resolution) = Cell(a + i * Sign(b - a), 1 * Resolution)
<1>1. q * a + j * (b - a) = q * a /\ a + i * Sign(b - a) = a
  <2>1. b - a = 0 /\ Sign(b - a) = 0 /\ j * 0 = 0 /\ i * 0 = 0
    BY DEF Sign
  <2> QED
    BY <2>1
<1>2. PICK x \in Int : x = q * a
  OBVIOUS
<1>3. Cell(x, q * Resolution) = Cell(a, 1 * Resolution)
  <2>1. \/ a >= 0 /\ q * a <= x /\ x < q * a + q
        \/ a <= 0 /\ q * a - q < x /\ x <= q * a
    BY <1>2
  <2> QED
    BY <2>1, SameCell, Zenon
<1> QED
  BY <1>1, <1>2, <1>3, Zenon

OnAxis(q, a, b, k) == /\ q \in Nat \ {0} /\ a \in Int /\ b \in Int
                      /\ Abs(b - a) <= q + q /\ k \in 0 .. Abs(b - a) - 1

AxisAt(q, a, b, j, i) ==
  Cell(q * a + j * (b - a), q * Resolution) = Cell(a + i * Sign(b - a), 1 * Resolution)

AxisMet(q, a, b, k) == \E j \in 0 .. q : AxisAt(q, a, b, j, k) \/ AxisAt(q, a, b, j, k + 1)

LEMMA AxisMeets ==
  ASSUME NEW q, NEW a, NEW b, NEW k, OnAxis(q, a, b, k)
  PROVE  AxisMet(q, a, b, k)
<1>1. /\ q \in Nat \ {0} /\ a \in Int /\ b \in Int
      /\ Abs(b - a) <= q + q /\ k \in 0 .. Abs(b - a) - 1
  BY DEF OnAxis
<1>2. PICK j \in 0 .. q : \E i \in {k, k + 1} :
        Cell(q * a + j * (b - a), q * Resolution) = Cell(a + i * Sign(b - a), 1 * Resolution)
  BY <1>1, AxisSampled, ZenonT(40)
<1>3. PICK i \in {k, k + 1} :
        Cell(q * a + j * (b - a), q * Resolution) = Cell(a + i * Sign(b - a), 1 * Resolution)
  BY <1>2
<1>4. AxisAt(q, a, b, j, i)
  BY <1>3 DEF AxisAt
<1>5. i = k \/ i = k + 1
  OBVIOUS
<1>6. AxisAt(q, a, b, j, k) \/ AxisAt(q, a, b, j, k + 1)
  BY <1>4, <1>5, Zenon
<1> QED
  BY <1>6 DEF AxisMet

LEMMA AxisStays ==
  ASSUME NEW q \in Nat \ {0}, NEW a \in Int, NEW b, a = b, NEW j \in Int, NEW i \in Int
  PROVE  AxisAt(q, a, b, j, i)
<1>1. b \in Int
  OBVIOUS
<1> QED
  BY <1>1, AxisKept DEF AxisAt

LEMMA ChordUnits ==
  ASSUME NEW r \in Points, NEW c \in Points, r[1] = c[1] \/ r[2] = c[2], NEW costmap, NEW short,
         Length(r, c) # 3, chord_clear(r, c, costmap, short), NEW k \in 0 .. Length(r, c) - 1
  PROVE  ClearAt(costmap, r, c, k) \/ ClearAt(costmap, r, c, k + 1)
<1> DEFINE s == Samples(r, c, short) - 1
<1>1. PICK rx \in Int, ry \in Int, cx \in Int, cy \in Int :
        /\ rx = r[1] /\ ry = r[2] /\ cx = c[1] /\ cy = c[2]
        /\ rx = cx \/ ry = cy
  BY DEF Points
<1>2. PICK l \in Nat : l = Length(r, c) /\ Distance2(r, c) = l * l
  <2>1. Length(r, c) = Abs(cx - rx) + Abs(cy - ry)
    BY <1>1, Zenon DEF Length
  <2>2. Distance2(r, c) = (cx - rx) * (cx - rx) + (cy - ry) * (cy - ry)
    BY <1>1, Zenon DEF Distance2
  <2>3. \A d \in Int : Abs(d) \in Nat /\ Abs(d) * Abs(d) = d * d /\ (d = 0 => Abs(d) = 0)
    BY DEF Abs
  <2>4. CASE rx = cx
    <3>1. PICK d \in Int : d = cy - ry
      OBVIOUS
    <3>2. cx - rx = 0 /\ Abs(0) = 0 /\ 0 * 0 = 0
      BY <2>4 DEF Abs
    <3>3. Length(r, c) = 0 + Abs(d) /\ Distance2(r, c) = 0 + d * d
      BY <2>1, <2>2, <3>1, <3>2, Zenon
    <3>4. Abs(d) \in Nat /\ d * d = Abs(d) * Abs(d) /\ d * d \in Int
      BY <2>3
    <3> QED
      BY <3>3, <3>4
  <2>5. CASE ry = cy
    <3>1. PICK d \in Int : d = cx - rx
      OBVIOUS
    <3>2. cy - ry = 0 /\ Abs(0) = 0 /\ 0 * 0 = 0
      BY <2>5 DEF Abs
    <3>3. Length(r, c) = Abs(d) + 0 /\ Distance2(r, c) = d * d + 0
      BY <2>1, <2>2, <3>1, <3>2, Zenon
    <3>4. Abs(d) \in Nat /\ d * d = Abs(d) * Abs(d) /\ d * d \in Int
      BY <2>3
    <3> QED
      BY <3>3, <3>4
  <2> QED
    BY <1>1, <2>4, <2>5
<1>3. s \in Nat \ {0} /\ l <= s + s
  BY <1>2, SamplesOf, Zenon
<1>4. PICK q \in Nat \ {0} : q = s /\ l <= q + q
  BY <1>3, Zenon
<1> HIDE DEF s
<1>5. ASSUME NEW j \in 0 .. q
      PROVE  <<Cell(q * rx + j * (cx - rx), q * Resolution),
               Cell(q * ry + j * (cy - ry), q * Resolution)>> \notin costmap
  <2>1. is_clear(costmap, s * r[1] + j * (c[1] - r[1]), s * r[2] + j * (c[2] - r[2]), s)
    BY <1>4, Zenon DEF chord_clear, s
  <2>2. is_clear(costmap, q * rx + j * (cx - rx), q * ry + j * (cy - ry), q)
    BY <1>1, <1>4, <2>1, Zenon
  <2> QED
    BY <2>2, Zenon DEF is_clear, Cell
<1>6. ASSUME NEW i \in Int,
             <<Cell(rx + i * Sign(cx - rx), 1 * Resolution),
               Cell(ry + i * Sign(cy - ry), 1 * Resolution)>> \notin costmap
      PROVE  ClearAt(costmap, r, c, i)
  <2>1. PointAlong(r, c, i)[1] = rx + i * Sign(cx - rx)
    BY <1>1 DEF PointAlong
  <2>2. PointAlong(r, c, i)[2] = ry + i * Sign(cy - ry)
    BY <1>1 DEF PointAlong
  <2> QED
    BY <1>6, <2>1, <2>2, Zenon DEF ClearAt, is_clear, Cell
<1>7. \E j \in 0 .. q, i \in Int :
        (i = k \/ i = k + 1) /\ AxisAt(q, rx, cx, j, i) /\ AxisAt(q, ry, cy, j, i)
  <2>1. Length(r, c) = Abs(cx - rx) + Abs(cy - ry)
    BY <1>1, Zenon DEF Length
  <2>2. k \in Int /\ k + 1 \in Int /\ \A j \in 0 .. q : j \in Int
    BY <1>2
  <2>3. CASE ry = cy
    <3>1. OnAxis(q, rx, cx, k)
      BY <1>2, <1>4, <2>1, <2>3 DEF Abs, OnAxis
    <3>2. PICK j \in 0 .. q : AxisAt(q, rx, cx, j, k) \/ AxisAt(q, rx, cx, j, k + 1)
      BY <3>1, AxisMeets, Zenon DEF AxisMet
    <3>3. AxisAt(q, ry, cy, j, k) /\ AxisAt(q, ry, cy, j, k + 1)
      BY <2>2, <2>3, AxisStays, Zenon
    <3> QED
      BY <2>2, <3>2, <3>3, Zenon
  <2>4. CASE rx = cx
    <3>1. OnAxis(q, ry, cy, k)
      BY <1>2, <1>4, <2>1, <2>4 DEF Abs, OnAxis
    <3>2. PICK j \in 0 .. q : AxisAt(q, ry, cy, j, k) \/ AxisAt(q, ry, cy, j, k + 1)
      BY <3>1, AxisMeets, Zenon DEF AxisMet
    <3>3. AxisAt(q, rx, cx, j, k) /\ AxisAt(q, rx, cx, j, k + 1)
      BY <2>2, <2>4, AxisStays, Zenon
    <3> QED
      BY <2>2, <3>2, <3>3, Zenon
  <2> QED
    BY <1>1, <2>3, <2>4
<1>8. PICK j \in 0 .. q, i \in Int :
        (i = k \/ i = k + 1) /\ AxisAt(q, rx, cx, j, i) /\ AxisAt(q, ry, cy, j, i)
  BY <1>7, Zenon
<1>9. <<Cell(q * rx + j * (cx - rx), q * Resolution),
        Cell(q * ry + j * (cy - ry), q * Resolution)>> \notin costmap
  BY <1>5, Zenon
<1>10. <<Cell(rx + i * Sign(cx - rx), 1 * Resolution),
         Cell(ry + i * Sign(cy - ry), 1 * Resolution)>> \notin costmap
  BY <1>8, <1>9, Zenon DEF AxisAt
<1>11. ClearAt(costmap, r, c, i)
  BY <1>6, <1>10, Zenon
<1> QED
  BY <1>8, <1>11, Zenon

LEMMA AlongType ==
  ASSUME NEW p \in Points, NEW q \in Points, NEW d \in Int
  PROVE  PointAlong(p, q, d) \in Points
<1>1. p[1] \in Int /\ p[2] \in Int /\ q[1] \in Int /\ q[2] \in Int
  BY DEF Points
<1>2. \A x \in Int : Sign(x) \in {-1, 0, 1} /\ d * Sign(x) \in Int
  BY DEF Sign
<1>3. d * Sign(q[1] - p[1]) \in Int /\ d * Sign(q[2] - p[2]) \in Int
  BY <1>1, <1>2
<1>4. /\ p[1] + d * Sign(q[1] - p[1]) \in Int
      /\ p[2] + d * Sign(q[2] - p[2]) \in Int
  BY <1>1, <1>3
<1> QED
  BY <1>4 DEF PointAlong, Points

LEMMA LookaheadPoint ==
  ASSUME NEW path \in Seq(Points), Len(path) > 0, NEW r \in Points, NEW d \in Nat \ {0}
  PROVE  lookahead_on_path(path, r, d) \in Points
<1> DEFINE n == Len(path)
           c == closest(path, r)
           p == Projection(path[c], path[c + 1], r)
           w == Onward(path, r)
<1>1. n \in Nat /\ n > 0 /\ \A i \in 1 .. n : path[i] \in Points
  BY LenProperties, ElementOfSeq
<1>2. CASE n = 1
  BY <1>1, <1>2 DEF lookahead_on_path
<1>3. CASE n > 1
  <2>1. PICK acc : LET ends == {i \in c .. n - 1 : acc[i + 1] >= d}
                       m == Min(ends)
                   IN /\ Sums(acc, c, n, 0, w)
                      /\ lookahead_on_path(path, r, d) =
                           IF ends = {} THEN path[n]
                           ELSE PointAlong(IF m = c THEN p ELSE path[m], path[m + 1], d - acc[m])
    BY <1>3, PlannerWalks
  <2>2. c \in 1 .. n - 1
    BY <1>3, ClosestIs
  <2>3. w \in [c .. n -> Nat]
    BY <1>3, PlannerWalks
  <2>4. \A i \in c .. n : acc[i] \in Int
    <3>1. \A v : v \in [c .. n -> Nat] => v \in [c .. n -> Int]
      OBVIOUS
    <3>2. w \in [c .. n -> Int]
      BY <2>3, <3>1, Zenon
    <3>3. c \in Nat /\ n \in Nat /\ c <= n /\ 0 \in Int
      BY <1>1, <2>2
    <3>4. Sums(acc, c, n, 0, w)
      BY <2>1, Zenon
    <3> HIDE DEF c, n, w
    <3> QED
      BY <3>2, <3>3, <3>4, SumType, Zenon
  <2>5. p \in Points
    <3>1. c \in 1 .. n /\ c + 1 \in 1 .. n
      BY <1>1, <2>2
    <3> QED
      BY <1>1, <3>1, ProjectionType
  <2> DEFINE ends == {i \in c .. n - 1 : acc[i + 1] >= d}
             m == Min(ends)
  <2>6. CASE ends = {}
    BY <1>1, <2>1, <2>6
  <2>7. CASE ends # {}
    <3>1. m \in c .. n - 1
      <4>1. ends \in SUBSET Nat
        BY <2>2
      <4> QED
        BY <2>7, <4>1, MinOf
    <3>2. /\ m \in 1 .. n /\ m + 1 \in 1 .. n /\ m \in c .. n
      BY <1>1, <2>2, <3>1
    <3> DEFINE a == IF m = c THEN p ELSE path[m]
               b == path[m + 1]
               k == d - acc[m]
    <3>3. a \in Points /\ b \in Points
      BY <1>1, <2>5, <3>2, Zenon
    <3>4. k \in Int
      <4>1. acc[m] \in Int
        BY <2>4, <3>2, Zenon
      <4> QED
        BY <4>1
    <3>5. lookahead_on_path(path, r, d) = PointAlong(a, b, k)
      BY <2>1, <2>7, Zenon
    <3>6. PointAlong(a, b, k) \in Points
      <4> HIDE DEF a, b, k
      <4> QED
        BY <3>3, <3>4, AlongType
    <3> QED
      BY <3>5, <3>6, Zenon
  <2> QED
    BY <2>6, <2>7
<1>4. n = 1 \/ n > 1
  <2>1. PICK k \in Nat : k = n /\ k > 0
    BY <1>1, Zenon
  <2>2. k = 1 \/ k > 1
    BY <2>1
  <2> QED
    BY <2>1, <2>2, Zenon
<1> QED
  BY <1>2, <1>3, <1>4, Zenon

(* A carrot at c is the minimum lookahead, which goes unchecked, or its    *)
(* chord is slanted or three units long, or of any two units in a row of   *)
(* the chord one is clear.                                                 *)
Steers(c, path, r, costmap) ==
  \/ c = lookahead_on_path(path, r, Minimum)
  \/ r[1] # c[1] /\ r[2] # c[2]
  \/ Length(r, c) = 3
  \/ \A k \in 0 .. Length(r, c) - 1 : ClearAt(costmap, r, c, k) \/ ClearAt(costmap, r, c, k + 1)

(* The carrot of every plan, pose, lookahead and costmap is such a point   *)
(* (lookahead_clear_on_path, CostmapGrid.is_clear).                        *)
LEMMA CarrotClears ==
  ASSUME NEW path \in Seq(Points), Len(path) > 0, NEW r \in Points, NEW lookahead \in Nat,
         NEW costmap, NEW short
  PROVE  Steers(lookahead_clear_on_path(path, r, lookahead, costmap, short), path, r, costmap)
<1> DEFINE c == lookahead_clear_on_path(path, r, lookahead, costmap, short)
           clear == {d \in Candidates(lookahead) :
                       chord_clear(r, lookahead_on_path(path, r, d), costmap, d \in short)}
<1>1. c = lookahead_on_path(path, r, IF clear = {} THEN Minimum ELSE Max(clear))
  BY Zenon DEF lookahead_clear_on_path
<1>2. CASE clear = {}
  BY <1>1, <1>2, Zenon DEF Steers
<1>3. CASE clear # {}
  <2>1. clear \in SUBSET (Minimum .. lookahead)
    BY DEF Candidates
  <2>2. PICK d \in clear : d = Max(clear)
    <3>1. clear \in SUBSET (1 .. lookahead)
      BY <2>1 DEF Minimum
    <3> QED
      BY <1>3, <3>1, MaxOf, Zenon
  <2>3. d \in Nat \ {0}
    BY <2>1 DEF Minimum
  <2>4. c = lookahead_on_path(path, r, d)
    BY <1>1, <1>3, <2>2, Zenon
  <2>5. c \in Points
    BY <2>3, <2>4, LookaheadPoint, Zenon
  <2>6. PICK v : chord_clear(r, c, costmap, v)
    BY <2>4, Zenon
  <2> HIDE DEF c
  <2>7. ASSUME r[1] = c[1] \/ r[2] = c[2], Length(r, c) # 3, NEW k \in 0 .. Length(r, c) - 1
        PROVE  ClearAt(costmap, r, c, k) \/ ClearAt(costmap, r, c, k + 1)
    <3>1. k \in 0 .. Length(r, c) - 1
      BY <2>7
    <3> QED
      BY <2>5, <2>6, <2>7, <3>1, ChordUnits
  <2> QED
    BY <2>7, Zenon DEF c, Steers
<1> QED
  BY <1>2, <1>3, Zenon

(* What a name of the plan's or the costmap's gives the planner. *)
At(k) == get_observation(cells[Source(pipeline.collectors, k)])

Carrot(c, r, short) ==
  At("global_plan") \notin {None, <<>>} /\ r # None /\ At("costmap") # None =>
    \E d \in Nat : c = lookahead_clear_on_path(At("global_plan"), r, d, At("costmap"), short)

(* The subgoals computed by the first i generators. *)
Aimed(s, i, short) ==
  ~ s.raised => \A g \in Sources(i) : datasource(manifest, g).type = Subgoal =>
    /\ "robot_pose_from_tf" \in Turned(i)
    /\ Carrot(s.computed[g], s.out["robot_pose_from_tf"], short)

(* Everything a subgoal is computed from is what its names hold. *)
LEMMA SubgoalCarrot ==
  ASSUME NEW d, d.params.lookahead \in Nat, NEW out, NEW short,
         out["global_plan"] = At("global_plan"), out["costmap"] = At("costmap")
  PROVE  Carrot(subgoal(d, out, short), out["robot_pose_from_tf"], short)
<1> DEFINE r == out["robot_pose_from_tf"]
<1>1. SUFFICES ASSUME At("global_plan") # None, At("global_plan") # <<>>, r # None,
                      At("costmap") # None
               PROVE  \E l \in Nat : subgoal(d, out, short) =
                        lookahead_clear_on_path(At("global_plan"), r, l, At("costmap"), short)
  BY DEF Carrot
<1>2. subgoal(d, out, short) =
        lookahead_clear_on_path(At("global_plan"), r, d.params.lookahead, At("costmap"), short)
  BY <1>1, Zenon DEF subgoal
<1> QED
  BY <1>2, Zenon

LEMMA GenerateAims ==
  ASSUME Built, Up, AsNamed, Following, NEW readings, NEW short,
         NEW i \in 1 .. Len(pipeline.generators), NEW s, Collecting(s, i - 1),
         Aimed(s, i - 1, short)
  PROVE  Aimed(generate(s, pipeline.generators[i], readings, short), i, short)
<1> DEFINE G == pipeline.generators
           g == G[i]
           d == datasource(manifest, g.source)
           K == Keys(pipeline.collectors)
           pose == "robot_pose_from_tf"
           next == generate(s, g, readings, short)
<1>1. /\ Len(G) \in Nat /\ DOMAIN G = 1 .. Len(G) /\ g.source \in Generated(manifest)
      /\ \A k, j \in 1 .. Len(G) : G[k].name = G[j].name => k = j
  BY BuiltGenerators
<1>2. /\ Turned(i) = Turned(i - 1) \union {g.name} /\ Sources(i) = Sources(i - 1) \union {g.source}
      /\ g.name \notin Turned(i - 1) /\ Turned(i - 1) \subseteq Keys(G)
  <2>1. /\ 1 .. i = (1 .. (i - 1)) \union {i} /\ i \notin 1 .. (i - 1)
        /\ 1 .. (i - 1) \subseteq 1 .. Len(G)
    BY <1>1
  <2> QED
    BY <1>1, <2>1 DEF Turned, Sources, Keys
<1>3. SUFFICES ASSUME ~ next.raised, NEW h \in Sources(i), datasource(manifest, h).type = Subgoal
               PROVE  pose \in Turned(i) /\ Carrot(next.computed[h], next.out[pose], short)
  BY Zenon DEF Aimed
<1> HIDE DEF d, K, G, g, pose
<1>4. ~ s.raised /\ DOMAIN s = {"out", "computed", "tf", "looks", "raised"} /\ Computed(s, i - 1)
  <2>1. s.raised => next.raised
    BY DEF generate
  <2> QED
    BY <1>3, <2>1 DEF Collecting
<1>5. DOMAIN s.out = K \union Turned(i - 1) /\ DOMAIN s.computed = Sources(i - 1)
  BY <1>4, Zenon DEF Computed, K
<1>6. \A f \in Sources(i - 1) : datasource(manifest, f).type = Subgoal =>
        pose \in Turned(i - 1) /\ Carrot(s.computed[f], s.out[pose], short)
  BY <1>4, Zenon DEF Aimed, pose
<1>7. CASE g.source \in DOMAIN s.computed
  <2>1. next.computed = s.computed /\ next.out = Bind(s.out, g.name, s.computed[g.source])
    BY <1>4, <1>7 DEF generate
  <2>2. h \in Sources(i - 1)
    BY <1>2, <1>5, <1>7
  <2>3. pose \in Turned(i - 1) /\ Carrot(s.computed[h], s.out[pose], short)
    BY <1>3, <1>6, <2>2
  <2>4. next.out[pose] = s.out[pose]
    <3>1. pose \in DOMAIN s.out /\ pose # g.name
      BY <1>2, <1>5, <2>3
    <3>2. \A v : Bind(s.out, g.name, v)[pose] = s.out[pose]
      BY <3>1 DEF Bind
    <3> QED
      BY <2>1, <3>2, Zenon
  <2> QED
    BY <1>2, <2>1, <2>3, <2>4
<1>8. CASE g.source \notin DOMAIN s.computed
  <2> DEFINE value == IF d.type = RobotPose
                      THEN _last_pose(s.tf[g.source], readings[s.looks + 1])
                      ELSE subgoal(d, s.out, short)
  <2>1. ~ missing(d, s.out)
    BY <1>3, <1>4, <1>8 DEF generate, compute, d
  <2>2. /\ next.out = Bind(s.out, g.name, value)
        /\ next.computed = Bind(s.computed, g.source, value)
    BY <1>4, <1>8, <2>1 DEF generate, compute, d
  <2> HIDE DEF next
  <2>3. CASE h # g.source
    <3>1. h \in Sources(i - 1)
      BY <1>2, <2>3
    <3>2. pose \in Turned(i - 1) /\ Carrot(s.computed[h], s.out[pose], short)
      BY <1>3, <1>6, <3>1
    <3>3. next.computed[h] = s.computed[h] /\ next.out[pose] = s.out[pose]
      <4>1. pose \in DOMAIN s.out /\ pose # g.name /\ h \in DOMAIN s.computed
        BY <1>2, <1>5, <3>1, <3>2
      <4>2. \A v : /\ Bind(s.out, g.name, v)[pose] = s.out[pose]
                   /\ Bind(s.computed, g.source, v)[h] = s.computed[h]
        BY <2>3, <4>1 DEF Bind
      <4> HIDE DEF value
      <4> QED
        BY <2>2, <4>2, Zenon
    <3> QED
      BY <1>2, <3>2, <3>3
  <2>4. CASE h = g.source
    <3>1. d.type = Subgoal /\ d.type # RobotPose
      BY <1>3, <2>4 DEF d, Subgoal, RobotPose
    <3>2. pose \in Turned(i - 1)
      <4>1. pose \in DOMAIN s.out
        BY <2>1, <3>1 DEF missing, requires, pose
      <4>2. pose \notin K
        BY DEF AsNamed, K, pose
      <4> QED
        BY <1>5, <4>1, <4>2
    <3>3. next.computed[h] = subgoal(d, s.out, short) /\ next.out[pose] = s.out[pose]
      <4>1. pose \in DOMAIN s.out /\ pose # g.name
        BY <1>2, <1>5, <3>2
      <4>2. \A v : /\ Bind(s.out, g.name, v)[pose] = s.out[pose]
                   /\ Bind(s.computed, g.source, v)[g.source] = v
        BY <4>1 DEF Bind
      <4>3. value = subgoal(d, s.out, short)
        BY <3>1, Zenon
      <4> HIDE DEF value
      <4> QED
        BY <2>2, <2>4, <4>2, <4>3, Zenon
    <3>4. ASSUME NEW k \in {"global_plan", "costmap"} PROVE s.out[k] = At(k)
      <4>1. k \in K \ Turned(i - 1)
        BY <1>2 DEF AsNamed, K, G
      <4>2. s.out[k] = observed[k]
        BY <1>4, <4>1, Zenon DEF Computed, K
      <4> QED
        BY <4>1, <4>2 DEF observed, At, K
    <3>5. d.params.lookahead \in Nat
      <4>1. d \in ToSet(manifest.datasources)
        BY <1>1, GeneratedTypes DEF d
      <4> QED
        BY <3>1, <4>1 DEF Following
    <3>6. Carrot(subgoal(d, s.out, short), s.out[pose], short)
      BY <3>4, <3>5, SubgoalCarrot DEF pose
    <3> QED
      BY <1>2, <3>2, <3>3, <3>6
  <2> QED
    BY <2>3, <2>4
<1> QED
  BY <1>7, <1>8

LEMMA CollectAims ==
  ASSUME Built, Up, AsNamed, Following, NEW readings, NEW short
  PROVE  Aimed(collect(readings, short), Len(pipeline.generators), short)
<1> DEFINE n == Len(pipeline.generators)
<1>1. /\ pipeline.generators \in Seq([name : Names(manifest), source : Generated(manifest)])
      /\ n \in Nat
  BY BuiltGenerators
<1>2. PICK run : /\ Runs(run, "generate", readings, short, start, pipeline.generators)
                 /\ collect(readings, short) = run[n]
  BY <1>1, CollectRuns
<1> DEFINE Kept == {i \in Nat : i <= n => Collecting(run[i], i) /\ Aimed(run[i], i, short)}
<1>3. 0 \in Kept
  <2>1. Aimed(start, 0, short)
    BY DEF Aimed, Sources
  <2> QED
    BY <1>2, <2>1, StartCollecting DEF Runs
<1>4. ASSUME NEW i \in Nat, i \in Kept PROVE i + 1 \in Kept
  <2> SUFFICES ASSUME i + 1 <= n
               PROVE  Collecting(run[i + 1], i + 1) /\ Aimed(run[i + 1], i + 1, short)
    OBVIOUS
  <2>1. i + 1 \in 1 .. n /\ (i + 1) - 1 = i /\ Collecting(run[i], i) /\ Aimed(run[i], i, short)
    BY <1>1, <1>4
  <2> DEFINE next == generate(run[i], pipeline.generators[i + 1], readings, short)
  <2>2. run[i + 1] = next
    BY <1>2, <2>1 DEF Runs, turn
  <2>3. Collecting(next, i + 1)
    BY <2>1, GenerateCollects
  <2>4. Aimed(next, i + 1, short)
    BY <2>1, GenerateAims
  <2> QED
    BY <2>2, <2>3, <2>4
<1> HIDE DEF Kept
<1>5. Nat \subseteq Kept
  BY <1>3, <1>4, Inductive
<1> QED
  BY <1>1, <1>2, <1>5 DEF Kept

LEMMA CollectSteers ==
  ASSUME Built, Following, Collect
  PROVE  CarrotChordClear'
<1>1. PICK readings \in [1 .. Cardinality(DOMAIN tf) -> Poses \union {None}],
           short \in SUBSET Roundings :
        LET s == collect(readings, short)
        IN obs' = IF s.raised THEN None ELSE wire(s.out)
  BY DEF Collect
<1>2. Up /\ UNCHANGED <<manifest, pipeline, cells>>
  BY DEF Collect, Up
<1> DEFINE s == collect(readings, short)
           N == Len(pipeline.generators)
           plan == At("global_plan")
           costmap == At("costmap")
           pose == "robot_pose_from_tf"
<1>3. SUFFICES ASSUME obs' # None, AsNamed, NEW n \in DOMAIN obs',
                      type(manifest, source(n)) = Subgoal,
                      plan \notin {None, <<>>}, obs'[pose] # None, costmap # None
               PROVE  Steers(obs'[n], plan, obs'[pose], costmap)
  <2>1. /\ AsNamed' = AsNamed
        /\ \A k : /\ source(k)' = source(k)
                  /\ type(manifest, source(k))' = type(manifest, source(k))
    BY <1>2 DEF AsNamed, source, type, datasource
  <2>2. \A k : get_observation(cells[source(k)])' = get_observation(cells[source(k)])
    BY <1>2, <2>1
  <2>3. AsNamed => /\ get_observation(cells[source("global_plan")]) = plan
                   /\ get_observation(cells[source("costmap")]) = costmap
    BY DEF AsNamed, source, At
  <2> QED
    BY <2>1, <2>2, <2>3 DEF CarrotChordClear, Observed, Steers, ClearAt
<1>4. /\ Collecting(s, N) /\ Aimed(s, N, short)
      /\ s.tf \in [Trackers(manifest) -> Poses \union {None}]
  BY <1>2, <1>3, CollectCollects, CollectAims, CollectLooks DEF Built
<1>5. obs' = wire(s.out) /\ ~ s.raised
  BY <1>1, <1>3
<1> HIDE DEF s, plan, costmap
<1>6. n \in DOMAIN s.out /\ obs'[n] = s.out[n]
  BY <1>5 DEF wire
<1>7. /\ source(n) \in Generated(manifest) \intersect Bound(pipeline.generators)
      /\ s.out[n] = s.computed[source(n)]
  <2>1. source(n) \notin Collectors(manifest)
    <3>1. source(n) \in Collectors(manifest) => type(manifest, source(n)) \in CollectorTypes
      BY <1>2, CollectedTypes DEF type
    <3>2. Subgoal \notin CollectorTypes
      BY DEF Subgoal, CollectorTypes, LaserScan, Image, CompressedImage, Path, OccupancyGrid,
             PoseStamped
    <3> QED
      BY <1>3, <3>1, <3>2
  <2> QED
    BY <1>2, <1>4, <1>5, <1>6, <2>1, CollectedValue
<1>8. Carrot(obs'[n], s.out[pose], short)
  <2>1. source(n) \in Sources(N)
    BY <1>2, <1>7, Loop
  <2>2. datasource(manifest, source(n)).type = Subgoal
    BY <1>3 DEF type
  <2> QED
    BY <1>4, <1>5, <1>6, <1>7, <2>1, <2>2, Zenon DEF Aimed
<1>9. obs'[pose] = s.out[pose] /\ obs'[pose] \in Points
  <2>1. pose \in DOMAIN s.out
    <3>1. DOMAIN s.out = Keys(pipeline.collectors) \union Turned(N)
      BY <1>4, <1>5, Zenon DEF Collecting, Computed
    <3>2. Keys(pipeline.generators) = Turned(N)
      BY <1>2, Loop
    <3>3. pose \in Keys(pipeline.generators)
      BY <1>3 DEF AsNamed
    <3> QED
      BY <3>1, <3>2, <3>3
  <2>2. type(manifest, source(pose)) = RobotPose /\ RobotPose # OccupancyGrid
    BY <1>3 DEF AsNamed, RobotPose, OccupancyGrid
  <2>3. obs'[pose] = s.out[pose]
    BY <1>5, <2>1, <2>2 DEF wire
  <2>4. source(pose) \notin Collectors(manifest)
    <3>1. source(pose) \in Collectors(manifest) => type(manifest, source(pose)) \in CollectorTypes
      BY <1>2, CollectedTypes DEF type
    <3>2. RobotPose \notin CollectorTypes
      BY DEF RobotPose, CollectorTypes, LaserScan, Image, CompressedImage, Path, OccupancyGrid,
             PoseStamped
    <3> QED
      BY <2>2, <3>1, <3>2
  <2>5. /\ source(pose) \in Generated(manifest)
        /\ source(pose) \in Trackers(manifest) => s.out[pose] = s.tf[source(pose)]
    BY <1>2, <1>4, <1>5, <2>1, <2>4, CollectedValue
  <2>6. source(pose) \in Trackers(manifest) /\ s.out[pose] = s.tf[source(pose)]
    <3>1. PICK g \in Generated(manifest) : g = source(pose)
      BY <2>5
    <3>2. datasource(manifest, g).type = RobotPose
      BY <2>2, <3>1 DEF type
    <3>3. g \in Trackers(manifest)
      BY <1>2, <3>2, GeneratedTypes
    <3> QED
      BY <2>5, <3>1, <3>3
  <2>7. s.out[pose] \in Poses \union {None}
    BY <1>4, <2>6
  <2> QED
    BY <1>3, <2>3, <2>7, PlansAssumption DEF Points
<1>10. plan \in Seq(Points) /\ Len(plan) > 0
  <2>1. PICK c : c = Source(pipeline.collectors, "global_plan")
    OBVIOUS
  <2>2. plan = get_observation(cells[c]) /\ c = source("global_plan")
    BY <1>3, <2>1 DEF plan, At, AsNamed, source
  <2>3. c \in Collectors(manifest)
    <3>1. /\ pipeline.collectors \in Dicts(Names(manifest), Collectors(manifest))
          /\ "global_plan" \in Keys(pipeline.collectors)
      BY <1>2, <1>3 DEF Built, Pipelines, AsNamed
    <3> QED
      BY <2>1, <3>1, LookupDict
  <2>4. type(manifest, c) = Path
    BY <1>3, <2>2 DEF AsNamed
  <2>5. plan \in Plans
    BY <1>2, <1>3, <2>2, <2>3, <2>4 DEF Following, get_observation
  <2>6. plan \in Seq(Points) /\ plan # <<>>
    BY <1>3, <2>5 DEF Plans
  <2> QED
    BY <2>6, EmptySeq, LenProperties
<1>11. PICK l \in Nat : obs'[n] = lookahead_clear_on_path(plan, obs'[pose], l, costmap, short)
  BY <1>3, <1>8, <1>9, Zenon DEF Carrot, plan, costmap
<1> QED
  BY <1>9, <1>10, <1>11, CarrotClears, Zenon

(* For every manifest, plan, pose and costmap: past the minimum lookahead  *)
(* no two units in a row of a straight chord are blocked, but for a chord  *)
(* of three units (lookahead_clear_on_path, SubgoalGenerator._generate).   *)
THEOREM CarrotRight == Spec => []CarrotChordClear
<1> DEFINE Inv == Following /\ CarrotChordClear
<1>1. Init => Inv
  BY DEF Init, Following, CarrotChordClear, Up
<1>2. Built /\ Idle /\ Fresh /\ Complete /\ Inv /\ [Next]_vars => Inv'
  <2> SUFFICES ASSUME Built, Idle, Following, CarrotChordClear, [Next]_vars PROVE Inv'
    OBVIOUS
  <2>1. Following'
    BY SetupFollows, DeliverFollows, OtherFollows DEF Next
  <2>2. CASE obs' = None
    BY <2>1, <2>2 DEF CarrotChordClear
  <2>3. CASE Collect
    BY <2>1, <2>3, CollectSteers
  <2>4. CASE Setup
    BY <2>1, <2>4 DEF Setup, Idle, Up, CarrotChordClear
  <2>5. CASE UNCHANGED vars
    BY <2>1, <2>5 DEF vars, CarrotChordClear, AsNamed, Observed, type, source, datasource
  <2> QED
    BY <2>2, <2>3, <2>4, <2>5 DEF Next, Deliver, Reset, Shutdown
<1>3. Inv => CarrotChordClear
  OBVIOUS
<1> QED
  BY Observing, <1>1, <1>2, <1>3, PTL DEF Spec
=============================================================================
