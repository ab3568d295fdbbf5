--------------------------- MODULE FileWatchProofs ---------------------------
(***************************************************************************)
(* Proofs about FileWatch, for any directories, patterns, links and        *)
(* entries, and any number of edits.                                       *)
(***************************************************************************)
EXTENDS FileWatch, FiniteSetTheorems, TLAPS

(***************************************************************************)
(* The inductive invariant.                                                *)
(***************************************************************************)
Name == Dirs \cup Fragments \cup {"main", "env"}
Queued(op, name) == \E i \in DOMAIN events : events[i] = <<op, name>>
Marked(name) == \E i \in DOMAIN events : events[i][2] = name

(* The disk: fixed files and their directories stay.                       *)
DiskOK ==
  /\ DOMAIN disk = {"dirs", "file", "main", "env"}
  /\ disk.dirs \subseteq Dirs /\ Base \in disk.dirs /\ \A f \in Fixed : DirOf[f] \in disk.dirs
  /\ DOMAIN disk.file = Fragments /\ \A f \in Targets : disk.file[f].kind # "none"
  /\ \A f \in Fragments : disk.file[f].kind # "none" => DirOf[f] \in disk.dirs
  /\ Included(disk) \subseteq Patterns
Event == {"create", "write", "remove"} \X Name
QueueOK == events \in Seq(Event)
FlagsOK == armed \in BOOLEAN /\ envChanged \in BOOLEAN /\ gap \in BOOLEAN /\ (envChanged => armed)
(* Where the watcher is.                                                   *)
ControlOK ==
  /\ pc \in {"load", "watch", "refresh", "add", "match", "read", "idle"}
  /\ ret \in {"", "event", "boot", "read"}
  /\ pc \in {"refresh", "add"} => ret # ""
  /\ pc \in {"load", "watch"} => ret = ""
  /\ ret = "boot" => pc \in {"refresh", "add"}
  /\ ret = "read" => pc \in {"refresh", "add", "read"}
  /\ pc = "read" => ret = "read"
  /\ ret = "event" /\ pc \in {"refresh", "add"} => events # << >>
  /\ pc # "add" => found = {}
  /\ includePatterns \subseteq Patterns
(* An event that makes a directory of a pattern arms the reload before it  *)
(* is matched.                                                             *)
MatchOK ==
  /\ ret = "event" => armed
  /\ pc = "match" => /\ events # << >>
                     /\ events[1][1] = "create" /\ isPatternDirAncestor(includePatterns, events[1][2]) => armed

(* Nothing the patterns name can change without an event.                  *)
Covered ==
  \A p \in includePatterns :
    /\ Chain(PatDir[p]) \cap disk.dirs \subseteq watches \cup found
    /\ \A l \in PatFiles[p] \cap DOMAIN Target : DirOf[Target[l]] \in watches \cup found /\ Target[l] \in includeFiles
(* An event in the queue will be taken for a change, or for a new directory *)
(* of a pattern.                                                           *)
Relevant(name) == name \in {"main", "env"} \cup includeFiles \/ matchesAnyPattern(includePatterns, name)
Made == \E x \in Dirs : Queued("create", x) /\ isPatternDirAncestor(includePatterns, x)
WillRead == armed \/ ret = "read" \/ Made \/ \E x \in Name : Marked(x) /\ Relevant(x)
WillLook == armed \/ (ret = "read" /\ pc = "refresh") \/ Marked("main")

Known ==
  /\ {DirOf["main"], DirOf["env"]} \subseteq watches
  /\ disk.env = procEnv \/ envChanged \/ Marked("env")
  /\ WillRead \/ disk.main.kind = "none" \/ emitted = <<ResolveIncludes(disk), disk.env>>
  /\ WillLook \/ includePatterns = Included(disk)
  /\ WillLook \/ Made \/ Covered
(* Until the watcher runs the disk is as it was loaded.                    *)
Loaded ==
  /\ emitted = <<ResolveIncludes(disk), disk.env>> /\ procEnv = disk.env
  /\ ret = "boot" => {DirOf["main"], DirOf["env"]} \subseteq watches
  /\ pc = "add" => includePatterns = Included(disk) /\ Covered
Starting == pc = "watch" \/ ret = "boot"
WatchInv ==
  /\ DiskOK /\ QueueOK /\ FlagsOK /\ ControlOK /\ MatchOK
  /\ ~gap => /\ Starting => Loaded
             /\ pc # "load" /\ ~Starting => Known

(***************************************************************************)
(* Directories, documents and the queue.                                   *)
(***************************************************************************)
USE WorldAssumption

LEMMA ChainFacts ==
  ASSUME NEW d \in Dirs
  PROVE  /\ d \in Chain(d) /\ Chain(d) \subseteq Dirs
         /\ \A x \in Chain(d) \ {Base} : Parent[x] \in Chain(d)
<1>1. d \in Chain(d) /\ Chain(d) \subseteq Dirs BY DEF Chain
<1>2. ASSUME NEW x \in Chain(d) \ {Base} PROVE Parent[x] \in Chain(d)
  <2>1. x \in Dirs \ {Base} /\ Parent[x] \in Dirs BY <1>2 DEF Chain
  <2>2. ASSUME NEW S \in SUBSET Dirs, d \in S, \A y \in S \ {Base} : Parent[y] \in S
        PROVE  Parent[x] \in S
    <3>1. x \in S BY <1>2, <2>2 DEF Chain
    <3> QED BY <3>1, <2>2, <2>1
  <2> QED BY <2>1, <2>2 DEF Chain
<1> QED BY <1>1, <1>2

LEMMA RealIsFinal ==
  ASSUME NEW f \in Fragments
  PROVE  Real(f) \in Fragments /\ Real(Real(f)) = Real(f)
BY DEF Real, Targets

(* What a document is read from.                                           *)
LEMMA SameSources ==
  ASSUME NEW d, NEW e, e.main = d.main, Included(d) \subseteq Patterns,
         \A p \in Included(d) : Glob(e, p) = Glob(d, p),
         \A p \in Included(d) : \A f \in Glob(d, p) : e.file[Real(f)] = d.file[Real(f)]
  PROVE  ResolveIncludes(e) = ResolveIncludes(d)
<1>1. Included(e) = Included(d) BY DEF Included
<1>2. \A p \in Included(d) : globInclude(e, p) = globInclude(d, p) BY DEF globInclude
<1> DEFINE M(x) == [p \in Included(x) |-> globInclude(x, p)]
           N(x) == UNION {DOMAIN M(x)[p] : p \in Included(x)}
<1>3. M(e) = M(d) BY <1>1, <1>2
<1>4. N(e) = N(d) BY <1>1, <1>3
<1>5. ASSUME NEW f \in N(d) PROVE e.file[Real(f)] = d.file[Real(f)]
  <2>1. PICK p \in Included(d) : f \in DOMAIN globInclude(d, p) OBVIOUS
  <2>2. PICK g \in Glob(d, p) : f = Real(g) BY <2>1 DEF globInclude
  <2>3. g \in Fragments BY <2>2 DEF Glob
  <2> QED BY <2>1, <2>2, <2>3, RealIsFinal
<1> HIDE DEF M, N
<1>6. [f \in N(e) |-> e.file[Real(f)]] = [f \in N(d) |-> d.file[Real(f)]] BY <1>4, <1>5
<1>7. \A x : Sources(x) = [main |-> x.main, matches |-> M(x), file |-> [f \in N(x) |-> x.file[Real(f)]]]
  BY DEF Sources, M, N
<1>8. Sources(e) = Sources(d) BY <1>3, <1>6, <1>7
<1> QED BY <1>8 DEF ResolveIncludes

LEMMA QueueGrows ==
  ASSUME QueueOK, NEW named \in Seq(Event), events' = events \o named
  PROVE  /\ QueueOK'
         /\ \A op, n : Queued(op, n) => Queued(op, n)'
         /\ \A n : Marked(n) => Marked(n)'
         /\ \A i \in DOMAIN named : \A op, n : named[i] = <<op, n>> => Queued(op, n)' /\ Marked(n)'
         /\ events # << >> => events' # << >> /\ events'[1] = events[1]
<1>1. QueueOK' BY DEF QueueOK
<1>2. /\ Len(events') = Len(events) + Len(named)
      /\ \A i \in 1..Len(events) : events'[i] = events[i]
      /\ \A i \in 1..Len(named) : events'[Len(events) + i] = named[i]
      /\ DOMAIN events = 1..Len(events) /\ DOMAIN events' = 1..Len(events') /\ DOMAIN named = 1..Len(named)
      /\ Len(events) \in Nat /\ Len(named) \in Nat
  BY <1>1 DEF QueueOK
<1>3. DOMAIN events \subseteq DOMAIN events' /\ \A i \in DOMAIN named : Len(events) + i \in DOMAIN events'
  BY <1>2
<1>4. \A op, n : Queued(op, n) => Queued(op, n)' BY <1>2, <1>3 DEF Queued
<1>5. \A n : Marked(n) => Marked(n)' BY <1>2, <1>3 DEF Marked
<1>6. ASSUME NEW i \in DOMAIN named, NEW op, NEW n, named[i] = <<op, n>>
      PROVE  Queued(op, n)' /\ Marked(n)'
  <2>1. Len(events) + i \in DOMAIN events' /\ events'[Len(events) + i] = <<op, n>> BY <1>2, <1>3, <1>6
  <2>2. events'[Len(events) + i][2] = n BY <2>1
  <2>3. Queued(op, n)' BY <2>1 DEF Queued
  <2>4. Marked(n)' BY <2>1, <2>2 DEF Marked
  <2> QED BY <2>3, <2>4
<1>7. events # << >> => events' # << >> /\ events'[1] = events[1] BY <1>1, <1>2 DEF QueueOK
<1> QED BY <1>1, <1>4, <1>5, <1>6, <1>7

LEMMA QueueShrinks ==
  ASSUME QueueOK, events # << >>, events' = Tail(events)
  PROVE  /\ QueueOK'
         /\ \A op, n : Queued(op, n) => events[1] = <<op, n>> \/ Queued(op, n)'
         /\ \A n : Marked(n) => events[1][2] = n \/ Marked(n)'
<1>1. QueueOK' BY DEF QueueOK
<1>2. /\ Len(events') = Len(events) - 1 /\ \A i \in 1..Len(events') : events'[i] = events[i + 1]
      /\ DOMAIN events = 1..Len(events) /\ DOMAIN events' = 1..Len(events') /\ Len(events) \in Nat
  BY <1>1 DEF QueueOK
<1>3. ASSUME NEW i \in DOMAIN events, i # 1 PROVE i - 1 \in DOMAIN events' /\ events'[i - 1] = events[i]
  BY <1>2, <1>3
<1>4. ASSUME NEW op, NEW n, Queued(op, n), events[1] # <<op, n>> PROVE Queued(op, n)'
  <2>1. PICK i \in DOMAIN events : events[i] = <<op, n>> BY <1>4 DEF Queued
  <2>2. i # 1 BY <1>4, <2>1
  <2> QED BY <1>3, <2>1, <2>2 DEF Queued
<1>5. ASSUME NEW n, Marked(n), events[1][2] # n PROVE Marked(n)'
  <2>1. PICK i \in DOMAIN events : events[i][2] = n BY <1>5 DEF Marked
  <2>2. i # 1 BY <1>5, <2>1
  <2> QED BY <1>3, <2>1, <2>2 DEF Marked
<1> QED BY <1>1, <1>4, <1>5

LEMMA QueueStands ==
  ASSUME QueueOK, UNCHANGED events
  PROVE  /\ QueueOK' /\ \A op, n : Queued(op, n)' <=> Queued(op, n)
         /\ \A n : Marked(n)' <=> Marked(n)
BY DEF QueueOK, Queued, Marked

LEMMA SeenIsTyped ==
  ASSUME NEW dir, NEW op \in {"create", "write", "remove"}, NEW n \in Name
  PROVE  /\ Seen(dir, op, n) \in Seq(Event)
         /\ dir \in watches => DOMAIN Seen(dir, op, n) = {1} /\ Seen(dir, op, n)[1] = <<op, n>>
         /\ dir \notin watches => Seen(dir, op, n) = << >>
<1>1. <<op, n>> \in Event BY DEF Event
<1>2. CASE dir \in watches
  <2>1. Seen(dir, op, n) = <<<<op, n>>>> BY <1>2 DEF Seen
  <2> QED BY <1>1, <1>2, <2>1
<1>3. CASE dir \notin watches
  <2>1. Seen(dir, op, n) = << >> BY <1>3 DEF Seen
  <2> QED BY <1>3, <2>1
<1> QED BY <1>2, <1>3

LEMMA SeenIsQueued ==
  ASSUME QueueOK, NEW dir, NEW op \in {"create", "write", "remove"}, NEW n \in Name,
         events' = events \o Seen(dir, op, n), dir \in watches
  PROVE  Queued(op, n)' /\ Marked(n)'
<1> DEFINE named == Seen(dir, op, n)
<1>1. named \in Seq(Event) /\ 1 \in DOMAIN named /\ named[1] = <<op, n>> BY SeenIsTyped
<1>2. events' = events \o named OBVIOUS
<1> HIDE DEF named
<1>3. \A i \in DOMAIN named : \A o, m : named[i] = <<o, m>> => Queued(o, m)' /\ Marked(m)'
  BY <1>1, <1>2, QueueGrows
<1> QED BY <1>1, <1>3

(***************************************************************************)
(* Editors.                                                                *)
(***************************************************************************)
(* Files that change are seen, or are none of what is included.            *)
LEMMA UnseenChangesNothing ==
  ASSUME DiskOK, DiskOK', disk'.main = disk.main, Covered, found = {}, includePatterns = Included(disk),
         NEW S \in SUBSET (Fragments \ DOMAIN Target),
         \A f \in S : DirOf[f] \in disk.dirs,
         \A f \in Fragments \ S : disk'.file[f] = disk.file[f],
         ~\E f \in S : DirOf[f] \in watches /\ Relevant(f)
  PROVE  ResolveIncludes(disk') = ResolveIncludes(disk)
<1>1. ASSUME NEW p \in Included(disk) PROVE p \in Patterns /\ PatFiles[p] \cap S = {}
  <2>1. p \in Patterns /\ PatDir[p] \in Dirs BY DEF DiskOK
  <2>2. ASSUME NEW f \in PatFiles[p] \cap S PROVE FALSE
    <3>1. DirOf[f] = PatDir[p] /\ DirOf[f] \in disk.dirs BY <2>1, <2>2
    <3>2. DirOf[f] \in watches BY <2>1, <3>1, ChainFacts DEF Covered
    <3>3. Relevant(f) BY <2>2 DEF Relevant, matchesAnyPattern
    <3> QED BY <2>2, <3>2, <3>3
  <2> QED BY <2>1, <2>2
<1>2. ASSUME NEW p \in Included(disk), NEW f \in PatFiles[p]
      PROVE  f \in Fragments /\ disk'.file[Real(f)] = disk.file[Real(f)]
  <2>1. f \in Fragments \ S BY <1>1, <1>2
  <2>2. CASE f \notin DOMAIN Target BY <2>1, <2>2 DEF Real
  <2>3. CASE f \in DOMAIN Target
    <3>1. Real(f) = Target[f] /\ Target[f] \in Fragments BY <2>3 DEF Real, Targets
    <3>2. DirOf[Target[f]] \in watches /\ Target[f] \in includeFiles BY <1>2, <2>3 DEF Covered
    <3>3. Target[f] \notin S BY <3>2 DEF Relevant
    <3> QED BY <2>1, <3>1, <3>3
  <2> QED BY <2>1, <2>2, <2>3
<1>3. ASSUME NEW p \in Included(disk) PROVE Glob(disk', p) = Glob(disk, p)
  <2>1. ASSUME NEW f \in PatFiles[p], f \in DOMAIN Target
        PROVE  DirOf[f] \in disk.dirs /\ DirOf[f] \in disk'.dirs
    BY <2>1 DEF DiskOK, Fixed
  <2>2. ASSUME NEW f \in PatFiles[p], f \notin DOMAIN Target
        PROVE  disk'.file[f] = disk.file[f]
    BY <1>2, <2>2 DEF Real
  <2> QED BY <2>1, <2>2 DEF Glob
<1>4. \A p \in Included(disk) : \A f \in Glob(disk, p) : disk'.file[Real(f)] = disk.file[Real(f)]
  BY <1>2 DEF Glob
<1> QED BY <1>3, <1>4, SameSources DEF DiskOK

(* What an edit owes the watcher: an event for what the watcher has under  *)
(* watch.                                                                  *)
LEMMA ChangeKeeps ==
  ASSUME WatchInv, NEW named \in Seq(Event), events' = events \o named,
         UNCHANGED <<pc, ret, armed, envChanged, includePatterns, includeFiles, found, procEnv, emitted>>,
         ~gap, gap' \in BOOLEAN, ~gap' => pc \notin {"load", "watch"} /\ ret # "boot",
         DiskOK', disk'.env # disk.env => DirOf["env"] \notin watches \/ Marked("env")',
         disk'.main # disk.main => DirOf["main"] \notin watches \/ Marked("main")',
         {DirOf["main"], DirOf["env"]} \subseteq watches => {DirOf["main"], DirOf["env"]} \subseteq watches',
         Covered => Covered' \/ Made' \/ gap',
         Covered /\ includePatterns = Included(disk) /\ found = {} /\ disk'.main = disk.main
           => \/ ResolveIncludes(disk') = ResolveIncludes(disk)
              \/ \E x \in Name : Marked(x)' /\ Relevant(x)
  PROVE  WatchInv'
<1>1. /\ events' = events \o named
      /\ UNCHANGED <<pc, ret, armed, envChanged, includePatterns, includeFiles, found, procEnv, emitted>>
      /\ ~gap /\ gap' \in BOOLEAN /\ (~gap' => pc \notin {"load", "watch"} /\ ret # "boot")
  OBVIOUS
<1>2. /\ QueueOK'
      /\ \A op, n : Queued(op, n) => Queued(op, n)'
      /\ \A n : Marked(n) => Marked(n)'
      /\ events # << >> => events' # << >> /\ events'[1] = events[1]
  BY <1>1, QueueGrows DEF WatchInv
<1>3. FlagsOK' /\ ControlOK' /\ MatchOK'
  <2>1. FlagsOK' BY <1>1 DEF WatchInv, FlagsOK
  <2>2. /\ pc' = pc /\ ret' = ret /\ armed' = armed /\ envChanged' = envChanged
        /\ includePatterns' = includePatterns /\ found' = found
    BY <1>1
  <2>3. ControlOK /\ (events # << >> => events' # << >>) BY <1>2 DEF WatchInv
  <2>4. ControlOK' BY <2>2, <2>3 DEF ControlOK
  <2>5. MatchOK' BY <1>2, <2>2 DEF WatchInv, MatchOK, isPatternDirAncestor
  <2> QED BY <2>1, <2>4, <2>5
<1>4. ASSUME ~gap' PROVE (Starting' => Loaded') /\ (pc' # "load" /\ ~Starting' => Known')
  <2>1. pc # "load" /\ ~Starting /\ pc' # "load" /\ ~Starting' BY <1>1, <1>4 DEF Starting
  <2>2. Known BY <1>1, <2>1 DEF WatchInv
  <2>3. \A x : Relevant(x)' <=> Relevant(x) BY <1>1 DEF Relevant, matchesAnyPattern
  <2>4. Made => Made' BY <1>1, <1>2 DEF Made, isPatternDirAncestor
  <2>5. WillRead => WillRead' BY <1>1, <1>2, <2>3, <2>4 DEF WillRead
  <2>6. WillLook => WillLook' BY <1>1, <1>2 DEF WillLook
  <2>7. {DirOf["main"], DirOf["env"]} \subseteq watches /\ {DirOf["main"], DirOf["env"]} \subseteq watches'
    BY <2>2 DEF Known
  <2>8. disk'.env = procEnv' \/ envChanged' \/ Marked("env")'
    BY <1>1, <1>2, <2>2, <2>7 DEF Known
  <2>9. disk'.main = disk.main \/ Marked("main")' BY <2>7
  <2>10. disk'.env = disk.env \/ Marked("env")' BY <2>7
  <2>11. WillLook' \/ includePatterns' = Included(disk')
    BY <1>1, <2>2, <2>6, <2>9 DEF Known, WillLook, Included
  <2>12. WillLook' \/ Made' \/ Covered'
    BY <1>4, <2>2, <2>4, <2>6 DEF Known
  <2>13. Marked("main")' \/ Marked("env")' => WillRead'
    BY DEF WillRead, Relevant, Name
  <2>14. WillRead' \/ disk'.main.kind = "none" \/ emitted' = <<ResolveIncludes(disk'), disk'.env>>
    <3> SUFFICES ASSUME ~WillRead', disk'.main.kind # "none"
                 PROVE  emitted' = <<ResolveIncludes(disk'), disk'.env>>
      OBVIOUS
    <3>1. disk'.main = disk.main /\ disk'.env = disk.env BY <2>9, <2>10, <2>13
    <3>2. ~WillRead /\ ~armed /\ ret # "read" /\ ~Made BY <2>5 DEF WillRead
    <3>3. emitted = <<ResolveIncludes(disk), disk.env>> BY <2>2, <3>1, <3>2 DEF Known
    <3>4. ~Marked("main") BY <3>2 DEF WillRead, Relevant, Name
    <3>5. ~WillLook BY <3>2, <3>4 DEF WillLook
    <3>6. Covered /\ includePatterns = Included(disk) BY <2>2, <3>2, <3>5 DEF Known
    <3>7. found = {}
      <4>1. ret # "event" BY <3>2 DEF WatchInv, MatchOK
      <4> QED BY <2>1, <3>2, <4>1 DEF WatchInv, ControlOK, Starting
    <3>8. ~\E x \in Name : Marked(x)' /\ Relevant(x) BY <2>3 DEF WillRead
    <3>9. ResolveIncludes(disk') = ResolveIncludes(disk) BY <3>1, <3>6, <3>7, <3>8
    <3> QED BY <1>1, <3>1, <3>3, <3>9
  <2> QED BY <2>1, <2>7, <2>8, <2>11, <2>12, <2>14 DEF Known
<1> QED BY <1>2, <1>3, <1>4 DEF WatchInv

LEMMA EditKeeps ==
  ASSUME WatchInv, NEW d, NEW named \in Seq(Event), Edit(d, named),
         DiskOK', disk'.env # disk.env => DirOf["env"] \notin watches \/ Marked("env")',
         disk'.main # disk.main => DirOf["main"] \notin watches \/ Marked("main")',
         {DirOf["main"], DirOf["env"]} \subseteq watches => {DirOf["main"], DirOf["env"]} \subseteq watches',
         Covered => Covered',
         Covered /\ includePatterns = Included(disk) /\ found = {} /\ disk'.main = disk.main
           => \/ ResolveIncludes(disk') = ResolveIncludes(disk)
              \/ \E x \in Name : Marked(x)' /\ Relevant(x)
  PROVE  WatchInv'
<1>1. /\ events' = events \o named
      /\ UNCHANGED <<pc, ret, armed, envChanged, includePatterns, includeFiles, found, procEnv, emitted>>
      /\ ~gap /\ gap' = (gap \/ pc \in {"load", "watch"} \/ ret = "boot")
  BY DEF Edit
<1>2. gap' \in BOOLEAN /\ (~gap' => pc \notin {"load", "watch"} /\ ret # "boot")
  BY <1>1 DEF WatchInv, FlagsOK
<1> QED BY <1>1, <1>2, ChangeKeeps

LEMMA WriteMainKeeps == ASSUME WatchInv, WriteMain PROVE WatchInv'
<1>1. PICK inc \in SUBSET Patterns, S \in SUBSET Entries :
        LET new == [kind |-> "file", has |-> S, inc |-> inc] IN
        /\ disk.main # new
        /\ Edit([disk EXCEPT !.main = new],
                Seen(DirOf["main"], IF disk.main.kind = "none" THEN "create" ELSE "write", "main"))
        /\ UNCHANGED watches
  BY DEF WriteMain
<1> DEFINE new == [kind |-> "file", has |-> S, inc |-> inc]
           op == IF disk.main.kind = "none" THEN "create" ELSE "write"
           named == Seen(DirOf["main"], op, "main")
<1>2. op \in {"create", "write", "remove"} /\ "main" \in Name BY DEF Name
<1> HIDE DEF op
<1>3. named \in Seq(Event) BY <1>2, SeenIsTyped
<1>4. disk' = [disk EXCEPT !.main = new] /\ events' = events \o named
      /\ UNCHANGED <<watches, found, includePatterns, includeFiles>>
  BY <1>1 DEF Edit, op
<1>5. DirOf["main"] \in watches => Marked("main")' BY <1>2, <1>4, SeenIsQueued DEF WatchInv
<1> HIDE DEF named
<1>6. /\ disk'.main = new /\ disk'.env = disk.env /\ disk'.dirs = disk.dirs /\ disk'.file = disk.file
      /\ DOMAIN disk' = {"dirs", "file", "main", "env"}
  BY <1>4 DEF WatchInv, DiskOK
<1>7. DiskOK' BY <1>6 DEF WatchInv, DiskOK, Included
<1>8. Covered => Covered' BY <1>4, <1>6 DEF Covered
<1>9. disk'.main # disk.main BY <1>1, <1>6
<1>10. Edit([disk EXCEPT !.main = new], named) BY <1>1 DEF named, op
<1> HIDE DEF new
<1> QED BY <1>3, <1>4, <1>5, <1>6, <1>7, <1>8, <1>9, <1>10, EditKeeps

LEMMA SpoilMainKeeps == ASSUME WatchInv, SpoilMain PROVE WatchInv'
<1>1. PICK left \in {"none", "garbled"} :
        /\ disk.main.kind = "file"
        /\ Edit([disk EXCEPT !.main = [kind |-> left, has |-> {}, inc |-> {}]],
                Seen(DirOf["main"], IF left = "none" THEN "remove" ELSE "write", "main"))
        /\ UNCHANGED watches
  BY DEF SpoilMain
<1> DEFINE new == [kind |-> left, has |-> {}, inc |-> {}]
           op == IF left = "none" THEN "remove" ELSE "write"
           named == Seen(DirOf["main"], op, "main")
<1>2. op \in {"create", "write", "remove"} /\ "main" \in Name BY DEF Name
<1> HIDE DEF op
<1>3. named \in Seq(Event) BY <1>2, SeenIsTyped
<1>4. disk' = [disk EXCEPT !.main = new] /\ events' = events \o named
      /\ UNCHANGED <<watches, found, includePatterns, includeFiles>>
  BY <1>1 DEF Edit, op
<1>5. DirOf["main"] \in watches => Marked("main")' BY <1>2, <1>4, SeenIsQueued DEF WatchInv
<1> HIDE DEF named
<1>6. /\ disk'.main = new /\ disk'.env = disk.env /\ disk'.dirs = disk.dirs /\ disk'.file = disk.file
      /\ DOMAIN disk' = {"dirs", "file", "main", "env"}
  BY <1>4 DEF WatchInv, DiskOK
<1>7. DiskOK' BY <1>6 DEF WatchInv, DiskOK, Included
<1>8. Covered => Covered' BY <1>4, <1>6 DEF Covered
<1>9. disk'.main # disk.main BY <1>1, <1>6
<1>10. Edit([disk EXCEPT !.main = new], named) BY <1>1 DEF named, op
<1> HIDE DEF new
<1> QED BY <1>3, <1>4, <1>5, <1>6, <1>7, <1>8, <1>9, <1>10, EditKeeps

LEMMA WriteEnvKeeps == ASSUME WatchInv, WriteEnv PROVE WatchInv'
<1>1. PICK v : Edit([disk EXCEPT !.env = v], Seen(DirOf["env"], "write", "env")) /\ UNCHANGED watches
  BY DEF WriteEnv
<1> DEFINE named == Seen(DirOf["env"], "write", "env")
<1>. "env" \in Name /\ "write" \in {"create", "write", "remove"} BY DEF Name
<1>2. named \in Seq(Event) BY SeenIsTyped
<1>3. disk' = [disk EXCEPT !.env = v] /\ events' = events \o named
      /\ UNCHANGED <<watches, found, includePatterns, includeFiles>>
  BY <1>1 DEF Edit
<1>4. Edit([disk EXCEPT !.env = v], named) BY <1>1
<1>5. DirOf["env"] \in watches => Marked("env")' BY <1>3, SeenIsQueued DEF WatchInv
<1> HIDE DEF named
<1>6. /\ disk'.main = disk.main /\ disk'.dirs = disk.dirs /\ disk'.file = disk.file
      /\ DOMAIN disk' = {"dirs", "file", "main", "env"}
  BY <1>3 DEF WatchInv, DiskOK
<1>7. DiskOK' BY <1>6 DEF WatchInv, DiskOK, Included
<1>8. Covered => Covered' BY <1>3, <1>6 DEF Covered
<1>9. ResolveIncludes(disk') = ResolveIncludes(disk) BY <1>6, SameSources DEF Glob, WatchInv, DiskOK
<1> QED BY <1>2, <1>3, <1>4, <1>5, <1>6, <1>7, <1>8, <1>9, EditKeeps

(* A fragment is written or removed.                                       *)
LEMMA OneFileKeeps ==
  ASSUME WatchInv, NEW f \in Fragments \ DOMAIN Target, DirOf[f] \in disk.dirs,
         NEW new, f \in Targets => new.kind # "none",
         NEW op \in {"create", "write", "remove"},
         Edit([disk EXCEPT !.file[f] = new], Seen(DirOf[f], op, f)), UNCHANGED watches
  PROVE  WatchInv'
<1> DEFINE named == Seen(DirOf[f], op, f)
<1>. f \in Name BY DEF Name
<1>2. named \in Seq(Event) BY SeenIsTyped
<1>3. disk' = [disk EXCEPT !.file[f] = new] /\ events' = events \o named
      /\ UNCHANGED <<watches, found, includePatterns, includeFiles>>
  BY DEF Edit
<1>4. Edit([disk EXCEPT !.file[f] = new], named) OBVIOUS
<1>5. DirOf[f] \in watches => Marked(f)' BY <1>3, SeenIsQueued DEF WatchInv
<1> HIDE DEF named
<1>6. /\ disk'.main = disk.main /\ disk'.dirs = disk.dirs /\ disk'.env = disk.env
      /\ DOMAIN disk' = {"dirs", "file", "main", "env"} /\ DOMAIN disk'.file = Fragments
      /\ disk'.file[f] = new /\ \A g \in Fragments \ {f} : disk'.file[g] = disk.file[g]
  BY <1>3 DEF WatchInv, DiskOK
<1>7. DiskOK' BY <1>6 DEF WatchInv, DiskOK, Included, Targets
<1>8. Covered => Covered' BY <1>3, <1>6 DEF Covered
<1>9. Covered /\ includePatterns = Included(disk) /\ found = {} /\ disk'.main = disk.main
        => \/ ResolveIncludes(disk') = ResolveIncludes(disk)
           \/ \E x \in Name : Marked(x)' /\ Relevant(x)
  <2> SUFFICES ASSUME Covered, includePatterns = Included(disk), found = {},
                      ~\E x \in Name : Marked(x)' /\ Relevant(x)
               PROVE  ResolveIncludes(disk') = ResolveIncludes(disk)
    OBVIOUS
  <2> DEFINE S == {f}
  <2>1. DiskOK BY DEF WatchInv
  <2>2. S \in SUBSET (Fragments \ DOMAIN Target) /\ \A g \in S : DirOf[g] \in disk.dirs OBVIOUS
  <2>3. \A g \in Fragments \ S : disk'.file[g] = disk.file[g] BY <1>6
  <2>4. ~\E g \in S : DirOf[g] \in watches /\ Relevant(g) BY <1>5
  <2> HIDE DEF S
  <2> QED BY <1>6, <1>7, <2>1, <2>2, <2>3, <2>4, UnseenChangesNothing
<1> DEFINE after == [disk EXCEPT !.file[f] = new]
<1>10. Edit(after, named) BY <1>4
<1>11. disk'.env = disk.env /\ disk'.main = disk.main /\ watches' = watches BY <1>3, <1>6
<1> HIDE DEF after
<1> QED BY <1>2, <1>7, <1>8, <1>9, <1>10, <1>11, EditKeeps

LEMMA FragmentsKeep == ASSUME WatchInv, WriteFragment \/ RemoveFragment PROVE WatchInv'
<1>1. ASSUME WriteFragment PROVE WatchInv'
  <2>1. PICK f \in Fragments \ DOMAIN Target, new \in {Garbled} \cup {Holding({e}) : e \in Entries} :
          /\ DirOf[f] \in disk.dirs
          /\ Edit([disk EXCEPT !.file[f] = new],
                  Seen(DirOf[f], IF disk.file[f].kind = "none" THEN "create" ELSE "write", f))
          /\ UNCHANGED watches
    BY <1>1 DEF WriteFragment
  <2>2. new.kind # "none" BY <2>1 DEF Garbled, Holding
  <2>3. (IF disk.file[f].kind = "none" THEN "create" ELSE "write") \in {"create", "write", "remove"} OBVIOUS
  <2> QED BY <2>1, <2>2, <2>3, OneFileKeeps
<1>2. ASSUME RemoveFragment PROVE WatchInv'
  <2>1. PICK f \in Fragments \ Targets :
          /\ f \notin DOMAIN Target /\ disk.file[f].kind # "none"
          /\ Edit([disk EXCEPT !.file[f] = NoFile], Seen(DirOf[f], "remove", f))
          /\ UNCHANGED watches
    BY <1>2 DEF RemoveFragment
  <2>2. DirOf[f] \in disk.dirs BY <2>1 DEF WatchInv, DiskOK
  <2> QED BY <2>1, <2>2, OneFileKeeps
<1> QED BY <1>1, <1>2

(* A new directory is announced by the one it lies in.                     *)
LEMMA MkdirKeeps == ASSUME WatchInv, Mkdir PROVE WatchInv'
<1>1. PICK d \in Dirs \ disk.dirs :
        /\ Parent[d] \in disk.dirs /\ ~gap
        /\ disk' = [disk EXCEPT !.dirs = @ \cup {d}]
        /\ events' = events \o Seen(Parent[d], "create", d)
        /\ gap' = (gap \/ pc \in {"load", "watch", "add"} \/ ret = "boot")
        /\ UNCHANGED <<watches, pc, ret, armed, envChanged, includePatterns, includeFiles, found, procEnv, emitted>>
  BY DEF Mkdir
<1> DEFINE named == Seen(Parent[d], "create", d)
<1>2. d \in Name /\ "create" \in {"create", "write", "remove"} BY DEF Name
<1>3. named \in Seq(Event) BY <1>2, SeenIsTyped
<1>4. Parent[d] \in watches => Queued("create", d)' BY <1>1, <1>2, SeenIsQueued DEF WatchInv
<1>5. events' = events \o named BY <1>1
<1> HIDE DEF named
<1>6. /\ disk'.main = disk.main /\ disk'.env = disk.env /\ disk'.file = disk.file
      /\ disk'.dirs = disk.dirs \cup {d} /\ DOMAIN disk' = {"dirs", "file", "main", "env"}
  BY <1>1 DEF WatchInv, DiskOK
<1>7. DiskOK' BY <1>6 DEF WatchInv, DiskOK, Included
<1>8. gap' \in BOOLEAN /\ (~gap' => pc \notin {"load", "watch", "add"} /\ ret # "boot")
  BY <1>1 DEF WatchInv, FlagsOK
<1>9. Covered => Covered' \/ Made' \/ gap'
  <2> SUFFICES ASSUME Covered, ~Made', ~gap' PROVE Covered' OBVIOUS
  <2>1. found = {} /\ includePatterns \subseteq Patterns BY <1>8 DEF WatchInv, ControlOK
  <2>2. ASSUME NEW p \in includePatterns, d \in Chain(PatDir[p]) PROVE FALSE
    <3>1. PatDir[p] \in Dirs BY <2>1
    <3>2. d # Base BY <1>1 DEF WatchInv, DiskOK
    <3>3. Parent[d] \in Chain(PatDir[p]) BY <2>2, <3>1, <3>2, ChainFacts
    <3>4. Parent[d] \in watches BY <1>1, <2>1, <3>3 DEF Covered
    <3>5. isPatternDirAncestor(includePatterns', d) BY <1>1, <2>2 DEF isPatternDirAncestor
    <3> QED BY <1>4, <3>4, <3>5 DEF Made
  <2> QED BY <1>1, <1>6, <2>2 DEF Covered
<1>10. Covered /\ includePatterns = Included(disk) /\ found = {} => ResolveIncludes(disk') = ResolveIncludes(disk)
  <2> SUFFICES ASSUME Covered, includePatterns = Included(disk), found = {}
               PROVE  ResolveIncludes(disk') = ResolveIncludes(disk)
    OBVIOUS
  <2> DEFINE S == {}
  <2>1. /\ S \in SUBSET (Fragments \ DOMAIN Target) /\ \A g \in S : DirOf[g] \in disk.dirs
        /\ \A g \in Fragments \ S : disk'.file[g] = disk.file[g]
        /\ ~\E g \in S : DirOf[g] \in watches /\ Relevant(g)
    BY <1>6
  <2>2. DiskOK BY DEF WatchInv
  <2> HIDE DEF S
  <2> QED BY <1>6, <1>7, <2>1, <2>2, UnseenChangesNothing
<1> QED BY <1>1, <1>3, <1>5, <1>6, <1>7, <1>8, <1>9, <1>10, ChangeKeeps

(* A directory goes after its files, each of which is announced.           *)
LEMMA RmdirKeeps == ASSUME WatchInv, Rmdir PROVE WatchInv'
<1> DEFINE files(d) == {f \in Fragments : DirOf[f] = d /\ disk.file[f].kind # "none"}
           removes(d, order) == IF d \in watches THEN [i \in DOMAIN order |-> <<"remove", order[i]>>] ELSE << >>
           after(d) == [disk EXCEPT !.dirs = @ \ {d},
                          !.file = [f \in Fragments |-> IF f \in files(d) THEN NoFile ELSE disk.file[f]]]
<1>0. PICK d \in disk.dirs \ {Base} :
        /\ d \notin {DirOf[f] : f \in Fixed}
        /\ \E order \in Orders(files(d)) : Edit(after(d), removes(d, order) \o Seen(Parent[d], "remove", d))
        /\ watches' = watches \ {d}
  BY DEF Rmdir
<1>1. /\ d \in disk.dirs \ {Base} /\ d \notin {DirOf[f] : f \in Fixed} /\ watches' = watches \ {d}
      /\ \E order \in Orders(files(d)) : Edit(after(d), removes(d, order) \o Seen(Parent[d], "remove", d))
  BY <1>0
<1>20. PICK order \in Orders(files(d)) : Edit(after(d), removes(d, order) \o Seen(Parent[d], "remove", d))
  BY <1>1
<1> DEFINE S == files(d)
           first == removes(d, order)
           last == Seen(Parent[d], "remove", d)
           named == first \o last
<1>2. d \in Dirs /\ d \in Name /\ "remove" \in {"create", "write", "remove"} BY DEF Name, WatchInv, DiskOK
<1>3. last \in Seq(Event) BY <1>2, SeenIsTyped
<1>4. Cardinality(S) \in Nat /\ order \in [1..Cardinality(S) -> S] /\ \A f \in S : \E i \in DOMAIN order : order[i] = f
  <2>1. S \subseteq Fragments OBVIOUS
  <2>2. IsFiniteSet(S) BY <2>1, FS_Subset
  <2> QED BY <1>20, <2>2, FS_CardinalityType DEF Orders
<1>5. first \in Seq(Event)
  <2>1. \A f \in S : <<"remove", f>> \in Event BY DEF Event, Name
  <2> HIDE DEF S
  <2> QED BY <1>4, <2>1
<1>6. d \in watches => \A f \in S : \E i \in DOMAIN first : first[i] = <<"remove", f>> BY <1>4
<1>7. events' = events \o named /\ disk' = after(d) /\ UNCHANGED <<found, includePatterns, includeFiles>>
  BY <1>20 DEF Edit
<1>8. Edit(after(d), named) BY <1>20
<1> HIDE DEF first, last
<1>9. named \in Seq(Event) /\ \A i \in DOMAIN first : i \in DOMAIN named /\ named[i] = first[i]
  BY <1>3, <1>5
<1> HIDE DEF named
<1>10. \A i \in DOMAIN named : \A o, m : named[i] = <<o, m>> => Queued(o, m)' /\ Marked(m)'
  BY <1>7, <1>9, QueueGrows DEF WatchInv
<1>11. d \in watches => \A f \in S : Marked(f)'
  <2> HIDE DEF S
  <2> QED BY <1>6, <1>9, <1>10
<1>12. /\ disk'.main = disk.main /\ disk'.env = disk.env /\ disk'.dirs = disk.dirs \ {d}
       /\ DOMAIN disk' = {"dirs", "file", "main", "env"} /\ DOMAIN disk'.file = Fragments
       /\ \A f \in Fragments \ S : disk'.file[f] = disk.file[f]
       /\ \A f \in S : disk'.file[f] = NoFile
  BY <1>7 DEF WatchInv, DiskOK
<1>13. /\ S \in SUBSET (Fragments \ DOMAIN Target) /\ S \cap Targets = {}
       /\ \A f \in S : DirOf[f] = d
       /\ \A f \in Fragments : DirOf[f] = d /\ disk.file[f].kind # "none" => f \in S
  BY <1>1 DEF Fixed
<1> HIDE DEF S
<1>14. DiskOK'
  <2>1. disk.dirs \subseteq Dirs /\ Base \in disk.dirs /\ \A f \in Fixed : DirOf[f] \in disk.dirs /\ DirOf[f] # d
    BY <1>1 DEF WatchInv, DiskOK
  <2>2. Targets \subseteq Fragments /\ \A f \in Targets : disk'.file[f].kind # "none"
    BY <1>12, <1>13 DEF WatchInv, DiskOK
  <2>3. \A f \in Fragments : disk'.file[f].kind # "none" => DirOf[f] \in disk'.dirs
    BY <1>12, <1>13 DEF WatchInv, DiskOK, NoFile
  <2> QED BY <1>1, <1>12, <2>1, <2>2, <2>3 DEF WatchInv, DiskOK, Included
<1>15. ASSUME Covered PROVE Covered'
  <2>1. ASSUME NEW l \in DOMAIN Target PROVE DirOf[Target[l]] # d BY <1>1 DEF Fixed, Targets
  <2> QED BY <1>1, <1>7, <1>12, <1>15, <2>1 DEF Covered
<1>16. DirOf["main"] # d /\ DirOf["env"] # d BY <1>1 DEF Fixed
<1>17. {DirOf["main"], DirOf["env"]} \subseteq watches => {DirOf["main"], DirOf["env"]} \subseteq watches'
  BY <1>1, <1>16
<1>18. Covered /\ includePatterns = Included(disk) /\ found = {} /\ disk'.main = disk.main
         => \/ ResolveIncludes(disk') = ResolveIncludes(disk)
            \/ \E x \in Name : Marked(x)' /\ Relevant(x)
  <2> SUFFICES ASSUME Covered, includePatterns = Included(disk), found = {},
                      ~\E x \in Name : Marked(x)' /\ Relevant(x)
               PROVE  ResolveIncludes(disk') = ResolveIncludes(disk)
    OBVIOUS
  <2>1. DiskOK BY DEF WatchInv
  <2>2. \A f \in S : DirOf[f] \in disk.dirs BY <1>1, <1>13
  <2>3. ~\E f \in S : DirOf[f] \in watches /\ Relevant(f) BY <1>11, <1>13 DEF Name
  <2> QED BY <1>12, <1>13, <1>14, <2>1, <2>2, <2>3, UnseenChangesNothing
<1>19. disk'.main = disk.main /\ disk'.env = disk.env BY <1>12
<1> HIDE DEF after
<1> QED BY <1>8, <1>9, <1>14, <1>15, <1>17, <1>18, <1>19, EditKeeps

(***************************************************************************)
(* The watcher.                                                            *)
(***************************************************************************)
LEMMA LoadKeeps == ASSUME WatchInv, Load PROVE WatchInv'
<1>1. /\ pc = "load" /\ pc' = "watch" /\ procEnv' = disk.env /\ emitted' = <<ResolveIncludes(disk), disk.env>>
      /\ disk' = disk /\ events' = events /\ ret' = ret /\ armed' = armed /\ envChanged' = envChanged
      /\ includePatterns' = includePatterns /\ found' = found /\ gap' = gap
  BY DEF Load
<1>2. DiskOK' /\ QueueOK' BY <1>1, QueueStands DEF WatchInv, DiskOK, Included
<1>3. FlagsOK' BY <1>1 DEF WatchInv, FlagsOK
<1>4. ControlOK' BY <1>1 DEF WatchInv, ControlOK
<1>5. MatchOK' BY <1>1 DEF WatchInv, MatchOK
<1>6. ret = "" BY <1>1 DEF WatchInv, ControlOK
<1>7. Loaded' /\ Starting' BY <1>1, <1>6 DEF Loaded, Starting
<1> QED BY <1>2, <1>3, <1>4, <1>5, <1>7 DEF WatchInv

LEMMA WatchKeeps == ASSUME WatchInv, Watch PROVE WatchInv'
<1>1. /\ pc = "watch" /\ pc' = "refresh" /\ ret' = "boot"
      /\ watches' = watches \cup {DirOf["main"], DirOf["env"]} /\ procEnv' = procEnv /\ emitted' = emitted
      /\ disk' = disk /\ events' = events /\ armed' = armed /\ envChanged' = envChanged
      /\ includePatterns' = includePatterns /\ found' = found /\ gap' = gap
  BY DEF Watch
<1>2. DiskOK' /\ QueueOK' BY <1>1, QueueStands DEF WatchInv, DiskOK, Included
<1>3. FlagsOK' BY <1>1 DEF WatchInv, FlagsOK
<1>4. ControlOK' BY <1>1 DEF WatchInv, ControlOK
<1>5. MatchOK' BY <1>1 DEF MatchOK
<1>6. ~gap => Loaded BY <1>1 DEF WatchInv, Starting
<1>7. Starting' /\ (~gap' => Loaded') BY <1>1, <1>6 DEF Loaded, Starting
<1> QED BY <1>2, <1>3, <1>4, <1>5, <1>7 DEF WatchInv

(* What refreshIncludes is about to watch is all that the patterns name.   *)
LEMMA refreshIncludesCovers ==
  ASSUME DiskOK, UNCHANGED disk, found' = includeWatchTargets(disk).dirs,
         includePatterns' = Included(disk), includeFiles' = includeWatchTargets(disk).files
  PROVE  Covered'
<1>1. ASSUME NEW p \in Included(disk)
      PROVE  /\ Chain(PatDir[p]) \cap disk.dirs \subseteq found'
             /\ \A l \in PatFiles[p] \cap DOMAIN Target : DirOf[Target[l]] \in found' /\ Target[l] \in includeFiles'
  <2>1. p \in Patterns BY DEF DiskOK
  <2>2. Chain(PatDir[p]) \cap disk.dirs \subseteq found'
    <3> DEFINE chains == {Chain(PatDir[q]) : q \in Included(disk)}
    <3>1. (UNION chains) \cap disk.dirs \subseteq found' BY DEF includeWatchTargets
    <3>2. Chain(PatDir[p]) \in chains OBVIOUS
    <3> HIDE DEF chains
    <3>3. \A c \in chains : c \cap disk.dirs \subseteq found' BY <3>1
    <3> QED BY <3>2, <3>3
  <2>3. ASSUME NEW l \in PatFiles[p] \cap DOMAIN Target
        PROVE  DirOf[Target[l]] \in found' /\ Target[l] \in includeFiles'
    <3>1. l \in Fragments /\ DirOf[l] \in disk.dirs BY <2>1 DEF DiskOK, Fixed
    <3>2. l \in Glob(disk, p) BY <3>1 DEF Glob
    <3>3. Real(l) = Target[l] /\ disk.file[Real(l)].kind # "none" BY DEF Real, DiskOK, Targets
    <3> DEFINE matched == UNION {Glob(disk, q) : q \in Included(disk)}
               alive == {f \in matched : disk.file[Real(f)].kind # "none"}
    <3>4. l \in alive \cap DOMAIN Target BY <3>2, <3>3
    <3>5. /\ {DirOf[Real(f)] : f \in alive \cap DOMAIN Target} \subseteq found'
          /\ {Real(f) : f \in alive} \subseteq includeFiles'
      BY DEF includeWatchTargets
    <3> HIDE DEF alive
    <3> QED BY <3>3, <3>4, <3>5
  <2> QED BY <2>2, <2>3
<1> QED BY <1>1 DEF Covered

LEMMA refreshIncludesKeeps == ASSUME WatchInv, refreshIncludes PROVE WatchInv'
<1>1. /\ pc = "refresh" /\ pc' = "add" /\ ret' = ret /\ watches' = watches
      /\ found' = includeWatchTargets(disk).dirs /\ includePatterns' = Included(disk)
      /\ includeFiles' = includeWatchTargets(disk).files /\ procEnv' = procEnv /\ emitted' = emitted
      /\ disk' = disk /\ events' = events /\ armed' = armed /\ envChanged' = envChanged /\ gap' = gap
  BY DEF refreshIncludes, includeWatchTargets
<1>2. /\ DiskOK' /\ QueueOK' /\ \A op, n : Queued(op, n)' <=> Queued(op, n)
      /\ \A n : Marked(n)' <=> Marked(n)
  BY <1>1, QueueStands DEF WatchInv, DiskOK, Included
<1>3. FlagsOK' BY <1>1 DEF WatchInv, FlagsOK
<1>4. ControlOK' BY <1>1 DEF WatchInv, ControlOK, DiskOK
<1>5. MatchOK' BY <1>1 DEF WatchInv, MatchOK
<1>6. Covered' BY <1>1, refreshIncludesCovers DEF WatchInv
<1>7. Starting' <=> Starting BY <1>1 DEF Starting
<1>8. ASSUME ~gap, Starting PROVE Loaded'
  <2>1. Loaded BY <1>8 DEF WatchInv
  <2> QED BY <1>1, <1>6, <2>1 DEF Loaded
<1>9. ASSUME ~gap, ~Starting PROVE Known'
  <2>1. Known BY <1>1, <1>9 DEF WatchInv
  <2>2. ret \in {"event", "read"} BY <1>1, <1>9 DEF WatchInv, ControlOK, Starting
  <2>3. armed' \/ ret' = "read" BY <1>1, <2>2 DEF WatchInv, MatchOK
  <2>4. WillRead' BY <2>3 DEF WillRead
  <2>5. includePatterns' = Included(disk') BY <1>1
  <2>6. disk'.env = procEnv' \/ envChanged' \/ Marked("env")' BY <1>1, <1>2, <2>1 DEF Known
  <2>7. {DirOf["main"], DirOf["env"]} \subseteq watches' BY <1>1, <2>1 DEF Known
  <2> QED BY <1>6, <2>4, <2>5, <2>6, <2>7 DEF Known
<1> QED BY <1>1, <1>2, <1>3, <1>4, <1>5, <1>7, <1>8, <1>9 DEF WatchInv

LEMMA AddWatchesKeeps == ASSUME WatchInv, AddWatches PROVE WatchInv'
<1>1. /\ pc = "add" /\ pc' = (IF ret = "read" THEN "read" ELSE IF ret = "boot" THEN "idle" ELSE "match")
      /\ ret' = (IF ret = "boot" THEN "" ELSE ret)
      /\ watches' = watches \cup (found \cap disk.dirs) /\ found' = {}
      /\ includePatterns' = includePatterns /\ includeFiles' = includeFiles
      /\ procEnv' = procEnv /\ emitted' = emitted
      /\ disk' = disk /\ events' = events /\ armed' = armed /\ envChanged' = envChanged /\ gap' = gap
  BY DEF AddWatches
<1>2. /\ DiskOK' /\ QueueOK' /\ \A op, n : Queued(op, n)' <=> Queued(op, n)
      /\ \A n : Marked(n)' <=> Marked(n)
  BY <1>1, QueueStands DEF WatchInv, DiskOK, Included
<1>3. FlagsOK' BY <1>1 DEF WatchInv, FlagsOK
<1>4. ret \in {"event", "boot", "read"} /\ includePatterns \subseteq Patterns BY <1>1 DEF WatchInv, ControlOK
<1>5. ControlOK' BY <1>1, <1>4 DEF ControlOK
<1>6. ret = "event" => armed /\ events # << >> BY <1>1 DEF WatchInv, ControlOK, MatchOK
<1>7. MatchOK' BY <1>1, <1>4, <1>6 DEF MatchOK
<1>8. ASSUME Covered PROVE Covered'
  <2>1. ASSUME NEW p \in includePatterns
        PROVE  /\ Chain(PatDir[p]) \cap disk.dirs \subseteq watches'
               /\ \A l \in PatFiles[p] \cap DOMAIN Target : DirOf[Target[l]] \in watches' /\ Target[l] \in includeFiles
    <3>1. p \in Patterns BY <1>4
    <3>2. \A l \in PatFiles[p] \cap DOMAIN Target : DirOf[Target[l]] \in disk.dirs
      BY DEF WatchInv, DiskOK, Fixed, Targets
    <3> QED BY <1>1, <1>8, <3>2 DEF Covered
  <2> QED BY <1>1, <2>1 DEF Covered
<1>9. ~Starting' BY <1>1, <1>4 DEF Starting
<1>10. {DirOf["main"], DirOf["env"]} \subseteq watches => {DirOf["main"], DirOf["env"]} \subseteq watches' BY <1>1
<1>11. ASSUME ~gap, Starting PROVE Known'
  <2>1. Loaded /\ ret = "boot" BY <1>1, <1>11 DEF WatchInv, Starting
  <2>2. includePatterns = Included(disk) /\ Covered BY <1>1, <2>1 DEF Loaded
  <2>3. emitted' = <<ResolveIncludes(disk'), disk'.env>> /\ disk'.env = procEnv' BY <1>1, <2>1 DEF Loaded
  <2>4. {DirOf["main"], DirOf["env"]} \subseteq watches' BY <1>10, <2>1 DEF Loaded
  <2> QED BY <1>1, <1>8, <2>2, <2>3, <2>4 DEF Known
<1>12. ASSUME ~gap, ~Starting PROVE Known'
  <2>1. Known /\ ret # "boot" BY <1>1, <1>12 DEF WatchInv, Starting
  <2>2. ret' = ret BY <1>1, <2>1
  <2>3. \A x : Relevant(x)' <=> Relevant(x) BY <1>1 DEF Relevant, matchesAnyPattern
  <2>4. Made' <=> Made BY <1>1, <1>2 DEF Made, isPatternDirAncestor
  <2>5. WillRead => WillRead' BY <1>1, <1>2, <2>2, <2>3, <2>4 DEF WillRead
  <2>6. WillLook => WillLook' BY <1>1, <1>2 DEF WillLook
  <2>7. disk'.env = procEnv' \/ envChanged' \/ Marked("env")' BY <1>1, <1>2, <2>1 DEF Known
  <2>8. WillRead' \/ disk'.main.kind = "none" \/ emitted' = <<ResolveIncludes(disk'), disk'.env>>
    BY <1>1, <2>1, <2>5 DEF Known
  <2>9. WillLook' \/ includePatterns' = Included(disk') BY <1>1, <2>1, <2>6 DEF Known
  <2>10. WillLook' \/ Made' \/ Covered' BY <1>8, <2>1, <2>4, <2>6 DEF Known
  <2>11. {DirOf["main"], DirOf["env"]} \subseteq watches' BY <1>10, <2>1 DEF Known
  <2> QED BY <2>7, <2>8, <2>9, <2>10, <2>11 DEF Known
<1> QED BY <1>1, <1>2, <1>3, <1>5, <1>7, <1>9, <1>11, <1>12 DEF WatchInv

LEMMA TakeEventKeeps == ASSUME WatchInv, TakeEvent PROVE WatchInv'
<1> DEFINE create == Head(events)[1] = "create" /\ isPatternDirAncestor(includePatterns, Head(events)[2])
<1>1. /\ pc = "idle" /\ events # << >> /\ pc' = (IF create THEN "refresh" ELSE "match")
      /\ ret' = (IF create THEN "event" ELSE ret) /\ armed' = (armed \/ create)
      /\ watches' = watches /\ found' = found
      /\ includePatterns' = includePatterns /\ includeFiles' = includeFiles
      /\ procEnv' = procEnv /\ emitted' = emitted
      /\ disk' = disk /\ events' = events /\ envChanged' = envChanged /\ gap' = gap
  BY DEF TakeEvent, RearmOnCreate
<1>2. /\ DiskOK' /\ QueueOK' /\ \A op, n : Queued(op, n)' <=> Queued(op, n)
      /\ \A n : Marked(n)' <=> Marked(n)
  BY <1>1, QueueStands DEF WatchInv, DiskOK, Included
<1>3. Head(events) = events[1] OBVIOUS
<1>4. FlagsOK'
  <2>1. armed \in BOOLEAN /\ envChanged \in BOOLEAN /\ gap \in BOOLEAN /\ (envChanged => armed) BY DEF WatchInv, FlagsOK
  <2>2. armed' \in BOOLEAN BY <1>1
  <2>3. envChanged' => armed' BY <1>1, <2>1
  <2> QED BY <1>1, <2>1, <2>2, <2>3 DEF FlagsOK
<1>5. ret \in {"", "event"} BY <1>1 DEF WatchInv, ControlOK
<1>6. ControlOK' BY <1>1, <1>5 DEF WatchInv, ControlOK
<1>7. MatchOK'
  <2>1. ret = "event" => armed BY DEF WatchInv, MatchOK
  <2>2. ret' = "event" => armed' BY <1>1, <2>1
  <2>3. pc' = "match" => ~create BY <1>1
  <2> QED BY <1>1, <1>3, <2>2, <2>3 DEF MatchOK
<1>8. ~Starting /\ ~Starting' /\ pc # "load" BY <1>1, <1>5 DEF Starting
<1>9. ASSUME ~gap PROVE Known'
  <2>1. Known BY <1>8, <1>9 DEF WatchInv
  <2>2. \A x : Relevant(x)' <=> Relevant(x) BY <1>1 DEF Relevant, matchesAnyPattern
  <2>3. Made' <=> Made BY <1>1, <1>2 DEF Made, isPatternDirAncestor
  <2>4. armed => armed' BY <1>1
  <2>5. ret # "read" BY <1>5
  <2>6. WillRead => WillRead' BY <1>2, <2>2, <2>3, <2>4, <2>5 DEF WillRead
  <2>7. WillLook => WillLook' BY <1>2, <2>4, <2>5 DEF WillLook
  <2>8. Covered' <=> Covered BY <1>1 DEF Covered
  <2>9. disk'.env = procEnv' \/ envChanged' \/ Marked("env")' BY <1>1, <1>2, <2>1 DEF Known
  <2>10. WillRead' \/ disk'.main.kind = "none" \/ emitted' = <<ResolveIncludes(disk'), disk'.env>>
    BY <1>1, <2>1, <2>6 DEF Known
  <2>11. WillLook' \/ includePatterns' = Included(disk') BY <1>1, <2>1, <2>7 DEF Known
  <2>12. WillLook' \/ Made' \/ Covered' BY <2>1, <2>3, <2>7, <2>8 DEF Known
  <2>13. {DirOf["main"], DirOf["env"]} \subseteq watches' BY <1>1, <2>1 DEF Known
  <2> QED BY <2>9, <2>10, <2>11, <2>12, <2>13 DEF Known
<1> QED BY <1>1, <1>2, <1>4, <1>6, <1>7, <1>8, <1>9 DEF WatchInv

LEMMA MatchEventKeeps == ASSUME WatchInv, MatchEvent PROVE WatchInv'
<1> DEFINE name == Head(events)[2]
           watched == name \in {"main", "env"} \cup includeFiles \/ matchesAnyPattern(includePatterns, name)
<1>1. /\ pc = "match" /\ pc' = "idle" /\ events' = Tail(events)
      /\ armed' = (armed \/ watched) /\ envChanged' = (envChanged \/ name = "env")
      /\ ret' = ret /\ watches' = watches /\ found' = found
      /\ includePatterns' = includePatterns /\ includeFiles' = includeFiles
      /\ procEnv' = procEnv /\ emitted' = emitted /\ disk' = disk /\ gap' = gap
  BY DEF MatchEvent
<1>2. events # << >> BY <1>1 DEF WatchInv, MatchOK
<1>3. /\ QueueOK' /\ \A op, n : Queued(op, n) => events[1] = <<op, n>> \/ Queued(op, n)'
      /\ \A n : Marked(n) => events[1][2] = n \/ Marked(n)'
  BY <1>1, <1>2, QueueShrinks DEF WatchInv
<1>4. DiskOK' BY <1>1 DEF WatchInv, DiskOK, Included
<1>5. name = events[1][2] OBVIOUS
<1>6. FlagsOK /\ ret \in {"", "event"} /\ pc # "load" BY <1>1 DEF WatchInv, ControlOK
<1>7. watched <=> Relevant(name) BY DEF Relevant
<1>8. name = "env" => watched OBVIOUS
<1> HIDE DEF name, watched
<1>9. (armed => armed') /\ (watched => armed') BY <1>1
<1>10. FlagsOK'
  <2>1. armed \in BOOLEAN /\ envChanged \in BOOLEAN /\ gap \in BOOLEAN /\ (envChanged => armed) BY <1>6 DEF FlagsOK
  <2>2. armed' \in BOOLEAN /\ envChanged' \in BOOLEAN BY <1>1
  <2>3. envChanged' => armed' BY <1>1, <1>8, <2>1
  <2> QED BY <1>1, <2>1, <2>2, <2>3 DEF FlagsOK
<1>11. ControlOK' BY <1>1, <1>6 DEF WatchInv, ControlOK
<1>12. MatchOK'
  <2>1. ret = "event" => armed BY DEF WatchInv, MatchOK
  <2>2. ret' = "event" => armed' BY <1>1, <1>9, <2>1
  <2> QED BY <1>1, <2>2 DEF MatchOK
<1>13. ~Starting /\ ~Starting' BY <1>1, <1>6 DEF Starting
<1>14. ASSUME ~gap PROVE Known'
  <2>1. Known BY <1>6, <1>13, <1>14 DEF WatchInv
  <2>2. \A x : Relevant(x)' <=> Relevant(x) BY <1>1 DEF Relevant, matchesAnyPattern
  <2>3. ASSUME Made PROVE Made' \/ armed'
    <3>1. PICK x \in Dirs : Queued("create", x) /\ isPatternDirAncestor(includePatterns, x) BY <2>3 DEF Made
    <3>2. CASE Queued("create", x)'
      <4>1. isPatternDirAncestor(includePatterns', x) BY <1>1, <3>1
      <4> QED BY <3>2, <4>1 DEF Made
    <3>3. CASE events[1] = <<"create", x>>
      <4>1. events[1][1] = "create" /\ events[1][2] = x BY <3>3
      <4>2. armed BY <1>1, <3>1, <4>1 DEF WatchInv, MatchOK
      <4> QED BY <1>9, <4>2
    <3> QED BY <1>3, <3>1, <3>2, <3>3
  <2>4. ASSUME NEW x \in Name, Marked(x), Relevant(x) PROVE armed' \/ (Marked(x)' /\ Relevant(x)')
    <3>1. CASE events[1][2] = x BY <1>5, <1>7, <1>9, <2>4, <3>1
    <3>2. CASE Marked(x)' BY <2>2, <2>4, <3>2
    <3> QED BY <1>3, <2>4, <3>1, <3>2
  <2>5. ret # "read" BY <1>6
  <2>6. WillRead => WillRead'
    <3>1. armed => WillRead' BY <1>9 DEF WillRead
    <3>2. Made => WillRead' BY <2>3 DEF WillRead
    <3>3. (\E x \in Name : Marked(x) /\ Relevant(x)) => WillRead' BY <2>4 DEF WillRead
    <3> QED BY <2>5, <3>1, <3>2, <3>3 DEF WillRead
  <2>7. WillLook => WillLook'
    <3>1. "main" \in Name /\ Relevant("main") BY DEF Name, Relevant
    <3>2. Marked("main") => armed' \/ Marked("main")' BY <2>4, <3>1
    <3> QED BY <1>9, <2>5, <3>2 DEF WillLook
  <2>8. disk'.env = procEnv' \/ envChanged' \/ Marked("env")'
    <3>1. Marked("env") => name = "env" \/ Marked("env")' BY <1>3, <1>5
    <3>2. envChanged => envChanged' BY <1>1
    <3>3. name = "env" => envChanged' BY <1>1
    <3> QED BY <1>1, <2>1, <3>1, <3>2, <3>3 DEF Known
  <2>9. Covered' <=> Covered BY <1>1 DEF Covered
  <2>10. WillRead' \/ disk'.main.kind = "none" \/ emitted' = <<ResolveIncludes(disk'), disk'.env>>
    BY <1>1, <2>1, <2>6 DEF Known
  <2>11. WillLook' \/ includePatterns' = Included(disk') BY <1>1, <2>1, <2>7 DEF Known
  <2>12. WillLook' \/ Made' \/ Covered'
    <3>1. armed' => WillLook' BY DEF WillLook
    <3> QED BY <2>1, <2>3, <2>7, <2>9, <3>1 DEF Known
  <2>13. {DirOf["main"], DirOf["env"]} \subseteq watches' BY <1>1, <2>1 DEF Known
  <2> QED BY <2>8, <2>10, <2>11, <2>12, <2>13 DEF Known
<1> QED BY <1>1, <1>3, <1>4, <1>10, <1>11, <1>12, <1>13, <1>14 DEF WatchInv

LEMMA FireKeeps == ASSUME WatchInv, Fire PROVE WatchInv'
<1>1. /\ pc = "idle" /\ armed' = FALSE /\ envChanged' = FALSE
      /\ procEnv' = (IF envChanged THEN disk.env ELSE procEnv) /\ pc' = "refresh" /\ ret' = "read"
      /\ disk' = disk /\ watches' = watches /\ events' = events /\ found' = found
      /\ includePatterns' = includePatterns /\ gap' = gap
  BY DEF Fire
<1>2. /\ DiskOK' /\ QueueOK' /\ \A n : Marked(n)' <=> Marked(n)
  BY <1>1, QueueStands DEF WatchInv, DiskOK, Included
<1>3. FlagsOK' BY <1>1 DEF WatchInv, FlagsOK
<1>4. ControlOK' BY <1>1 DEF WatchInv, ControlOK
<1>5. MatchOK' BY <1>1 DEF MatchOK
<1>6. ~Starting /\ ~Starting' /\ pc # "load" BY <1>1 DEF WatchInv, ControlOK, Starting
<1>7. ASSUME ~gap PROVE Known'
  <2>1. Known BY <1>6, <1>7 DEF WatchInv
  <2>2. WillRead' /\ WillLook' BY <1>1 DEF WillRead, WillLook
  <2>3. disk'.env = procEnv' \/ Marked("env")' BY <1>1, <1>2, <2>1 DEF Known
  <2>4. {DirOf["main"], DirOf["env"]} \subseteq watches' BY <1>1, <2>1 DEF Known
  <2> QED BY <2>2, <2>3, <2>4 DEF Known
<1> QED BY <1>1, <1>2, <1>3, <1>4, <1>5, <1>6, <1>7 DEF WatchInv

LEMMA EmitKeeps == ASSUME WatchInv, Emit PROVE WatchInv'
<1>1. /\ pc = "read" /\ pc' = "idle" /\ ret' = ""
      /\ emitted' = (IF disk.main.kind = "none" THEN emitted ELSE <<ResolveIncludes(disk), procEnv>>)
      /\ disk' = disk /\ watches' = watches /\ events' = events /\ found' = found
      /\ armed' = armed /\ envChanged' = envChanged /\ procEnv' = procEnv
      /\ includePatterns' = includePatterns /\ includeFiles' = includeFiles /\ gap' = gap
  BY DEF Emit
<1>2. /\ DiskOK' /\ QueueOK' /\ \A op, n : Queued(op, n)' <=> Queued(op, n)
      /\ \A n : Marked(n)' <=> Marked(n)
  BY <1>1, QueueStands DEF WatchInv, DiskOK, Included
<1>3. FlagsOK' BY <1>1 DEF WatchInv, FlagsOK
<1>4. ControlOK' BY <1>1 DEF WatchInv, ControlOK
<1>5. MatchOK' BY <1>1 DEF MatchOK
<1>6. ~Starting /\ ~Starting' /\ pc # "load" BY <1>1 DEF WatchInv, ControlOK, Starting
<1>7. ASSUME ~gap PROVE Known'
  <2>1. Known BY <1>6, <1>7 DEF WatchInv
  <2>2. Made' <=> Made BY <1>1, <1>2 DEF Made, isPatternDirAncestor
  <2>3. WillLook => WillLook' BY <1>1, <1>2 DEF WillLook
  <2>4. Covered' <=> Covered BY <1>1 DEF Covered
  <2>5. disk'.env = procEnv' \/ envChanged' \/ Marked("env")' BY <1>1, <1>2, <2>1 DEF Known
  <2>6. envChanged' => WillRead'
    <3>1. envChanged' => armed' BY <1>3 DEF FlagsOK
    <3> QED BY <3>1 DEF WillRead
  <2>7. Marked("env")' => WillRead' BY DEF WillRead, Relevant, Name
  <2>8. WillRead' \/ disk'.main.kind = "none" \/ emitted' = <<ResolveIncludes(disk'), disk'.env>>
    BY <1>1, <2>5, <2>6, <2>7
  <2>9. WillLook' \/ includePatterns' = Included(disk') BY <1>1, <2>1, <2>3 DEF Known
  <2>10. WillLook' \/ Made' \/ Covered' BY <2>1, <2>2, <2>3, <2>4 DEF Known
  <2>11. {DirOf["main"], DirOf["env"]} \subseteq watches' BY <1>1, <2>1 DEF Known
  <2> QED BY <2>5, <2>8, <2>9, <2>10, <2>11 DEF Known
<1> QED BY <1>1, <1>2, <1>3, <1>4, <1>5, <1>6, <1>7 DEF WatchInv

(***************************************************************************)
(* Theorems.                                                               *)
(***************************************************************************)
LEMMA InitWatch == ASSUME Init PROVE WatchInv
<1>1. /\ DOMAIN disk = {"dirs", "file", "main", "env"} /\ disk.dirs \subseteq Dirs
      /\ {Base} \cup {DirOf[f] : f \in Fixed} \subseteq disk.dirs
      /\ disk.file = [f \in Fragments |-> IF f \in Targets THEN Holding({}) ELSE NoFile]
      /\ disk.main.inc \subseteq Patterns
  BY DEF Init
<1>2. DiskOK
  <2>1. Targets \subseteq Fragments /\ Targets \subseteq Fixed BY DEF Fixed
  <2>2. \A f \in Fragments : disk.file[f].kind # "none" <=> f \in Targets BY <1>1 DEF Holding, NoFile
  <2> QED BY <1>1, <2>1, <2>2 DEF DiskOK, Included
<1>3. QueueOK
  <2>1. events = << >> BY DEF Init
  <2> QED BY <2>1 DEF QueueOK
<1>4. FlagsOK BY DEF Init, FlagsOK
<1>5. ControlOK BY DEF Init, ControlOK
<1>6. MatchOK BY DEF Init, MatchOK
<1>7. pc = "load" /\ ~Starting BY DEF Init, Starting
<1> QED BY <1>2, <1>3, <1>4, <1>5, <1>6, <1>7 DEF WatchInv

LEMMA NextKeepsWatch == ASSUME WatchInv, [Next]_vars PROVE WatchInv'
<1>1. CASE UNCHANGED vars
  <2>1. /\ disk' = disk /\ watches' = watches /\ events' = events /\ pc' = pc /\ ret' = ret /\ armed' = armed
        /\ envChanged' = envChanged /\ includePatterns' = includePatterns /\ includeFiles' = includeFiles
        /\ found' = found /\ procEnv' = procEnv /\ emitted' = emitted /\ gap' = gap
    BY <1>1 DEF vars
  <2>2. DiskOK' /\ QueueOK' BY <2>1, QueueStands DEF WatchInv, DiskOK, Included
  <2>3. FlagsOK' BY <2>1 DEF WatchInv, FlagsOK
  <2>4. ControlOK' BY <2>1 DEF WatchInv, ControlOK
  <2>5. MatchOK' BY <2>1 DEF WatchInv, MatchOK
  <2>6. /\ \A op, n : Queued(op, n)' <=> Queued(op, n)
        /\ \A n : Marked(n)' <=> Marked(n)
        /\ \A n : Relevant(n)' <=> Relevant(n)
    BY <2>1, QueueStands DEF WatchInv, Relevant, matchesAnyPattern
  <2>7. Covered' <=> Covered BY <2>1 DEF Covered
  <2>8. (Made' <=> Made) /\ (Starting' <=> Starting) BY <2>1, <2>6 DEF Made, Starting, isPatternDirAncestor
  <2>9. (WillRead' <=> WillRead) /\ (WillLook' <=> WillLook) BY <2>1, <2>6, <2>8 DEF WillRead, WillLook
  <2>10. Known => Known' BY <2>1, <2>6, <2>7, <2>8, <2>9 DEF Known
  <2>11. Loaded => Loaded' BY <2>1, <2>7 DEF Loaded
  <2> QED BY <2>1, <2>2, <2>3, <2>4, <2>5, <2>8, <2>10, <2>11 DEF WatchInv
<1>2. CASE Editor
  BY <1>2, WriteMainKeeps, SpoilMainKeeps, WriteEnvKeeps, FragmentsKeep, MkdirKeeps, RmdirKeeps DEF Editor
<1>3. CASE Watcher
  BY <1>3, LoadKeeps, WatchKeeps, refreshIncludesKeeps, AddWatchesKeeps, TakeEventKeeps, MatchEventKeeps,
     FireKeeps, EmitKeeps DEF Watcher
<1> QED BY <1>1, <1>2, <1>3 DEF Next

(* At every moment at which the watcher could look, each difference        *)
(* between the disk and what the engine was given is announced: an event   *)
(* that will be taken for a change is in the queue, or the reload is armed *)
(* or under way; and what the patterns name is watched, or the watcher     *)
(* will look again (source.go: Watch, refreshIncludes).                    *)
THEOREM WatcherKnows == Spec => []WatchInv
<1>1. Init => WatchInv BY InitWatch
<1>2. WatchInv /\ [Next]_vars => WatchInv' BY NextKeepsWatch
<1> QED BY <1>1, <1>2, PTL DEF Spec

(* A watcher at rest has given the engine what the disk holds, read under  *)
(* the environment of the .env file, whatever was edited, made, removed or *)
(* linked and whenever (source.go: Watch, emit).                           *)
THEOREM EditsAreSeenHolds == Spec => []EditsAreSeen
<1>1. ASSUME WatchInv PROVE EditsAreSeen
  <2> SUFFICES ASSUME Quiet, ~gap, disk.main.kind # "none"
               PROVE  emitted = <<ResolveIncludes(disk), disk.env>>
    BY DEF EditsAreSeen
  <2>1. pc = "idle" /\ events = << >> /\ ~armed BY DEF Quiet
  <2>2. ret # "read" /\ ret # "boot" BY <1>1, <2>1 DEF WatchInv, ControlOK
  <2>3. Known BY <1>1, <2>1, <2>2 DEF WatchInv, Starting
  <2>4. DOMAIN events = {} BY <2>1
  <2>5. ~WillRead BY <2>1, <2>2, <2>4 DEF WillRead, Made, Queued, Marked
  <2> QED BY <2>3, <2>5 DEF Known
<1> QED BY <1>1, WatcherKnows, PTL

=============================================================================
