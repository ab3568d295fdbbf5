------------------------------ MODULE FileWatch ------------------------------
(***************************************************************************)
(* A local configuration: the main file with its include: patterns, the    *)
(* fragments they match, the .env file, and the watcher that turns edits   *)
(* into reloads (internal/config/include.go, source.go).  Editors change   *)
(* the disk at any moment; the kernel queues an event for a change only in *)
(* a directory that is watched by then.                                    *)
(*                                                                         *)
(* A file holds the set of the entries it declares, NoFile when there is   *)
(* none and Garbled when it does not parse; the main file also holds its   *)
(* patterns.                                                               *)
(***************************************************************************)
EXTENDS Naturals, Sequences, FiniteSets
LOCAL INSTANCE SequencesExt
LOCAL INSTANCE Functions

CONSTANTS Dirs, Base,      \* the directories and that of the project
          Parent,          \* of each directory but Base
          Fragments,       \* the files an include may name, links among them
          DirOf,           \* of every file, "main" and "env" among them
          Target,          \* of the links, the file each leads to
          Display,         \* the fragments in the order of their names
          Patterns, PatDir, PatFiles,  \* of a pattern: its directory, the names it matches
          Entries,         \* what files may declare
          MaxEdits         \* bound: edits in a behaviour
Targets == {Target[l] : l \in DOMAIN Target}
ASSUME WorldAssumption ==
  /\ IsFiniteSet(Fragments) /\ Base \in Dirs /\ Parent \in [Dirs \ {Base} -> Dirs]
  /\ DirOf \in [Fragments \cup {"main", "env"} -> Dirs]
  /\ DOMAIN Target \subseteq Fragments /\ Targets \subseteq Fragments \ DOMAIN Target
  /\ PatDir \in [Patterns -> Dirs]
  /\ \A p \in Patterns : PatFiles[p] \subseteq {f \in Fragments : DirOf[f] = PatDir[p]}

VARIABLES disk,      \* [dirs, file, main, env]
          watches,   \* the directories with a watch
          events,    \* the queue of the watcher: <<op, path>>
          pc, ret,   \* where the watcher is, and where it goes after refreshIncludes
          armed, envChanged,
          includePatterns, includeFiles, found,  \* found: the directories about to be watched
          procEnv,   \* the .env values in the process
          emitted,   \* what the engine was last given: <<document, environment>>
          edits, gap \* gap: something happened where the watcher could not look; no edit
                     \* follows it, for nothing is claimed after it
vars == <<disk, watches, events, pc, ret, armed, envChanged, includePatterns, includeFiles, found,
          procEnv, emitted, edits, gap>>

NoFile == [kind |-> "none", has |-> {}]
Garbled == [kind |-> "garbled", has |-> {}]
Holding(S) == [kind |-> "file", has |-> S]
NotRead == [kind |-> "not read", has |-> {}]
Failed(why) == [kind |-> why, has |-> {}]

(* What is never removed: links, what they lead to, and the main files.    *)
Fixed == {"main", "env"} \cup DOMAIN Target \cup Targets

Real(f) == IF f \in DOMAIN Target THEN Target[f] ELSE f
(* A directory and those it lies in, up to that of the project.            *)
Chain(d) == {e \in Dirs : \A S \in SUBSET Dirs :
               d \in S /\ (\A x \in S \ {Base} : Parent[x] \in S) => e \in S}

(***************************************************************************)
(* Merging.                                                                *)
(***************************************************************************)
Included(d) == IF d.main.kind = "file" THEN d.main.inc ELSE {}
(* A link is matched by its own name, whether or not it leads anywhere.    *)
Glob(d, p) == {f \in PatFiles[p] : IF f \in DOMAIN Target THEN DirOf[f] \in d.dirs ELSE d.file[f].kind # "none"}

\* Mutant: files are told apart by name, not by target.
globByName(d, p) == [f \in Glob(d, p) |-> f]
globInclude(d, p) == [real \in {Real(f) : f \in Glob(d, p)} |-> CHOOSE f \in Glob(d, p) : Real(f) = real]

(* What is read: the main file, what its patterns match, and those files.  *)
Sources(d) ==
  LET matches == [p \in Included(d) |-> globInclude(d, p)]
  IN  [main |-> d.main, matches |-> matches,
       file |-> [f \in UNION {DOMAIN matches[p] : p \in Included(d)} |-> d.file[Real(f)]]]

mergeFragment(doc, frag) ==
  CASE doc.kind # "file"        -> doc
    [] frag.kind = "none"       -> Failed("not there")
    [] frag.kind = "garbled"    -> Failed("syntax")
    [] frag.has \cap doc.has # {} -> Failed("defined twice")
    [] OTHER                    -> Holding(doc.has \cup frag.has)
Merged(src) ==
  LET patterns == DOMAIN src.matches
      name(real) == CHOOSE i \in DOMAIN Display : \E p \in patterns :
                      real \in DOMAIN src.matches[p] /\ src.matches[p][real] = Display[i]
      sorted == SetToSortSeq(DOMAIN src.file, LAMBDA f, g : name(f) < name(g))
  IN  CASE src.main.kind = "none"    -> Failed("main missing")
        [] src.main.kind = "garbled" -> Garbled
        [] \E p \in patterns : src.matches[p] = << >> -> Failed("matches no files")
        [] \E f \in DOMAIN src.file : src.file[f].kind = "none" -> Failed("dangling link")
        [] OTHER -> FoldLeft(LAMBDA doc, f : mergeFragment(doc, src.file[f]), Holding(src.main.has), sorted)
ResolveIncludes(d) == Merged(Sources(d))

(* What refreshIncludes finds: it returns before watching anything.        *)
includeWatchTargets(d) ==
  LET matched == UNION {Glob(d, p) : p \in Included(d)}
      alive == {f \in matched : d.file[Real(f)].kind # "none"}
  IN  [dirs |-> ((UNION {Chain(PatDir[p]) : p \in Included(d)}) \cap d.dirs)
                \cup {DirOf[Real(f)] : f \in alive \cap DOMAIN Target},
       patterns |-> Included(d),
       files |-> matched \cup {Real(f) : f \in alive}]
isPatternDirAncestor(patterns, name) == name \in UNION {Chain(PatDir[p]) : p \in patterns}
matchesAnyPattern(patterns, name) == \E p \in patterns : name \in PatFiles[p]

(***************************************************************************)
(* Editors.                                                                *)
(***************************************************************************)
Edit(d, named) ==
  /\ edits < MaxEdits /\ ~gap /\ edits' = edits + 1
  /\ disk' = d
  /\ events' = events \o named
  /\ gap' = (gap \/ pc \in {"load", "watch"} \/ ret = "boot")
  /\ UNCHANGED <<pc, ret, armed, envChanged, includePatterns, includeFiles, found, procEnv, emitted>>
Seen(dir, op, name) == IF dir \in watches THEN <<<<op, name>>>> ELSE << >>

WriteMain == \E inc \in SUBSET Patterns, S \in SUBSET Entries :
  LET new == [kind |-> "file", has |-> S, inc |-> inc] IN
  /\ disk.main # new
  /\ Edit([disk EXCEPT !.main = new],
          Seen(DirOf["main"], IF disk.main.kind = "none" THEN "create" ELSE "write", "main"))
  /\ UNCHANGED watches
SpoilMain == \E left \in {"none", "garbled"} :
  /\ disk.main.kind = "file"
  /\ Edit([disk EXCEPT !.main = [kind |-> left, has |-> {}, inc |-> {}]],
          Seen(DirOf["main"], IF left = "none" THEN "remove" ELSE "write", "main"))
  /\ UNCHANGED watches
WriteEnv == \E v \in {"new", "newer"} :
  /\ disk.env # v
  /\ Edit([disk EXCEPT !.env = v], Seen(DirOf["env"], "write", "env"))
  /\ UNCHANGED watches
WriteFragment == \E f \in Fragments \ DOMAIN Target, new \in {Garbled} \cup {Holding({e}) : e \in Entries} :
  /\ DirOf[f] \in disk.dirs /\ disk.file[f] # new
  /\ Edit([disk EXCEPT !.file[f] = new],
          Seen(DirOf[f], IF disk.file[f].kind = "none" THEN "create" ELSE "write", f))
  /\ UNCHANGED watches
RemoveFragment == \E f \in Fragments \ Targets :
  /\ f \notin DOMAIN Target /\ disk.file[f].kind # "none"
  /\ Edit([disk EXCEPT !.file[f] = NoFile], Seen(DirOf[f], "remove", f))
  /\ UNCHANGED watches
(* A directory that is made while the watcher is between its look at the   *)
(* disk and its watches is in the dark when its parent is.                 *)
Mkdir == \E d \in Dirs \ disk.dirs :
  /\ Parent[d] \in disk.dirs
  /\ edits < MaxEdits /\ ~gap /\ edits' = edits + 1
  /\ disk' = [disk EXCEPT !.dirs = @ \cup {d}]
  /\ events' = events \o Seen(Parent[d], "create", d)
  /\ gap' = (gap \/ pc \in {"load", "watch", "add"} \/ ret = "boot")
  /\ UNCHANGED <<watches, pc, ret, armed, envChanged, includePatterns, includeFiles, found, procEnv, emitted>>
(* The files of a directory are removed before it, in any order.           *)
Orders(S) == {s \in [1..Cardinality(S) -> S] : \A x \in S : \E i \in DOMAIN s : s[i] = x}
Rmdir == \E d \in disk.dirs \ {Base} :
  LET files == {f \in Fragments : DirOf[f] = d /\ disk.file[f].kind # "none"} IN
  /\ ~\E e \in disk.dirs \ {Base} : Parent[e] = d
  /\ d \notin {DirOf[f] : f \in Fixed}
  /\ \E order \in Orders(files) :
       Edit([disk EXCEPT !.dirs = @ \ {d},
                         !.file = [f \in Fragments |-> IF f \in files THEN NoFile ELSE disk.file[f]]],
            (IF d \in watches THEN [i \in DOMAIN order |-> <<"remove", order[i]>>] ELSE << >>)
            \o Seen(Parent[d], "remove", d))
  /\ watches' = watches \ {d}

(***************************************************************************)
(* The watcher.                                                            *)
(***************************************************************************)
(* inz loads the configuration first and starts to watch later.            *)
Load ==
  /\ pc = "load" /\ pc' = "watch"
  /\ procEnv' = disk.env
  /\ emitted' = <<ResolveIncludes(disk), disk.env>>
  /\ UNCHANGED <<disk, watches, events, ret, armed, envChanged, includePatterns, includeFiles, found, edits, gap>>
Watch ==
  /\ pc = "watch" /\ pc' = "refresh" /\ ret' = "boot"
  /\ watches' = watches \cup {DirOf["main"], DirOf["env"]}
  /\ UNCHANGED <<disk, events, armed, envChanged, includePatterns, includeFiles, found, procEnv, emitted, edits, gap>>
refreshIncludes ==
  /\ pc = "refresh" /\ pc' = "add"
  /\ LET t == includeWatchTargets(disk) IN
     found' = t.dirs /\ includePatterns' = t.patterns /\ includeFiles' = t.files
  /\ UNCHANGED <<disk, watches, events, ret, armed, envChanged, procEnv, emitted, edits, gap>>
AddWatches ==
  /\ pc = "add" /\ pc' = (IF ret = "read" THEN "read" ELSE IF ret = "boot" THEN "idle" ELSE "match")
  /\ watches' = watches \cup (found \cap disk.dirs)
  /\ found' = {} /\ ret' = (IF ret = "boot" THEN "" ELSE ret)
  /\ UNCHANGED <<disk, events, armed, envChanged, includePatterns, includeFiles, procEnv, emitted, edits, gap>>

\* Mutant: the reload waits for another event.
RearmUnlessCreated(create) == FALSE
(* The head of the queue.  A directory on the way to a pattern has come    *)
(* into being: its files may be older than the watch on it.                *)
RearmOnCreate(create) == create
TakeEvent ==
  /\ pc = "idle" /\ events # << >>
  /\ LET create == Head(events)[1] = "create" /\ isPatternDirAncestor(includePatterns, Head(events)[2]) IN
     /\ pc' = (IF create THEN "refresh" ELSE "match")
     /\ ret' = (IF create THEN "event" ELSE ret)
     /\ armed' = (armed \/ RearmOnCreate(create))
  /\ UNCHANGED <<disk, watches, events, envChanged, includePatterns, includeFiles, found, procEnv, emitted, edits, gap>>
MatchEvent ==
  /\ pc = "match" /\ pc' = "idle" /\ events' = Tail(events)
  /\ LET name == Head(events)[2]
         watched == name \in {"main", "env"} \cup includeFiles \/ matchesAnyPattern(includePatterns, name)
     IN  /\ armed' = (armed \/ watched)
         /\ envChanged' = (envChanged \/ name = "env")
  /\ UNCHANGED <<disk, watches, ret, includePatterns, includeFiles, found, procEnv, emitted, edits, gap>>

Fire ==
  /\ pc = "idle" /\ armed
  /\ armed' = FALSE /\ envChanged' = FALSE
  /\ procEnv' = (IF envChanged THEN disk.env ELSE procEnv)
  /\ pc' = "refresh" /\ ret' = "read"
  /\ UNCHANGED <<disk, watches, events, includePatterns, includeFiles, found, emitted, edits, gap>>
(* A main file that is missing for a moment is not reported.               *)
Emit ==
  /\ pc = "read" /\ pc' = "idle" /\ ret' = ""
  /\ emitted' = (IF disk.main.kind = "none" THEN emitted
                 ELSE <<ResolveIncludes(disk), procEnv>>)
  /\ UNCHANGED <<disk, watches, events, armed, envChanged, includePatterns, includeFiles, found, procEnv, edits, gap>>

Init ==
  /\ disk \in [dirs : {D \in SUBSET Dirs : {Base} \cup {DirOf[f] : f \in Fixed} \subseteq D
                                           /\ \A d \in D \ {Base} : Parent[d] \in D},
               file : {[f \in Fragments |-> IF f \in Targets THEN Holding({}) ELSE NoFile]},
               main : [kind : {"file"}, has : {{}}, inc : SUBSET Patterns], env : {"old"}]
  /\ watches = {} /\ events = << >> /\ pc = "load" /\ ret = "" /\ armed = FALSE /\ envChanged = FALSE
  /\ includePatterns = {} /\ includeFiles = {} /\ found = {} /\ procEnv = "old"
  /\ emitted = <<NotRead, "old">> /\ edits = 0 /\ gap = FALSE

Editor == WriteMain \/ SpoilMain \/ WriteEnv \/ WriteFragment \/ RemoveFragment \/ Mkdir \/ Rmdir
Watcher == Load \/ Watch \/ refreshIncludes \/ AddWatches \/ TakeEvent \/ MatchEvent \/ Fire \/ Emit
Next == Editor \/ Watcher
Spec == Init /\ [][Next]_vars

(***************************************************************************)
(* Properties.                                                             *)
(***************************************************************************)
Quiet == pc = "idle" /\ events = << >> /\ ~armed
(* When the watcher rests, the engine was last given what the disk holds,  *)
(* read under the environment the .env file holds: no edit of the main     *)
(* file, of a fragment, of a link's target or of a directory in the making *)
(* is lost.  A missing main file, and the moments in which the watcher     *)
(* cannot see, are the exceptions.                                         *)
EditsAreSeen ==
  Quiet /\ ~gap /\ disk.main.kind # "none" => emitted = <<ResolveIncludes(disk), disk.env>>

(* A document is the main file and every file some pattern matches, each   *)
(* once however many patterns and links lead to it, and an entry that two  *)
(* files declare is never settled by dropping one of them.                 *)
MergeIsFaithful ==
  LET real == {Real(f) : f \in UNION {Glob(disk, p) : p \in Included(disk)}}
      parts == {disk.main.has} \cup {disk.file[f].has : f \in real}
      declared(e) == Cardinality({f \in real : e \in disk.file[f].has}) + (IF e \in disk.main.has THEN 1 ELSE 0)
      doc == ResolveIncludes(disk)
  IN  /\ doc.kind = "file" => doc.has = UNION parts /\ \A e \in Entries : declared(e) <= 1
      /\ doc.kind = "defined twice" => \E e \in Entries : declared(e) > 1
=============================================================================
