------------------------------ MODULE MCDeploy ------------------------------
(***************************************************************************)
(* Instances of Deploy.  The configurations form a small application's     *)
(* life: a parent and a child table with a key, an index, a guard, and     *)
(* policies that call a function and use a column; renames; drops;         *)
(* buckets.                                                                *)
(***************************************************************************)
EXTENDS Deploy, TLC

Col(type) == [type |-> type, req |-> FALSE, pk |-> FALSE, fk |-> <<None, None>>, dflt |-> FALSE,
              guard |-> FALSE, from |-> None]
Key == [Col("id") EXCEPT !.pk = TRUE]
Refs(type, t, c) == [Col(type) EXCEPT !.fk = <<t, c>>]
Ref(t, c) == Refs("id", t, c)
Table(cols) == [from |-> None, cols |-> cols, idx |-> {}, rls |-> FALSE, pols |-> << >>]
Unique(c) == [cols |-> {c}, uniq |-> TRUE]
Index(c) == [cols |-> {c}, uniq |-> FALSE]
Calls(f) == [expr |-> "call", calls |-> f, cols |-> {}]
Uses(c) == [expr |-> "own", calls |-> None, cols |-> {c}]
Owner == [expr |-> "owner", calls |-> None, cols |-> {}]
Fn(sig, body) == [sig |-> sig, body |-> body]

Authors == Table([id |-> Key, name |-> Col("text")])
Posts == [Table([id |-> Key, by |-> Ref("authors", "id"), title |-> [Col("text") EXCEPT !.guard = TRUE]])
            EXCEPT !.idx = {Index("title")}, !.rls = TRUE, !.pols = <<Calls("mine"), Uses("by")>>]
First == [tables |-> [authors |-> Authors, posts |-> Posts], rpc |-> [mine |-> Fn("1", "x")],
          storage |-> << >>, email |-> TRUE]
(* The child is renamed with a column, whose type changes; the parent gets *)
(* a unique name, and a new table refers to it, and to itself.  Then the   *)
(* function takes other arguments.                                         *)
Renamed ==
  LET articles == [Posts EXCEPT !.from = "posts", !.idx = {Index("headline")}, !.pols = <<Calls("mine")>>,
                     !.cols = [id |-> Key, by |-> Ref("authors", "id"),
                               headline |-> [Col("varchar") EXCEPT !.from = "title", !.guard = TRUE]]]
      likes == [Table([id |-> Key, who |-> Refs("text", "authors", "name"), up |-> Refs("text", "likes", "tag"), tag |-> Col("text")])
                  EXCEPT !.idx = {Unique("tag")}]
  IN  [First EXCEPT !.tables = [authors |-> [Authors EXCEPT !.idx = {Unique("name")}], articles |-> articles,
                                likes |-> likes]]
(* The column's type changes back, and the new table goes.                 *)
Settled == [Renamed EXCEPT !.tables = [authors |-> @.authors,
                                       articles |-> [@.articles EXCEPT !.cols.headline.type = "text"]]]
(* Then a column that a policy of the old name uses.                       *)
Shed == [Settled EXCEPT !.tables.articles.cols = [id |-> @.id, headline |-> @.headline]]
Resigned == [Renamed EXCEPT !.rpc = [mine |-> Fn("2", "x")]]
(* The guard, a policy, a column and the index go; the other column is     *)
(* required, and owned.                                                    *)
Slim == [First EXCEPT !.tables.posts =
           [Posts EXCEPT !.cols = [id |-> Key, by |-> [Ref("authors", "id") EXCEPT !.req = TRUE, !.dflt = TRUE]],
                         !.idx = {}, !.pols = <<Open>>],
                      !.rpc = << >>, !.email = FALSE]
(* The parent goes, and the child's key column with it.                    *)
Orphan == [tables |-> [posts |-> [Posts EXCEPT !.cols = [id |-> Key, title |-> Col("text")], !.rls = FALSE,
                                               !.pols = << >>]],
           rpc |-> << >>, storage |-> << >>, email |-> TRUE]
(* Keys are moved; a column goes that a policy uses; the parent goes but   *)
(* not the child's column; a column takes another type.                    *)
Rewired == [First EXCEPT !.tables =
  [authors |-> [Authors EXCEPT !.idx = {Unique("name")}],
   posts |-> [Posts EXCEPT !.cols.by.fk = <<None, None>>, !.cols.title.fk = <<"authors", "name">>]]]
Trimmed == [First EXCEPT !.tables.posts =
  [Posts EXCEPT !.cols = [id |-> Key, title |-> Col("text")], !.pols = <<Calls("mine"), Open>>]]
Adrift == [First EXCEPT !.tables = [posts |-> [Posts EXCEPT !.cols.by.fk = <<None, None>>]]]
Retyped == [First EXCEPT !.tables.posts.cols.title.type = "number"]
Rekeyed == [First EXCEPT !.tables.authors = [Authors EXCEPT !.cols = [id |-> Col("id"), name |-> Key], !.idx = {Unique("id")}]]
Closed == [First EXCEPT !.storage = [docs |-> <<Owner, Calls("theirs")>>, pics |-> << >>],
                        !.rpc = [mine |-> Fn("1", "x"), theirs |-> Fn("1", "y")]]
Shared == [Slim EXCEPT !.storage = [docs |-> <<Calls("theirs")>>, pics |-> <<Owner>>],
                       !.rpc = [theirs |-> Fn("2", "y")]]

MCConfigs == [first |-> First, renamed |-> Renamed, settled |-> Settled, shed |-> Shed, resigned |-> Resigned, slim |-> Slim, orphan |-> Orphan, rekeyed |-> Rekeyed,
              closed |-> Closed, shared |-> Shared, broken |-> First,
              rewired |-> Rewired, trimmed |-> Trimmed, adrift |-> Adrift, retyped |-> Retyped]
MCValid == DOMAIN MCConfigs \ {"broken"}

(* A database as an older release left it: its buckets open to readers,    *)
(* storage.objects without its newer columns and indexes, and history and  *)
(* accounts readable by the API's roles.                                   *)
Legacy ==
  LET old == RunAll(EmptyDB, planFromScratchStatements(Closed))
  IN  [old EXCEPT !.storage = [cols |-> {"id", "owner"}, idx |-> {}, rls |-> TRUE,
                               pol |-> old.storage.pol @@ (publicSelect("docs") :> Open)],
                  !.auth = {"users", "refresh_tokens", "functions"}, !.api = {"history", "auth"}]

Alone(configs, gate, edited) ==
  [engines |-> {"e1"}, configs |-> configs, gate |-> gate, ledger |-> None, db |-> EmptyDB, kind |-> "s3",
   edits |-> edited, saves |-> 0, faults |-> 0]
Together(configs, edited, saved, failed) ==
  [engines |-> {"e1", "e2"}, configs |-> configs, gate |-> FALSE, ledger |-> None, db |-> EmptyDB, kind |-> "s3",
   edits |-> edited, saves |-> saved, faults |-> failed]
Upgraded == [Alone({"first", "slim", "closed", "shared"}, FALSE, 2) EXCEPT !.ledger = "closed", !.db = Legacy]
Bundled == [Alone({"first", "renamed", "broken"}, FALSE, 2) EXCEPT !.kind = "bundle", !.saves = 1, !.faults = 1]

Moved == {"rewired", "trimmed", "adrift", "retyped"}
MCScenarios ==
  {Alone(MCValid \ Moved, TRUE, 2), Alone(Moved \cup {"first", "orphan"}, TRUE, 2), Upgraded,
   Together({"first", "renamed"}, 1, 1, 1), Together({"first", "slim", "broken"}, 1, 0, 1), Bundled}
(* A key moves; what holds a removal goes later in the same edit.          *)
MCKeys == {Alone({"first", "rewired"}, TRUE, 1)}
MCRemovals == {Alone({"first", "renamed", "trimmed"}, TRUE, 1)}
(* Two saves during one reload.                                            *)
MCTwoSaves == {[Alone({"first", "slim"}, TRUE, 1) EXCEPT !.saves = 2]}
=============================================================================
