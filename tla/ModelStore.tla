------------------------------ MODULE ModelStore ------------------------------
(***************************************************************************)
(* The models on one machine: the directories under models_dir, and the    *)
(* tables `models` and `modelfiles` of the database beside it.  They are   *)
(* changed by the server's routes (pull, create, copy, delete) and by the  *)
(* commands of the command line (pull, rename, delete), which run in       *)
(* processes of their own, share nothing with the server but the files,    *)
(* and may be interrupted.                                                 *)
(*                                                                         *)
(* A model named n is kept in the directory Dir[n] ("/" is written "--").  *)
(* The command line registers it under that id too, the routes under n.    *)
(*                                                                         *)
(* A pull fetches several files of a repository one after the other.  Each *)
(* .litertlm file is written to model.litertlm, over the one before; the   *)
(* others keep their own names, and nobody looks for those.                *)
(***************************************************************************)
EXTENDS Naturals, FiniteSets, Sequences

CONSTANTS
    Names,          \* the models' names, which also stand for their repositories
    Dir,            \* the directory of each name
    Modelfiles,     \* the names of modelfiles
    ApiPulls, CliPulls, \* the pulls, each run once
    Siblings,       \* the kinds of the files in each repository, in order
    Blocks,         \* the blocks of each .litertlm file
    NoSource,       \* the source of a row that has none
    None

Dirs == {Dir[n] : n \in Names}
Ids == Names \cup Dirs
Kinds == {"litertlm", "bin", "other"}

\* The files that a pull fetches, by their places in the repository: those that
\* may be models, or all of them.
Files(n) ==
    LET chosen == {i \in DOMAIN Siblings[n] : Siblings[n][i] \in {"litertlm", "bin"}}
    IN  IF chosen = {} THEN DOMAIN Siblings[n] ELSE chosen

ModelFiles(n) == {i \in Files(n) : Siblings[n][i] = "litertlm"}

\* What a block of a model.litertlm can hold: nothing yet, or what the file i
\* of the repository n has there.
Unwritten == <<>>
Contents == {Unwritten} \cup (Names \X Nat)

\* The file i of n up to, and without, the block b.
Prefix(n, i, b) == [c \in 1..Blocks |-> IF c < b THEN <<n, i>> ELSE Unwritten]

Pulls == ApiPulls \cup CliPulls

ASSUME StoreAssumption ==
    /\ \A m, n \in Names : m # n => Dir[m] # Dir[n] /\ Dir[m] # n
    /\ Blocks \in Nat \ {0}
    /\ ApiPulls \cap CliPulls = {}
    /\ {NoSource, None} \cap Ids = {}
    /\ Siblings \in [Names -> Seq(Kinds)]
    /\ None \notin [1..Blocks -> Contents]

VARIABLES
    file,       \* the blocks of model.litertlm in each directory, or None
    models,     \* the source of the row of each id, or None: no such row
    modelfiles, \* the base model of each modelfile, or None
    pc,         \* where each pull is
    name,       \* the model it pulls
    last,       \* the file it fetches, or has fetched last
    at,         \* where the model.litertlm it last opened is now, None once deleted
    next,       \* the block of it that it writes next
    mine,       \* which of the repository's files that is, if nobody else has
                \* opened, deleted or moved it since, or 0
    rename      \* the rename command, or Idle

pullVars == <<pc, name, last, at, next, mine>>
vars == <<file, models, modelfiles, pullVars, rename>>

Idle == [pc |-> "idle"]

\* A rename has moved the directory, or also added the row; `row` is the row it
\* found (None without one), with `source`.
Renames ==
    [pc : {"moved", "added"}, row : Ids \cup {None},
     source : Names \cup {NoSource}, to : Names]

TypeOK ==
    /\ file \in [Dirs -> [1..Blocks -> Contents] \cup {None}]
    /\ models \in [Ids -> Names \cup {NoSource, None}]
    /\ modelfiles \in [Modelfiles -> Ids \cup {None}]
    /\ pc \in [Pulls -> {"idle", "asked", "writing", "success", "exists", "failed", "skipped"}]
    /\ name \in [Pulls -> Names \cup {None}]
    /\ last \in [Pulls -> Nat]
    /\ at \in [Pulls -> Dirs \cup {None}]
    /\ next \in [Pulls -> 1..Blocks + 1]
    /\ mine \in [Pulls -> Nat]
    /\ rename \in Renames \cup {Idle}

Init ==
    /\ file = [d \in Dirs |-> None]
    /\ models = [i \in Ids |-> None]
    /\ modelfiles = [f \in Modelfiles |-> None]
    /\ pc = [p \in Pulls |-> "idle"]
    /\ name = [p \in Pulls |-> None]
    /\ last = [p \in Pulls |-> 0]
    /\ at = [p \in Pulls |-> None]
    /\ next = [p \in Pulls |-> 1]
    /\ mine = [p \in Pulls |-> 0]
    /\ rename = Idle

-----------------------------------------------------------------------------
(* The database *)

\* The modelfiles without those on i: they go with its row.
Cascaded(i) == [f \in Modelfiles |-> IF modelfiles[f] = i THEN None ELSE modelfiles[f]]

\* add_model: INSERT OR REPLACE deletes an existing row first, modelfiles and
\* all, and keeps its source if it has one.
AddModel(i, source) ==
    /\ models' = [models EXCEPT ![i] = IF @ \in {None, NoSource} THEN source ELSE @]
    /\ modelfiles' = Cascaded(i)

\* add_modelfile: a modelfile of that name is replaced.
AddModelfile(f, base) == modelfiles' = [modelfiles EXCEPT ![f] = base]

FindBySource(n) == \E i \in Ids : models[i] = n

RemoveModel(i) ==
    /\ models' = [models EXCEPT ![i] = None]
    /\ modelfiles' = Cascaded(i)

-----------------------------------------------------------------------------
(* The routes *)

\* find_model_path
Found(n) == file[Dir[n]] # None

\* The file in directory d is unlinked: whoever has it open writes on.
Unlink(d) ==
    /\ file' = [file EXCEPT ![d] = None]
    /\ at' = [p \in Pulls |-> IF at[p] = d THEN None ELSE at[p]]
    /\ mine' = [p \in Pulls |-> IF at[p] = d THEN 0 ELSE mine[p]]
    /\ UNCHANGED <<pc, name, last, next>>

Delete(n) ==
    /\ Found(n)
    /\ Unlink(Dir[n])
    /\ RemoveModel(n)
    /\ UNCHANGED rename

\* Variant: the base is registered with itself as its source.
CreateWithSource(f, n) ==
    /\ models[n] # None \/ Found(n)
    /\ models' = [models EXCEPT ![n] = IF @ = None THEN n ELSE @]
    /\ AddModelfile(f, n)
    /\ UNCHANGED <<file, pullVars, rename>>

\* A base without a row is registered first.
Create(f, n) ==
    /\ models[n] # None \/ Found(n)
    /\ models' = [models EXCEPT ![n] = IF @ = None THEN NoSource ELSE @]
    /\ AddModelfile(f, n)
    /\ UNCHANGED <<file, pullVars, rename>>

\* The copy goes to a directory inside the one of the source, where nothing
\* looks for models.
Copy(n, copy) ==
    /\ Found(n)
    /\ AddModel(copy, NoSource)
    /\ UNCHANGED <<file, pullVars, rename>>

-----------------------------------------------------------------------------
(* Pulling, by a route or by the command line *)

\* The command line looks for a row with the source first.
PullAsks(p, n) ==
    /\ pc[p] = "idle"
    /\ pc' = [pc EXCEPT ![p] = IF p \in CliPulls /\ FindBySource(n)
                               THEN "exists" ELSE "asked"]
    /\ name' = [name EXCEPT ![p] = n]
    /\ UNCHANGED <<file, models, modelfiles, last, at, next, mine, rename>>

\* A route asked not to stream says success at once and pulls nothing.
PullSkipped(p) ==
    /\ p \in ApiPulls /\ pc[p] = "idle"
    /\ pc' = [pc EXCEPT ![p] = "skipped"]
    /\ UNCHANGED <<file, models, modelfiles, name, last, at, next, mine, rename>>

Left(p) == {i \in Files(name[p]) : i > last[p]}
IsNext(p, i) == i \in Left(p) /\ \A j \in Left(p) : i <= j

\* The next file is a .litertlm file and the server of the files answers: the
\* model.litertlm of the directory is opened and truncated.
PullOpens(p) ==
    /\ pc[p] = "asked"
    /\ \E i \in ModelFiles(name[p]) : LET d == Dir[name[p]] IN
        /\ IsNext(p, i)
        /\ last' = [last EXCEPT ![p] = i]
        /\ pc' = [pc EXCEPT ![p] = "writing"]
        /\ file' = [file EXCEPT ![d] = [b \in 1..Blocks |-> Unwritten]]
        /\ at' = [at EXCEPT ![p] = d]
        /\ next' = [next EXCEPT ![p] = 1]
        /\ mine' = [q \in Pulls |->
                      IF q = p
                      THEN IF \E o \in Pulls \ {p} : pc[o] = "writing" /\ at[o] = d
                           THEN 0 ELSE i
                      ELSE IF at[q] = d THEN 0 ELSE mine[q]]
        /\ UNCHANGED <<models, modelfiles, name, rename>>

PullWrites(p) ==
    /\ pc[p] = "writing" /\ next[p] <= Blocks
    /\ next' = [next EXCEPT ![p] = @ + 1]
    /\ file' = IF at[p] = None THEN file
               ELSE [file EXCEPT ![at[p]][next[p]] = <<name[p], last[p]>>]
    /\ UNCHANGED <<models, modelfiles, pc, name, last, at, mine, rename>>

PullCloses(p) ==
    /\ pc[p] = "writing" /\ next[p] > Blocks
    /\ pc' = [pc EXCEPT ![p] = "asked"]
    /\ UNCHANGED <<file, models, modelfiles, name, last, at, next, mine, rename>>

\* A file of another kind is fetched, under its own name.
PullsOther(p) ==
    /\ pc[p] = "asked"
    /\ \E i \in Files(name[p]) \ ModelFiles(name[p]) :
          IsNext(p, i) /\ last' = [last EXCEPT ![p] = i]
    /\ UNCHANGED <<file, models, modelfiles, pc, name, at, next, mine, rename>>

\* The pull ends, and forgets what it was doing.
Ends(p, how) ==
    /\ pc' = [pc EXCEPT ![p] = how]
    /\ last' = [last EXCEPT ![p] = 0]
    /\ at' = [at EXCEPT ![p] = None]
    /\ next' = [next EXCEPT ![p] = 1]
    /\ mine' = [mine EXCEPT ![p] = 0]
    /\ UNCHANGED name

\* All files are fetched, whatever they were; only the command line registers
\* the model.
PullSucceeds(p) ==
    /\ pc[p] = "asked" /\ Left(p) = {}
    /\ Ends(p, "success")
    /\ IF p \in CliPulls THEN AddModel(Dir[name[p]], name[p])
                         ELSE UNCHANGED <<models, modelfiles>>
    /\ UNCHANGED <<file, rename>>

\* Variant: an error ends the file, not the pull.
PullFailsOn(p) ==
    /\ pc[p] = "writing"
    /\ pc' = [pc EXCEPT ![p] = "asked"]
    /\ UNCHANGED <<file, models, modelfiles, name, last, at, next, mine, rename>>

\* No such repository, a download that breaks off, a client of the route that
\* leaves, a command interrupted: what is written stays.
PullFails(p) ==
    /\ pc[p] \in {"asked", "writing"}
    /\ Ends(p, "failed")
    /\ UNCHANGED <<file, models, modelfiles, rename>>

-----------------------------------------------------------------------------
(* The other commands *)

\* Only the file goes: its row stays, and so pull goes on finding the source.
DeleteCommand(n) ==
    /\ Found(n)
    /\ Unlink(Dir[n])
    /\ UNCHANGED <<models, modelfiles, rename>>

\* Variant: nobody looks whether there is such a row.
RowUnchecked(n) == Dir[n]

\* The row of a name: under the id of the command line, or under the name.
RowOf(n) ==
    IF models[Dir[n]] # None THEN Dir[n] ELSE IF models[n] # None THEN n ELSE None

\* Variant: whatever is at the new name is replaced.
RenameMovesOver(n, to) ==
    LET row == RowOf(n)
        Moved(d) == IF d = Dir[n] THEN Dir[to] ELSE d
    IN  /\ rename = Idle /\ Found(n) /\ n # to
        /\ file' = [file EXCEPT ![Dir[to]] = file[Dir[n]], ![Dir[n]] = None]
        /\ at' = [p \in Pulls |-> IF at[p] = None THEN None ELSE Moved(at[p])]
        /\ mine' = [p \in Pulls |-> IF at[p] = Dir[n] THEN 0 ELSE mine[p]]
        /\ rename' = [pc |-> "moved", row |-> row, to |-> to,
                      source |-> IF row = None THEN NoSource ELSE models[row]]
        /\ UNCHANGED <<models, modelfiles, pc, name, last, next>>

\* The directory is moved, with the open files in it; one that holds a model is
\* not replaced (OSError).  A name with a row and no file is renamed all the same.
RenameMoves(n, to) ==
    LET row == RowOf(n)
        Moved(d) == IF Found(n) /\ d = Dir[n] THEN Dir[to] ELSE d
    IN  /\ rename = Idle
        /\ row # None \/ Found(n)
        /\ Found(n) => n = to \/ ~Found(to)
        /\ file' = IF Found(n) /\ n # to
                   THEN [file EXCEPT ![Dir[to]] = file[Dir[n]], ![Dir[n]] = None]
                   ELSE file
        /\ at' = [p \in Pulls |-> IF at[p] = None THEN None ELSE Moved(at[p])]
        /\ mine' = [p \in Pulls |-> IF at'[p] # at[p] THEN 0 ELSE mine[p]]
        /\ rename' = [pc |-> "moved", row |-> row, to |-> to,
                      source |-> IF row = None THEN NoSource ELSE models[row]]
        /\ UNCHANGED <<models, modelfiles, pc, name, last, next>>

RenameAdds ==
    /\ rename # Idle /\ rename.pc = "moved"
    /\ AddModel(Dir[rename.to], rename.source)
    /\ rename' = [rename EXCEPT !.pc = "added"]
    /\ UNCHANGED <<file, pullVars>>

\* The row it found goes, if it is another one and still there.
RenameRemoves ==
    /\ rename # Idle /\ rename.pc = "added"
    /\ rename' = Idle
    /\ IF rename.row \notin {None, Dir[rename.to]}
       THEN RemoveModel(rename.row)
       ELSE UNCHANGED <<models, modelfiles>>
    /\ UNCHANGED <<file, pullVars>>

\* The command is interrupted.
RenameCut ==
    /\ rename # Idle
    /\ rename' = Idle
    /\ UNCHANGED <<file, models, modelfiles, pullVars>>

Next ==
    \/ \E n \in Names :
          \/ Delete(n) \/ DeleteCommand(n)
          \/ \E f \in Modelfiles : Create(f, n)
          \/ \E m \in Names : Copy(n, m) \/ RenameMoves(n, m)
          \/ \E p \in Pulls : PullAsks(p, n)
    \/ \E p \in Pulls :
          \/ PullSkipped(p) \/ PullOpens(p) \/ PullWrites(p) \/ PullCloses(p)
          \/ PullsOther(p) \/ PullSucceeds(p) \/ PullFails(p)
    \/ RenameAdds \/ RenameRemoves \/ RenameCut

Spec == Init /\ [][Next]_vars

-----------------------------------------------------------------------------
\* The directories whose model.litertlm is all of one file of a repository.
IsWhole(f) == \E n \in Names : \E i \in ModelFiles(n) : f = Prefix(n, i, Blocks + 1)
Whole == {d \in Dirs : IsWhole(file[d])}

\* When a pull that opened a model.litertlm says success, and nobody else opened,
\* deleted or moved it since, the directory of the model holds the last .litertlm
\* file of the repository, whole, whatever was there before: an earlier pull's
\* partial file, or the repository's other .litertlm files (pull.py:60-101,
\* cli.py:259-303).  Of a repository without such a file nothing is promised:
\* its pull succeeds and leaves no model.litertlm.
PulledIsWhole ==
    [][\A p \in Pulls :
          pc[p] # "success" /\ pc'[p] = "success" /\ mine[p] # 0 =>
              \E m \in ModelFiles(name[p]) :
                  /\ \A i \in ModelFiles(name[p]) : i <= m
                  /\ file[Dir[name[p]]] = Prefix(name[p], m, Blocks + 1)]_vars

\* A row names a source only if a pull of that source was completed, through
\* any renames, copies and interruptions: the source is what makes pull say that
\* the model already exists (cli.py:210-214, model_store.py:95-98).
SourceWasPulled ==
    \A i \in Ids :
        models[i] \in Names =>
            \E p \in CliPulls : pc[p] = "success" /\ name[p] = models[i]

\* No step of a rename, nor its interruption, loses a whole model file or makes
\* a second one (cli.py:400-413).
RenameKeepsModels ==
    [][rename' # rename => Cardinality(Whole') = Cardinality(Whole)]_vars
=============================================================================
