--------------------------- MODULE ModelStoreProofs ---------------------------
(***************************************************************************)
(* ModelStore, for any set of models, pulls and modelfiles.                *)
(*                                                                         *)
(* First, a row names a source only if a pull of it by the command line    *)
(* was completed.  The name of a completed pull stays, sources are copied  *)
(* from row to row by a rename only, and a rename that is under way        *)
(* carries a source that was the one of a row; the last is what makes the  *)
(* invariant inductive.                                                    *)
(*                                                                         *)
(* Second, the files: a pull that nobody disturbed finds the model.litertlm *)
(* that it opened last in its place and as long as it wrote it             *)
(* (AloneInPlace), and that is the last of the repository's .litertlm      *)
(* files it has come to (MineIsLast), so that success means a whole file;  *)
(* and a rename never makes a whole model vanish.                          *)
(***************************************************************************)
EXTENDS ModelStore, FiniteSetTheorems, TLAPS

\* A pull of source s by the command line was completed.
Pulled(s) == \E p \in CliPulls : pc[p] = "success" /\ name[p] = s

\* The rename under way carries the source of a completed pull, or none.
CarriesPulled == rename # Idle /\ rename.source \in Names => Pulled(rename.source)

SourceInv ==
    /\ pc \in [Pulls -> {"idle", "asked", "writing", "success", "exists", "failed", "skipped"}]
    /\ name \in [Pulls -> Names \cup {None}]
    /\ DOMAIN models = Ids
    /\ SourceWasPulled
    /\ CarriesPulled

\* The steps of a pull that is under way, without the last.
OtherPullStep(p) ==
    \/ PullSkipped(p) \/ PullOpens(p) \/ PullWrites(p) \/ PullCloses(p)
    \/ PullsOther(p) \/ PullFails(p)

\* What add_model leaves in the row i, if its source was pulled.
LEMMA AddedSource ==
    ASSUME DOMAIN models = Ids, SourceWasPulled, NEW i, NEW s,
           AddModel(i, s), s \in Names => Pulled(s)
    PROVE  /\ DOMAIN models' = Ids
           /\ \A j \in Ids : models'[j] \in Names => Pulled(models'[j])
  BY DEF AddModel, SourceWasPulled, Pulled

\* remove_model leaves no new source.
LEMMA RemovedSource ==
    ASSUME DOMAIN models = Ids, SourceWasPulled, NEW i, RemoveModel(i)
    PROVE  /\ DOMAIN models' = Ids
           /\ \A j \in Ids : models'[j] \in Names => Pulled(models'[j])
  BY StoreAssumption DEF RemoveModel, SourceWasPulled, Pulled, Ids

\* As long as completed pulls stay completed, and keep their names, a pulled
\* source stays pulled.
LEMMA StaysPulled ==
    ASSUME NEW s, Pulled(s),
           \A p \in Pulls : pc[p] = "success" => pc'[p] = "success" /\ name'[p] = name[p]
    PROVE  Pulled(s)'
  BY DEF Pulled, Pulls

LEMMA SourceInitially == Init => SourceInv
  BY StoreAssumption DEF Init, SourceInv, SourceWasPulled, CarriesPulled, Idle, Ids, Pulls

LEMMA SourceStep ==
    ASSUME SourceInv, [Next]_vars
    PROVE  SourceInv'
<1> USE DEF SourceInv
<1>1. \A m \in Names : m \notin {None, NoSource}
  BY StoreAssumption DEF Ids
<1>2. ASSUME UNCHANGED <<pc, name>>, UNCHANGED rename,
             DOMAIN models' = Ids,
             \A j \in Ids : models'[j] \in Names => Pulled(models'[j])
      PROVE  SourceInv'
  BY <1>2 DEF SourceWasPulled, CarriesPulled, Pulled
<1>3. ASSUME pc' \in [Pulls -> {"idle", "asked", "writing", "success", "exists", "failed", "skipped"}],
             name' \in [Pulls -> Names \cup {None}],
             \A p \in Pulls : pc[p] = "success" => pc'[p] = "success" /\ name'[p] = name[p],
             UNCHANGED <<models, rename>>
      PROVE  SourceInv'
  BY <1>3, StaysPulled DEF SourceWasPulled, CarriesPulled, Pulled, Pulls
<1>4. ASSUME NEW n \in Names, Delete(n) PROVE SourceInv'
  <2>1. RemoveModel(n) /\ UNCHANGED <<pc, name, rename>>
    BY <1>4 DEF Delete, Unlink
  <2> QED
    BY <1>2, <2>1, RemovedSource
<1>5. ASSUME NEW n \in Names, DeleteCommand(n) PROVE SourceInv'
  BY <1>2, <1>5 DEF DeleteCommand, Unlink, SourceWasPulled, Pulled
<1>6. ASSUME NEW f \in Modelfiles, NEW n \in Names, Create(f, n) PROVE SourceInv'
  <2>1. \A j \in Ids : models'[j] \in {models[j], NoSource}
    BY <1>6 DEF Create
  <2>2. DOMAIN models' = Ids /\ UNCHANGED <<pc, name, rename>>
    BY <1>6 DEF Create, pullVars
  <2> QED
    BY <1>1, <1>2, <2>1, <2>2 DEF SourceWasPulled, Pulled
<1>7. ASSUME NEW n \in Names, NEW m \in Names, Copy(n, m) PROVE SourceInv'
  <2>1. AddModel(m, NoSource) /\ UNCHANGED <<pc, name, rename>>
    BY <1>7 DEF Copy, pullVars
  <2> QED
    BY <1>1, <1>2, <2>1, AddedSource
<1>8. ASSUME NEW n \in Names, NEW m \in Names, RenameMoves(n, m) PROVE SourceInv'
  <2>1. UNCHANGED <<models, pc, name>>
    BY <1>8 DEF RenameMoves
  <2>2. rename'.source \in Names => Pulled(rename'.source)
    <3>1. rename'.source = IF RowOf(n) = None THEN NoSource ELSE models[RowOf(n)]
      BY <1>8 DEF RenameMoves
    <3>2. RowOf(n) \in Ids \cup {None}
      BY DEF RowOf, Ids, Dirs
    <3> QED
      BY <1>1, <3>1, <3>2 DEF SourceWasPulled, Pulled
  <2> QED
    BY <2>1, <2>2 DEF SourceWasPulled, CarriesPulled, Pulled
<1>9. ASSUME RenameAdds PROVE SourceInv'
  <2>1. /\ AddModel(Dir[rename.to], rename.source) /\ rename # Idle
        /\ UNCHANGED <<pc, name>>
    BY <1>9 DEF RenameAdds, pullVars
  <2>2. /\ DOMAIN models' = Ids
        /\ \A j \in Ids : models'[j] \in Names => Pulled(models'[j])
    BY <2>1, AddedSource DEF CarriesPulled
  <2>3. rename'.source = rename.source
    BY <1>9 DEF RenameAdds
  <2> QED
    BY <2>1, <2>2, <2>3 DEF SourceWasPulled, CarriesPulled, Pulled
<1>10. ASSUME RenameRemoves PROVE SourceInv'
  <2>1. UNCHANGED <<pc, name>> /\ rename' = Idle
    BY <1>10 DEF RenameRemoves, pullVars
  <2>2. /\ DOMAIN models' = Ids
        /\ \A j \in Ids : models'[j] \in Names => Pulled(models'[j])
    BY <1>10, RemovedSource DEF RenameRemoves, SourceWasPulled, Pulled
  <2> QED
    BY <2>1, <2>2 DEF SourceWasPulled, CarriesPulled, Pulled
<1>11. ASSUME RenameCut PROVE SourceInv'
  BY <1>11 DEF RenameCut, pullVars, SourceWasPulled, CarriesPulled, Pulled
<1>12. ASSUME NEW p \in Pulls, NEW n \in Names, PullAsks(p, n) PROVE SourceInv'
  <2>1. pc[p] # "success" /\ UNCHANGED <<models, rename>>
    BY <1>12 DEF PullAsks
  <2>2. /\ pc' \in [Pulls -> {"idle", "asked", "writing", "success", "exists", "failed", "skipped"}]
        /\ name' \in [Pulls -> Names \cup {None}]
        /\ \A q \in Pulls : q # p => pc'[q] = pc[q] /\ name'[q] = name[q]
    BY <1>12 DEF PullAsks
  <2> QED
    BY <1>3, <2>1, <2>2
<1>13. ASSUME NEW p \in Pulls, OtherPullStep(p)
       PROVE  SourceInv'
  <2>1. UNCHANGED <<models, name, rename>>
    BY <1>13 DEF OtherPullStep, PullSkipped, PullOpens, PullWrites, PullCloses, PullsOther, PullFails, Ends
  <2>2. /\ pc' \in [Pulls -> {"idle", "asked", "writing", "success", "exists", "failed", "skipped"}]
        /\ \A q \in Pulls : pc[q] = "success" => pc'[q] = "success"
    BY <1>13 DEF OtherPullStep, PullSkipped, PullOpens, PullWrites, PullCloses, PullsOther, PullFails, Ends
  <2> QED
    BY <1>3, <2>1, <2>2
<1>14. ASSUME NEW p \in Pulls, PullSucceeds(p) PROVE SourceInv'
  <2>1. /\ pc' = [pc EXCEPT ![p] = "success"] /\ UNCHANGED <<name, rename>>
        /\ pc[p] # "success"
    BY <1>14 DEF PullSucceeds, Ends
  <2>2. \A q \in CliPulls : pc[q] = "success" => pc'[q] = "success" /\ name'[q] = name[q]
    BY <2>1 DEF Pulls
  <2>3. ASSUME p \in CliPulls PROVE SourceInv'
    <3>1. models' = [models EXCEPT ![Dir[name[p]]] =
                        IF @ \in {None, NoSource} THEN name[p] ELSE @]
      BY <1>14, <2>3 DEF PullSucceeds, AddModel
    <3>2. DOMAIN models' = Ids /\ \A j \in Ids : models'[j] \in {models[j], name[p]}
      BY <3>1
    <3>3. pc'[p] = "success" /\ name'[p] = name[p]
      BY <2>1
    <3> QED
      BY <2>1, <2>2, <2>3, <3>2, <3>3 DEF SourceWasPulled, CarriesPulled, Pulled
  <2>4. ASSUME p \notin CliPulls PROVE SourceInv'
    <3>1. UNCHANGED models
      BY <1>14, <2>4 DEF PullSucceeds
    <3> QED
      BY <2>1, <2>2, <3>1 DEF SourceWasPulled, CarriesPulled, Pulled
  <2> QED
    BY <2>3, <2>4
<1>15. CASE UNCHANGED vars
  BY <1>15 DEF vars, pullVars, SourceWasPulled, CarriesPulled, Pulled
<1> QED
  BY <1>4, <1>5, <1>6, <1>7, <1>8, <1>9, <1>10, <1>11, <1>12, <1>13, <1>14, <1>15 DEF Next, OtherPullStep

\* A row names a source only if a pull of it was completed, whatever is renamed,
\* copied, deleted or interrupted (cli.py:210-214, model_store.py:95-98).
THEOREM SourcesPulled == Spec => []SourceWasPulled
<1>1. SourceInv => SourceWasPulled
  BY DEF SourceInv
<1> QED
  BY <1>1, SourceInitially, SourceStep, PTL DEF Spec

-----------------------------------------------------------------------------
(* The files.                                                              *)

\* A pull under way has a name.
Named == \A p \in Pulls : pc[p] \in {"asked", "writing"} => name[p] \in Names

\* Is a pull under way, with a model.litertlm that only it has touched?
Alone(p) == pc[p] \in {"asked", "writing"} /\ mine[p] # 0

\* That file is in its place, holds what the pull has written, and no other pull
\* has it open.
InPlace(p) ==
    /\ at[p] = Dir[name[p]]
    /\ file[at[p]] = Prefix(name[p], mine[p], next[p])
    /\ \A q \in Pulls : q # p /\ pc[q] = "writing" => at[q] # at[p]

AloneInPlace == \A p \in Pulls : Alone(p) => InPlace(p)

\* It is the last .litertlm file of the repository that the pull has come to, and
\* complete unless the pull is still writing it.
MineIsLast ==
    \A p \in Pulls :
        /\ pc[p] = "idle" => mine[p] = 0
        /\ Alone(p) =>
            /\ mine[p] \in ModelFiles(name[p])
            /\ IF pc[p] = "writing" THEN mine[p] = last[p] ELSE next[p] = Blocks + 1
            /\ \A i \in ModelFiles(name[p]) : i <= last[p] => i <= mine[p]

\* Files become whole one at a time.
FewWhole == IsFiniteSet(Whole)

\* A file that is open and not deleted is there.
OpenExists == \A p \in Pulls : at[p] # None => file[at[p]] # None

FileInv == TypeOK /\ Named /\ OpenExists /\ AloneInPlace /\ MineIsLast /\ FewWhole

LEMMA DirFacts ==
    /\ \A n \in Names : Dir[n] \in Dirs
    /\ Dirs \subseteq Ids /\ Names \subseteq Ids
    /\ None \notin Dirs /\ None \notin Names /\ None \notin Ids
    /\ \A m, n \in Names : m # n => Dir[m] # Dir[n]
    /\ Blocks \in Nat
  BY StoreAssumption DEF Dirs, Ids

\* The places of files are positive.
LEMMA FileFacts ==
    ASSUME NEW n \in Names
    PROVE  ModelFiles(n) \subseteq Files(n) /\ Files(n) \subseteq Nat \ {0}
<1>1. Siblings[n] \in Seq(Kinds)
  BY StoreAssumption
<1>2. DOMAIN Siblings[n] \subseteq Nat \ {0}
  BY <1>1
<1> QED
  BY <1>2 DEF Files, ModelFiles

\* What a file can hold; None is nothing of the kind.
LEMMA ContentFacts ==
    /\ [b \in 1..Blocks |-> Unwritten] \in [1..Blocks -> Contents]
    /\ \A n \in Names, i \in Nat : <<n, i>> \in Contents
    /\ \A n \in Names, i \in Nat : \A b : Prefix(n, i, b) \in [1..Blocks -> Contents]
    /\ None \notin [1..Blocks -> Contents]
<1>1. /\ Unwritten \in Contents
      /\ \A n \in Names, i \in Nat : <<n, i>> \in Contents
  BY DEF Contents
<1>2. ASSUME NEW n \in Names, NEW i \in Nat, NEW b
      PROVE  Prefix(n, i, b) \in [1..Blocks -> Contents]
  <2>1. \A c \in 1..Blocks : (IF c < b THEN <<n, i>> ELSE Unwritten) \in Contents
    BY <1>1
  <2> HIDE DEF Contents, Unwritten
  <2> QED
    BY <2>1 DEF Prefix
<1>3. None \notin [1..Blocks -> Contents]
  BY StoreAssumption
<1> QED
  BY <1>1, <1>2, <1>3

\* The rows of models after an insertion or a removal.
LEMMA RowTypes ==
    ASSUME TypeOK, NEW i \in Ids, NEW s \in Names \cup {NoSource},
           AddModel(i, s) \/ RemoveModel(i)
    PROVE  /\ models' \in [Ids -> Names \cup {NoSource, None}]
           /\ modelfiles' \in [Modelfiles -> Ids \cup {None}]
  BY DEF TypeOK, AddModel, RemoveModel, Cascaded

LEMMA RenameMovesType ==
    ASSUME TypeOK, NEW n \in Names, NEW to \in Names, RenameMoves(n, to)
    PROVE  TypeOK'
<1>1. file' \in [Dirs -> [1..Blocks -> Contents] \cup {None}]
  <2> DEFINE S == [1..Blocks -> Contents] \cup {None}
  <2>1. file \in [Dirs -> S] /\ Dir[n] \in Dirs /\ Dir[to] \in Dirs /\ None \in S
    BY DirFacts DEF TypeOK
  <2>2. \/ file' = file
        \/ file' = [file EXCEPT ![Dir[to]] = file[Dir[n]], ![Dir[n]] = None]
    BY DEF RenameMoves
  <2> HIDE DEF S
  <2>3. file' \in [Dirs -> S]
    BY <2>1, <2>2
  <2> QED
    BY <2>3 DEF S
<1>2. at' \in [Pulls -> Dirs \cup {None}]
  BY DirFacts DEF TypeOK, RenameMoves
<1>3. mine' \in [Pulls -> Nat]
  BY DEF RenameMoves, TypeOK
<1>4. rename' \in Renames
  <2> DEFINE row == RowOf(n)
             source == IF row = None THEN NoSource ELSE models[row]
  <2>1. row \in Ids \cup {None} /\ (row # None => models[row] # None)
    BY DirFacts DEF RowOf
  <2>2. source \in Names \cup {NoSource}
    BY <2>1 DEF TypeOK
  <2>3. rename' = [pc |-> "moved", row |-> row, to |-> to, source |-> source]
    BY DEF RenameMoves
  <2> HIDE DEF row, source
  <2> QED
    BY <2>1, <2>2, <2>3 DEF Renames
<1> QED
  BY <1>1, <1>2, <1>3, <1>4 DEF TypeOK, RenameMoves

\* What opening a model.litertlm does.
Opens(p, i) ==
    LET d == Dir[name[p]]
    IN  /\ i \in ModelFiles(name[p]) /\ i \in Nat \ {0}
        /\ pc[p] = "asked" /\ d \in Dirs
        /\ pc' = [pc EXCEPT ![p] = "writing"]
        /\ last' = [last EXCEPT ![p] = i]
        /\ file' = [file EXCEPT ![d] = [b \in 1..Blocks |-> Unwritten]]
        /\ at' = [at EXCEPT ![p] = d]
        /\ next' = [next EXCEPT ![p] = 1]
        /\ mine' \in [Pulls -> Nat]
        /\ mine'[p] \in {0, i}
        /\ mine'[p] # 0 => \A o \in Pulls : o # p /\ pc[o] = "writing" => at[o] # d
        /\ \A q \in Pulls : q # p => mine'[q] = IF at[q] = d THEN 0 ELSE mine[q]
        /\ UNCHANGED <<models, modelfiles, name, rename>>

LEMMA OpensEffect ==
    ASSUME TypeOK, Named, NEW p \in Pulls, PullOpens(p)
    PROVE  \E i \in ModelFiles(name[p]) : Opens(p, i)
<1> DEFINE d == Dir[name[p]]
<1>1. name[p] \in Names /\ d \in Dirs
  BY DirFacts DEF PullOpens, Named
<1>2. PICK i \in ModelFiles(name[p]) :
        /\ pc[p] = "asked"
        /\ pc' = [pc EXCEPT ![p] = "writing"]
        /\ last' = [last EXCEPT ![p] = i]
        /\ file' = [file EXCEPT ![d] = [b \in 1..Blocks |-> Unwritten]]
        /\ at' = [at EXCEPT ![p] = d]
        /\ next' = [next EXCEPT ![p] = 1]
        /\ mine' = [q \in Pulls |->
                      IF q = p
                      THEN IF \E o \in Pulls \ {p} : pc[o] = "writing" /\ at[o] = d
                           THEN 0 ELSE i
                      ELSE IF at[q] = d THEN 0 ELSE mine[q]]
        /\ UNCHANGED <<models, modelfiles, name, rename>>
  BY DEF PullOpens
<1> HIDE DEF d
<1>3. i \in Nat \ {0}
  BY <1>1, FileFacts
<1>4. mine' \in [Pulls -> Nat]
  BY <1>2, <1>3 DEF TypeOK
<1>5. mine'[p] \in {0, i}
  BY <1>2
<1>6. mine'[p] # 0 => \A o \in Pulls : o # p /\ pc[o] = "writing" => at[o] # d
  BY <1>2
<1>7. \A q \in Pulls : q # p => mine'[q] = IF at[q] = d THEN 0 ELSE mine[q]
  BY <1>2
<1> QED
  BY <1>1, <1>2, <1>3, <1>4, <1>5, <1>6, <1>7 DEF Opens, d

LEMMA StoreType ==
    ASSUME TypeOK, Named, OpenExists, [Next]_vars
    PROVE  TypeOK'
<1>1. ASSUME NEW d, Unlink(d)
      PROVE  /\ file' \in [Dirs -> [1..Blocks -> Contents] \cup {None}]
             /\ at' \in [Pulls -> Dirs \cup {None}] /\ mine' \in [Pulls -> Nat]
  <2>1. file' \in [Dirs -> [1..Blocks -> Contents] \cup {None}]
    BY <1>1 DEF Unlink, TypeOK
  <2>2. at' \in [Pulls -> Dirs \cup {None}]
    BY <1>1 DEF Unlink, TypeOK
  <2>3. mine' \in [Pulls -> Nat]
    BY <1>1 DEF Unlink, TypeOK
  <2> QED
    BY <2>1, <2>2, <2>3
<1>2. ASSUME NEW n \in Names, Delete(n) \/ DeleteCommand(n) PROVE TypeOK'
  <2>1. Unlink(Dir[n]) /\ UNCHANGED rename /\ (RemoveModel(n) \/ UNCHANGED <<models, modelfiles>>)
    BY <1>2 DEF Delete, DeleteCommand
  <2>2. /\ models' \in [Ids -> Names \cup {NoSource, None}]
        /\ modelfiles' \in [Modelfiles -> Ids \cup {None}]
    BY <2>1, RowTypes, DirFacts DEF TypeOK
  <2>3. /\ file' \in [Dirs -> [1..Blocks -> Contents] \cup {None}]
        /\ at' \in [Pulls -> Dirs \cup {None}] /\ mine' \in [Pulls -> Nat]
    BY <1>1, <2>1
  <2>4. UNCHANGED <<pc, name, last, next, rename>>
    BY <2>1 DEF Unlink
  <2> QED
    BY <2>2, <2>3, <2>4 DEF TypeOK
<1>3. ASSUME NEW f \in Modelfiles, NEW n \in Names, Create(f, n) PROVE TypeOK'
  BY <1>3, DirFacts DEF Create, AddModelfile, TypeOK, pullVars
<1>4. ASSUME NEW n \in Names, NEW m \in Names, Copy(n, m) PROVE TypeOK'
  BY <1>4, RowTypes, DirFacts DEF Copy, TypeOK, pullVars
<1>5. ASSUME NEW p \in Pulls, NEW n \in Names, PullAsks(p, n) PROVE TypeOK'
  BY <1>5 DEF PullAsks, TypeOK
<1>6. ASSUME NEW p \in Pulls, PullSkipped(p) \/ PullCloses(p) \/ PullFails(p) PROVE TypeOK'
  <2>1. 1 \in 1..Blocks + 1
    BY DirFacts
  <2> QED
    <3>1. CASE PullSkipped(p)
      BY <3>1 DEF PullSkipped, TypeOK
    <3>2. CASE PullCloses(p)
      BY <3>2 DEF PullCloses, TypeOK
    <3>3. CASE PullFails(p)
      BY <2>1, <3>3 DEF PullFails, Ends, TypeOK
    <3> QED
      BY <1>6, <3>1, <3>2, <3>3
<1>7. ASSUME NEW p \in Pulls, PullOpens(p) PROVE TypeOK'
  <2>1. PICK i \in ModelFiles(name[p]) : Opens(p, i)
    BY <1>7, OpensEffect
  <2>2. 1 \in 1..Blocks + 1
    BY DirFacts
  <2>3. file' \in [Dirs -> [1..Blocks -> Contents] \cup {None}]
    BY <2>1, ContentFacts DEF Opens, TypeOK
  <2> QED
    BY <2>1, <2>2, <2>3 DEF Opens, TypeOK
<1>14. ASSUME NEW p \in Pulls, PullsOther(p) PROVE TypeOK'
  <2>1. PICK i \in Files(name[p]) : last' = [last EXCEPT ![p] = i]
    BY <1>14 DEF PullsOther
  <2>2. i \in Nat
    BY <1>14, <2>1, FileFacts DEF PullsOther, Named
  <2> QED
    BY <1>14, <2>1, <2>2 DEF PullsOther, TypeOK
<1>8. ASSUME NEW p \in Pulls, PullWrites(p) PROVE TypeOK'
  <2>1. /\ next[p] \in 1..Blocks /\ next' \in [Pulls -> 1..Blocks + 1]
        /\ <<name[p], last[p]>> \in Contents
    BY <1>8, DirFacts, ContentFacts DEF PullWrites, TypeOK, Named
  <2>2. CASE at[p] = None
    BY <1>8, <2>1, <2>2 DEF PullWrites, TypeOK
  <2>3. CASE at[p] # None
    <3>1. at[p] \in Dirs /\ file[at[p]] \in [1..Blocks -> Contents]
      BY <2>3 DEF TypeOK, OpenExists
    <3>2. file' \in [Dirs -> [1..Blocks -> Contents] \cup {None}]
      BY <1>8, <2>1, <2>3, <3>1 DEF PullWrites, TypeOK
    <3> QED
      BY <1>8, <2>1, <3>2 DEF PullWrites, TypeOK
  <2> QED
    BY <2>2, <2>3
<1>9. ASSUME NEW p \in Pulls, PullSucceeds(p) PROVE TypeOK'
  <2>1. name[p] \in Names /\ Dir[name[p]] \in Ids /\ 1 \in 1..Blocks + 1
    BY <1>9, DirFacts DEF PullSucceeds, Named
  <2>2. /\ models' \in [Ids -> Names \cup {NoSource, None}]
        /\ modelfiles' \in [Modelfiles -> Ids \cup {None}]
    BY <1>9, <2>1, RowTypes DEF PullSucceeds, TypeOK
  <2> QED
    BY <1>9, <2>1, <2>2 DEF PullSucceeds, Ends, TypeOK
<1>10. ASSUME RenameAdds PROVE TypeOK'
  <2>1. rename \in Renames /\ rename.source \in Names \cup {NoSource} /\ Dir[rename.to] \in Ids
    BY <1>10, DirFacts DEF RenameAdds, TypeOK, Renames
  <2>2. /\ models' \in [Ids -> Names \cup {NoSource, None}]
        /\ modelfiles' \in [Modelfiles -> Ids \cup {None}]
    BY <1>10, <2>1, RowTypes DEF RenameAdds
  <2>3. rename' \in Renames
    BY <1>10, <2>1 DEF RenameAdds, Renames
  <2> QED
    BY <1>10, <2>2, <2>3 DEF RenameAdds, TypeOK, pullVars
<1>11. ASSUME RenameRemoves PROVE TypeOK'
  <2>1. rename \in Renames /\ rename.row \in Ids \cup {None}
    BY <1>11 DEF RenameRemoves, TypeOK, Renames
  <2>2. /\ models' \in [Ids -> Names \cup {NoSource, None}]
        /\ modelfiles' \in [Modelfiles -> Ids \cup {None}]
    BY <1>11, <2>1, RowTypes DEF RenameRemoves, TypeOK
  <2> QED
    BY <1>11, <2>2 DEF RenameRemoves, TypeOK, pullVars
<1>12. CASE RenameCut
  BY <1>12 DEF RenameCut, TypeOK, pullVars
<1>13. CASE UNCHANGED vars
  BY <1>13 DEF vars, TypeOK, pullVars
<1> QED
  BY <1>2, <1>3, <1>4, <1>5, <1>6, <1>7, <1>8, <1>9, <1>10, <1>11, <1>12, <1>13, <1>14, RenameMovesType
     DEF Next

LEMMA KeepsNamed ==
    ASSUME TypeOK, Named, [Next]_vars
    PROVE  Named'
<1>1. ASSUME NEW p \in Pulls, NEW n \in Names, PullAsks(p, n) PROVE Named'
  BY <1>1 DEF PullAsks, Named, TypeOK
<1>2. ASSUME NEW p \in Pulls, OtherPullStep(p) \/ PullSucceeds(p) PROVE Named'
  <2>1. UNCHANGED name /\ \A q \in Pulls : pc'[q] \in {"asked", "writing"} => pc[q] \in {"asked", "writing"}
    BY <1>2 DEF OtherPullStep, PullSkipped, PullOpens, PullWrites, PullCloses, PullsOther,
                PullSucceeds, PullFails, Ends, TypeOK
  <2> QED
    BY <2>1 DEF Named
<1>3. ASSUME UNCHANGED <<pc, name>> PROVE Named'
  BY <1>3 DEF Named
<1> QED
  BY <1>1, <1>2, <1>3
     DEF Next, OtherPullStep, Delete, DeleteCommand, Unlink, Create, Copy, RenameMoves,
         RenameAdds, RenameRemoves, RenameCut, vars, pullVars

\* A rename moves the directory of n, with a model in it, to that of another
\* name, without one; or it moves nothing.
Moves(n, to) ==
    /\ n # to /\ Found(n) /\ ~Found(to)
    /\ file' = [file EXCEPT ![Dir[to]] = file[Dir[n]], ![Dir[n]] = None]
    /\ \A p \in Pulls :
          /\ at'[p] = IF at[p] = Dir[n] THEN Dir[to] ELSE at[p]
          /\ mine'[p] = IF at[p] = Dir[n] THEN 0 ELSE mine[p]

LEMMA RenameMovesEffect ==
    ASSUME TypeOK, NEW n \in Names, NEW to \in Names, RenameMoves(n, to)
    PROVE  /\ UNCHANGED <<pc, name, last, next>>
           /\ \/ Moves(n, to)
              \/ file' = file /\ \A p \in Pulls : at'[p] = at[p] /\ mine'[p] = mine[p]
<1>1. /\ Dir[n] \in Dirs /\ None \notin Dirs
      /\ n # to => Dir[n] # Dir[to]
  BY DirFacts
<1>2. CASE Found(n) /\ n # to
  BY <1>1, <1>2 DEF RenameMoves, Moves
<1>3. CASE ~(Found(n) /\ n # to)
  BY <1>1, <1>3 DEF RenameMoves
<1> QED
  BY <1>2, <1>3 DEF RenameMoves

\* What the steps do to open files.
LEMMA KeepsOpenExists ==
    ASSUME FileInv, [Next]_vars
    PROVE  OpenExists'
<1>1. TypeOK /\ Named /\ OpenExists
  BY DEF FileInv
<1>2. ASSUME NEW d, Unlink(d) PROVE OpenExists'
  BY <1>1, <1>2 DEF Unlink, OpenExists, TypeOK
<1>3. ASSUME NEW n \in Names, NEW to \in Names, RenameMoves(n, to) PROVE OpenExists'
  <2>1. CASE Moves(n, to)
    <3>1. /\ Dir[n] \in Dirs /\ Dir[to] \in Dirs /\ Dir[n] # Dir[to]
          /\ file[Dir[n]] # None /\ file'[Dir[to]] = file[Dir[n]]
          /\ \A d \in Dirs : d \notin {Dir[n], Dir[to]} => file'[d] = file[d]
      BY <1>1, <2>1, DirFacts DEF Moves, TypeOK, Found
    <3>2. \A p \in Pulls : at'[p] = IF at[p] = Dir[n] THEN Dir[to] ELSE at[p]
      BY <2>1 DEF Moves
    <3>3. \A p \in Pulls : at[p] \in Dirs \cup {None} /\ (at[p] # None => file[at[p]] # None)
      BY <1>1 DEF TypeOK, OpenExists
    <3> QED
      BY <3>1, <3>2, <3>3 DEF OpenExists
  <2>2. CASE file' = file /\ \A p \in Pulls : at'[p] = at[p]
    BY <1>1, <2>2 DEF OpenExists
  <2> QED
    BY <1>1, <1>3, <2>1, <2>2, RenameMovesEffect
<1>4. ASSUME NEW p \in Pulls, PullOpens(p) PROVE OpenExists'
  <2>1. PICK i \in ModelFiles(name[p]) : Opens(p, i)
    BY <1>1, <1>4, OpensEffect
  <2>2. [b \in 1..Blocks |-> Unwritten] # None
    BY ContentFacts
  <2> QED
    BY <1>1, <2>1, <2>2 DEF Opens, OpenExists, TypeOK
<1>5. ASSUME NEW p \in Pulls, PullWrites(p) PROVE OpenExists'
  <2>1. CASE at[p] = None
    BY <1>1, <1>5, <2>1 DEF PullWrites, OpenExists
  <2>2. CASE at[p] # None
    <3>1. /\ at' = at /\ at[p] \in Dirs
          /\ \A d \in Dirs : d # at[p] => file'[d] = file[d]
      BY <1>1, <1>5, <2>2 DEF PullWrites, TypeOK
    <3>2. file'[at[p]] # None
      <4>1. file[at[p]] \in [1..Blocks -> Contents] /\ <<name[p], last[p]>> \in Contents
        BY <1>1, <1>5, <2>2, ContentFacts DEF PullWrites, TypeOK, OpenExists, Named
      <4>2. file'[at[p]] = [file[at[p]] EXCEPT ![next[p]] = <<name[p], last[p]>>]
        BY <1>1, <1>5, <2>2, <3>1 DEF PullWrites, TypeOK
      <4>3. file'[at[p]] \in [1..Blocks -> Contents]
        BY <4>1, <4>2
      <4> QED
        BY <4>3, ContentFacts
    <3> QED
      BY <1>1, <3>1, <3>2 DEF OpenExists, TypeOK
  <2> QED
    BY <2>1, <2>2
<1>6. ASSUME NEW p \in Pulls, PullSucceeds(p) \/ PullFails(p) PROVE OpenExists'
  BY <1>1, <1>6 DEF PullSucceeds, PullFails, Ends, OpenExists, TypeOK
<1>7. ASSUME UNCHANGED <<file, at>> PROVE OpenExists'
  BY <1>1, <1>7 DEF OpenExists
<1> QED
  BY <1>2, <1>3, <1>4, <1>5, <1>6, <1>7
     DEF Next, Delete, DeleteCommand, Create, Copy, RenameAdds, RenameRemoves, RenameCut,
         PullAsks, PullSkipped, PullCloses, PullsOther, vars, pullVars

\* A pull that is alone keeps its file in place, unless the step is about it.
LEMMA StaysInPlace ==
    ASSUME FileInv, NEW p \in Pulls, Alone(p),
           name'[p] = name[p], mine'[p] = mine[p], next'[p] = next[p], at'[p] = at[p],
           file'[at[p]] = file[at[p]],
           \A q \in Pulls : q # p /\ pc'[q] = "writing" =>
               pc[q] = "writing" /\ (at'[q] = at[q] \/ at'[q] # at[p])
    PROVE  InPlace(p)'
  BY DEF FileInv, AloneInPlace, InPlace

LEMMA KeepsAloneInPlace ==
    ASSUME FileInv, [Next]_vars
    PROVE  AloneInPlace'
<1>1. TypeOK /\ Named /\ OpenExists /\ AloneInPlace /\ MineIsLast
  BY DEF FileInv
<1> SUFFICES ASSUME NEW p \in Pulls, Alone(p)' PROVE InPlace(p)'
  BY DEF AloneInPlace
<1>2. ASSUME Alone(p)
      PROVE  /\ name[p] \in Names /\ at[p] = Dir[name[p]] /\ at[p] \in Dirs /\ at[p] # None
             /\ mine[p] # 0 /\ pc[p] \in {"asked", "writing"}
             /\ file[at[p]] = Prefix(name[p], mine[p], next[p])
             /\ \A q \in Pulls : q # p /\ pc[q] = "writing" => at[q] # at[p]
  <2>1. InPlace(p) /\ name[p] \in Names
    BY <1>1, <1>2 DEF AloneInPlace, Named, Alone
  <2> QED
    BY <1>2, <2>1, DirFacts DEF InPlace, Alone
<1>3. ASSUME NEW n \in Names, Unlink(Dir[n]) PROVE InPlace(p)'
  <2>1. /\ Alone(p) /\ at[p] # Dir[n] /\ mine'[p] = mine[p] /\ at'[p] = at[p]
        /\ UNCHANGED <<pc, name, next>>
    BY <1>3 DEF Unlink, Alone
  <2>2. file'[at[p]] = file[at[p]]
    BY <1>1, <1>2, <1>3, <2>1 DEF Unlink, TypeOK
  <2>3. \A q \in Pulls : at'[q] = at[q] \/ at'[q] # at[p]
    BY <1>2, <1>3, <2>1 DEF Unlink
  <2> QED
    BY <2>1, <2>2, <2>3, StaysInPlace
<1>4. ASSUME NEW n \in Names, NEW to \in Names, RenameMoves(n, to) PROVE InPlace(p)'
  <2>1. UNCHANGED <<pc, name, next>>
    BY <1>4 DEF RenameMoves
  <2>2. CASE Moves(n, to)
    <3>1. Alone(p) /\ at[p] # Dir[n] /\ at'[p] = at[p] /\ mine'[p] = mine[p]
      BY <2>1, <2>2 DEF Moves, Alone
    <3>2. at[p] # Dir[to]
      BY <1>1, <1>2, <2>2, <3>1 DEF OpenExists, Moves, Found
    <3>3. file'[at[p]] = file[at[p]]
      BY <1>1, <1>2, <2>2, <3>1, <3>2 DEF Moves, TypeOK
    <3>4. \A q \in Pulls : at'[q] = at[q] \/ at'[q] # at[p]
      BY <2>2, <3>2 DEF Moves
    <3> QED
      BY <2>1, <3>1, <3>3, <3>4, StaysInPlace
  <2>3. CASE file' = file /\ \A q \in Pulls : at'[q] = at[q] /\ mine'[q] = mine[q]
    <3>1. Alone(p)
      BY <2>1, <2>3 DEF Alone
    <3> QED
      BY <2>1, <2>3, <3>1, StaysInPlace
  <2> QED
    BY <1>1, <1>4, <2>2, <2>3, RenameMovesEffect
<1>5. ASSUME NEW q \in Pulls, PullOpens(q) PROVE InPlace(p)'
  <2> DEFINE d == Dir[name[q]]
  <2>1. PICK i \in ModelFiles(name[q]) : Opens(q, i)
    BY <1>1, <1>5, OpensEffect
  <2>2. CASE q = p
    <3>1. /\ d \in Dirs /\ mine'[p] = i /\ i \in Nat /\ at'[p] = d /\ next'[p] = 1 /\ name' = name
          /\ file'[d] = [b \in 1..Blocks |-> Unwritten]
          /\ \A o \in Pulls : o # p /\ pc[o] = "writing" => at[o] # d
          /\ \A o \in Pulls : o # p => pc'[o] = pc[o] /\ at'[o] = at[o]
      BY <1>1, <2>1, <2>2 DEF Opens, TypeOK, Alone
    <3>2. Prefix(name[p], i, 1) = [b \in 1..Blocks |-> Unwritten]
      BY DEF Prefix
    <3> QED
      BY <2>2, <3>1, <3>2 DEF InPlace
  <2>3. CASE q # p
    <3>1. /\ Alone(p) /\ at[p] # d /\ mine'[p] = mine[p] /\ at'[p] = at[p]
          /\ name'[p] = name[p] /\ next'[p] = next[p]
      BY <1>1, <2>1, <2>3 DEF Opens, TypeOK, Alone
    <3>2. file'[at[p]] = file[at[p]]
      BY <1>1, <1>2, <2>1, <3>1 DEF Opens, TypeOK
    <3>3. \A o \in Pulls : o # p /\ o # q => pc'[o] = pc[o] /\ at'[o] = at[o]
      BY <1>1, <2>1 DEF Opens, TypeOK
    <3>4. at'[q] # at[p]
      BY <1>1, <2>1, <3>1 DEF Opens, TypeOK
    <3> QED
      BY <1>2, <3>1, <3>2, <3>3, <3>4 DEF InPlace
  <2> QED
    BY <2>2, <2>3
<1>6. ASSUME NEW q \in Pulls, PullWrites(q) PROVE InPlace(p)'
  <2>1. /\ pc[q] = "writing" /\ UNCHANGED <<pc, name, last, at, mine>> /\ Alone(p)
        /\ next' = [next EXCEPT ![q] = @ + 1] /\ next[q] \in 1..Blocks
    BY <1>1, <1>6, DirFacts DEF PullWrites, TypeOK, Alone
  <2>2. CASE q = p
    <3>1. mine[p] = last[p] /\ next'[p] = next[p] + 1
      BY <1>1, <2>1, <2>2 DEF MineIsLast, TypeOK
    <3>2. file'[at[p]] = [Prefix(name[p], mine[p], next[p]) EXCEPT ![next[p]] = <<name[p], mine[p]>>]
      BY <1>1, <1>2, <1>6, <2>1, <2>2, <3>1 DEF PullWrites, TypeOK
    <3>3. [Prefix(name[p], mine[p], next[p]) EXCEPT ![next[p]] = <<name[p], mine[p]>>]
             = Prefix(name[p], mine[p], next[p] + 1)
      <4> DEFINE N == next[p]
                 X == <<name[p], mine[p]>>
      <4>1. N \in Nat
        BY <2>1, <2>2
      <4> HIDE DEF N, X
      <4>2. \A c \in 1..Blocks :
               (IF c = N THEN X ELSE IF c < N THEN X ELSE Unwritten)
                  = (IF c < N + 1 THEN X ELSE Unwritten)
        BY <4>1
      <4>3. [[c \in 1..Blocks |-> IF c < N THEN X ELSE Unwritten] EXCEPT ![N] = X]
               = [c \in 1..Blocks |-> IF c < N + 1 THEN X ELSE Unwritten]
        BY <4>2
      <4> QED
        BY <4>3 DEF Prefix, N, X
    <3> QED
      BY <1>2, <2>1, <3>1, <3>2, <3>3 DEF InPlace
  <2>3. CASE q # p
    <3>1. at[q] # at[p] /\ next'[p] = next[p]
      BY <1>1, <1>2, <2>1, <2>3 DEF TypeOK
    <3>2. file'[at[p]] = file[at[p]]
      BY <1>1, <1>2, <1>6, <2>1, <3>1 DEF PullWrites, TypeOK
    <3> QED
      BY <2>1, <3>1, <3>2, StaysInPlace
  <2> QED
    BY <2>2, <2>3
<1>7. ASSUME NEW q \in Pulls, NEW n \in Names, PullAsks(q, n) PROVE InPlace(p)'
  <2>1. pc[q] = "idle" /\ UNCHANGED <<file, at, next, mine>>
    BY <1>7 DEF PullAsks
  <2>2. q # p
    BY <1>1, <2>1 DEF MineIsLast, Alone
  <2>3. Alone(p) /\ name'[p] = name[p] /\ \A o \in Pulls : pc'[o] = "writing" => pc[o] = "writing"
    BY <1>1, <1>7, <2>2 DEF PullAsks, TypeOK, Alone
  <2> QED
    BY <2>1, <2>3, StaysInPlace
<1>8. ASSUME NEW q \in Pulls,
             \/ PullSkipped(q) \/ PullCloses(q) \/ PullsOther(q)
             \/ PullSucceeds(q) \/ PullFails(q)
      PROVE  InPlace(p)'
  <2>1. /\ UNCHANGED <<file, name>> /\ Alone(p)
        /\ mine'[p] = mine[p] /\ at'[p] = at[p] /\ next'[p] = next[p]
        /\ \A o \in Pulls : pc'[o] = "writing" => pc[o] = "writing" /\ at'[o] = at[o]
    BY <1>1, <1>8
       DEF PullSkipped, PullCloses, PullsOther, PullSucceeds, PullFails, Ends, TypeOK, Alone
  <2> QED
    BY <2>1, StaysInPlace
<1>9. ASSUME UNCHANGED <<file, pullVars>> PROVE InPlace(p)'
  <2>1. Alone(p) /\ UNCHANGED <<file, pc, name, at, next, mine>>
    BY <1>9 DEF pullVars, Alone
  <2> QED
    BY <2>1, StaysInPlace
<1> QED
  BY <1>3, <1>4, <1>5, <1>6, <1>7, <1>8, <1>9
     DEF Next, Delete, DeleteCommand, Create, Copy, RenameAdds, RenameRemoves, RenameCut, vars

\* The file of a pull that is alone is the last that it has come to.
LEMMA KeepsMineIsLast ==
    ASSUME FileInv, [Next]_vars
    PROVE  MineIsLast'
<1>1. TypeOK /\ Named /\ MineIsLast
  BY DEF FileInv
<1> DEFINE M(p) == /\ pc[p] = "idle" => mine[p] = 0
                   /\ Alone(p) =>
                       /\ mine[p] \in ModelFiles(name[p])
                       /\ IF pc[p] = "writing" THEN mine[p] = last[p] ELSE next[p] = Blocks + 1
                       /\ \A i \in ModelFiles(name[p]) : i <= last[p] => i <= mine[p]
<1> SUFFICES ASSUME NEW p \in Pulls PROVE M(p)'
  BY DEF MineIsLast
<1>2. M(p)
  BY <1>1 DEF MineIsLast
<1>3. ASSUME pc'[p] = pc[p], name'[p] = name[p], last'[p] = last[p], next'[p] = next[p],
             mine'[p] \in {0, mine[p]}
      PROVE  M(p)'
  BY <1>2, <1>3 DEF Alone
<1>4. ASSUME NEW n \in Names, Unlink(Dir[n]) PROVE M(p)'
  BY <1>3, <1>4 DEF Unlink
<1>5. ASSUME NEW n \in Names, NEW to \in Names, RenameMoves(n, to) PROVE M(p)'
  BY <1>3, <1>5 DEF RenameMoves
<1>6. ASSUME NEW q \in Pulls, NEW n \in Names, PullAsks(q, n) PROVE M(p)'
  BY <1>1, <1>2, <1>3, <1>6 DEF PullAsks, TypeOK, Alone
<1>7. ASSUME NEW q \in Pulls, PullSkipped(q) \/ PullSucceeds(q) \/ PullFails(q) PROVE M(p)'
  <2>1. CASE q = p
    <3>1. pc'[p] \in {"skipped", "success", "failed"}
      BY <1>1, <1>7, <2>1 DEF PullSkipped, PullSucceeds, PullFails, Ends, TypeOK
    <3> QED
      BY <3>1 DEF Alone
  <2>2. CASE q # p
    BY <1>1, <1>3, <1>7, <2>2 DEF PullSkipped, PullSucceeds, PullFails, Ends, TypeOK
  <2> QED
    BY <2>1, <2>2
<1>8. ASSUME NEW q \in Pulls, PullOpens(q) PROVE M(p)'
  <2>1. PICK i \in ModelFiles(name[q]) : Opens(q, i)
    BY <1>1, <1>8, OpensEffect
  <2>2. CASE q = p
    <3>1. /\ pc'[p] = "writing" /\ last'[p] = i /\ mine'[p] \in {0, i} /\ name' = name
      BY <1>1, <2>1, <2>2 DEF Opens, TypeOK
    <3> QED
      BY <2>2, <3>1 DEF Alone
  <2>3. CASE q # p
    BY <1>1, <1>3, <2>1, <2>3 DEF Opens, TypeOK
  <2> QED
    BY <2>2, <2>3
<1>9. ASSUME NEW q \in Pulls, PullWrites(q) PROVE M(p)'
  <2>1. /\ UNCHANGED <<pc, name, last, mine>> /\ pc[q] = "writing"
        /\ q # p => next'[p] = next[p]
    BY <1>1, <1>9 DEF PullWrites, TypeOK
  <2> QED
    BY <1>2, <2>1 DEF Alone
<1>10. ASSUME NEW q \in Pulls, PullCloses(q) PROVE M(p)'
  <2>1. UNCHANGED <<name, last, next, mine>> /\ pc[q] = "writing" /\ (q # p => pc'[p] = pc[p])
    BY <1>1, <1>10 DEF PullCloses, TypeOK
  <2>2. CASE q = p
    <3>1. pc'[p] = "asked" /\ next[p] = Blocks + 1
      BY <1>1, <1>10, <2>2, DirFacts DEF PullCloses, TypeOK
    <3> QED
      BY <1>2, <2>1, <2>2, <3>1 DEF Alone
  <2> QED
    BY <1>3, <2>1, <2>2
<1>11. ASSUME NEW q \in Pulls, PullsOther(q) PROVE M(p)'
  <2>1. PICK i \in Files(name[q]) \ ModelFiles(name[q]) :
           IsNext(q, i) /\ last' = [last EXCEPT ![q] = i]
    BY <1>11 DEF PullsOther
  <2>2. UNCHANGED <<pc, name, next, mine>> /\ pc[q] = "asked" /\ name[q] \in Names
    BY <1>1, <1>11 DEF PullsOther, Named
  <2>3. CASE q = p
    <3>1. last'[p] = i
      BY <1>1, <2>1, <2>3 DEF TypeOK
    <3>2. ASSUME NEW j \in ModelFiles(name[p]), j <= i PROVE j <= last[p]
      <4>1. j \in Files(name[p]) /\ j # i /\ j \in Nat /\ i \in Nat /\ last[p] \in Nat
        BY <1>1, <2>1, <2>2, <2>3, FileFacts DEF TypeOK
      <4>2. ~(i <= j)
        BY <3>2, <4>1
      <4>3. ~(j > last[p])
        BY <2>1, <2>3, <4>1, <4>2 DEF IsNext, Left
      <4> QED
        BY <4>1, <4>3
    <3> QED
      BY <1>2, <2>2, <2>3, <3>1, <3>2 DEF Alone
  <2>4. CASE q # p
    BY <1>1, <1>3, <2>1, <2>2, <2>4 DEF TypeOK
  <2> QED
    BY <2>3, <2>4
<1>12. ASSUME UNCHANGED pullVars PROVE M(p)'
  BY <1>3, <1>12 DEF pullVars
<1> HIDE DEF M
<1> QED
  BY <1>4, <1>5, <1>6, <1>7, <1>8, <1>9, <1>10, <1>11, <1>12
     DEF Next, Delete, DeleteCommand, Create, Copy, RenameAdds, RenameRemoves, RenameCut, vars

LEMMA NoneIsNotWhole == ~IsWhole(None)
  <1>1. ASSUME NEW n \in Names, NEW i \in ModelFiles(n), None = Prefix(n, i, Blocks + 1)
        PROVE  FALSE
    BY <1>1, FileFacts, ContentFacts
  <1> QED
    BY <1>1 DEF IsWhole

\* A step makes at most one file whole.
LEMMA KeepsFewWhole ==
    ASSUME FileInv, [Next]_vars
    PROVE  FewWhole'
<1>1. TypeOK /\ IsFiniteSet(Whole) /\ ~IsWhole(None)
  BY NoneIsNotWhole DEF FileInv, FewWhole
<1>2. ASSUME NEW d, \A e \in Dirs : e # d => file'[e] \in {file[e], None} PROVE FewWhole'
  <2>1. Whole' \subseteq Whole \cup {d}
    BY <1>1, <1>2 DEF Whole
  <2>2. IsFiniteSet(Whole \cup {d})
    BY <1>1, FS_AddElement
  <2> QED
    BY <2>1, <2>2, FS_Subset DEF FewWhole
<1>3. ASSUME NEW n \in Names, Unlink(Dir[n]) PROVE FewWhole'
  BY <1>1, <1>2, <1>3 DEF Unlink, TypeOK
<1>4. ASSUME NEW n \in Names, NEW to \in Names, RenameMoves(n, to) PROVE FewWhole'
  <2>1. \A e \in Dirs : e # Dir[to] => file'[e] \in {file[e], None}
    BY <1>1, <1>4 DEF RenameMoves, TypeOK
  <2> QED
    BY <1>2, <2>1
<1>5. ASSUME NEW p \in Pulls, PullOpens(p) PROVE FewWhole'
  <2>1. \A e \in Dirs : e # Dir[name[p]] => file'[e] = file[e]
    BY <1>1, <1>5 DEF PullOpens, TypeOK
  <2> QED
    BY <1>2, <2>1
<1>6. ASSUME NEW p \in Pulls, PullWrites(p) PROVE FewWhole'
  <2>1. \A e \in Dirs : e # at[p] => file'[e] = file[e]
    BY <1>1, <1>6 DEF PullWrites, TypeOK
  <2> QED
    BY <1>2, <2>1
<1>7. ASSUME UNCHANGED file PROVE FewWhole'
  BY <1>1, <1>7 DEF FewWhole, Whole
<1> QED
  BY <1>3, <1>4, <1>5, <1>6, <1>7
     DEF Next, Delete, DeleteCommand, Create, Copy, PullAsks, PullSkipped, PullCloses,
         PullsOther, PullSucceeds, PullFails, RenameAdds, RenameRemoves, RenameCut, vars

LEMMA FileInvariant == Spec => []FileInv
<1>1. Init => FileInv
  <2> SUFFICES ASSUME Init PROVE FileInv
    OBVIOUS
  <2>1. Whole = {}
    BY DirFacts, NoneIsNotWhole DEF Init, Whole
  <2>2. TypeOK
    BY DirFacts DEF Init, TypeOK
  <2> QED
    BY <2>1, <2>2, FS_EmptySet
       DEF Init, FileInv, Named, OpenExists, AloneInPlace, Alone, MineIsLast, FewWhole
<1>2. FileInv /\ [Next]_vars => FileInv'
  <2> SUFFICES ASSUME FileInv, [Next]_vars PROVE FileInv'
    OBVIOUS
  <2>1. TypeOK' /\ Named' /\ OpenExists'
    BY StoreType, KeepsNamed, KeepsOpenExists DEF FileInv
  <2> QED
    BY <2>1, KeepsAloneInPlace, KeepsMineIsLast, KeepsFewWhole DEF FileInv
<1> QED
  BY <1>1, <1>2, PTL DEF Spec

\* The files, the rows, the pulls and the rename under way keep their types,
\* whatever the routes and commands do to each other.
THEOREM TypeCorrect == Spec => []TypeOK
<1>1. FileInv => TypeOK
  BY DEF FileInv
<1> QED
  BY <1>1, FileInvariant, PTL

\* When a pull that opened a model.litertlm says success, and nobody else opened,
\* deleted or moved it since, the directory of the model holds the repository's
\* last .litertlm file, whole (pull.py:60-101, cli.py:259-303).
THEOREM PullsAreWhole == Spec => PulledIsWhole
<1>1. ASSUME FileInv, NEW p \in Pulls, [Next]_vars,
             pc[p] # "success", pc'[p] = "success", mine[p] # 0
      PROVE  \E m \in ModelFiles(name[p]) :
                 /\ \A i \in ModelFiles(name[p]) : i <= m
                 /\ file[Dir[name[p]]] = Prefix(name[p], m, Blocks + 1)
  <2>1. TypeOK /\ AloneInPlace /\ MineIsLast /\ Named
    BY <1>1 DEF FileInv
  <2>2. PullSucceeds(p)
    <3>1. ASSUME NEW q \in Pulls, NEW n \in Names, PullAsks(q, n) PROVE FALSE
      BY <1>1, <2>1, <3>1 DEF PullAsks, TypeOK
    <3>2. ASSUME NEW q \in Pulls, OtherPullStep(q) \/ (PullSucceeds(q) /\ q # p)
          PROVE  FALSE
      BY <1>1, <2>1, <3>2
         DEF OtherPullStep, PullSkipped, PullOpens, PullWrites, PullCloses, PullsOther,
             PullFails, PullSucceeds, Ends, TypeOK
    <3>3. pc' # pc
      BY <1>1
    <3> QED
      BY <1>1, <3>1, <3>2, <3>3
         DEF Next, OtherPullStep, Delete, DeleteCommand, Unlink, Create, Copy, RenameMoves,
             RenameAdds, RenameRemoves, RenameCut, vars, pullVars
  <2>3. pc[p] = "asked" /\ Left(p) = {} /\ Alone(p) /\ name[p] \in Names
    BY <1>1, <2>1, <2>2 DEF PullSucceeds, Alone, Named
  <2>4. file[Dir[name[p]]] = Prefix(name[p], mine[p], Blocks + 1) /\ mine[p] \in ModelFiles(name[p])
    BY <2>1, <2>3 DEF AloneInPlace, InPlace, MineIsLast
  <2>5. \A i \in ModelFiles(name[p]) : i <= last[p]
    BY <2>1, <2>3, FileFacts DEF Left, TypeOK
  <2>6. \A i \in ModelFiles(name[p]) : i <= mine[p]
    BY <2>1, <2>3, <2>5 DEF MineIsLast
  <2> QED
    BY <2>4, <2>6
<1>2. FileInv /\ [Next]_vars =>
         [\A p \in Pulls :
             pc[p] # "success" /\ pc'[p] = "success" /\ mine[p] # 0 =>
                 \E m \in ModelFiles(name[p]) :
                     /\ \A i \in ModelFiles(name[p]) : i <= m
                     /\ file[Dir[name[p]]] = Prefix(name[p], m, Blocks + 1)]_vars
  BY <1>1
<1> QED
  BY <1>2, FileInvariant, PTL DEF Spec, PulledIsWhole

\* No step of a rename, nor its interruption, loses a whole model file or makes
\* a second one: a directory with a model in it is never moved onto another.
THEOREM RenamesKeepModels == Spec => RenameKeepsModels
<1>1. ASSUME FileInv, [Next]_vars, rename' # rename
      PROVE  Cardinality(Whole') = Cardinality(Whole)
  <2>1. TypeOK /\ IsFiniteSet(Whole) /\ ~IsWhole(None)
    BY <1>1, NoneIsNotWhole DEF FileInv, FewWhole
  <2>2. ASSUME UNCHANGED file PROVE Whole' = Whole
    BY <2>2 DEF Whole
  <2>3. ASSUME NEW n \in Names, NEW to \in Names, RenameMoves(n, to)
        PROVE  Cardinality(Whole') = Cardinality(Whole)
    <3>1. CASE Moves(n, to)
      <4>1. /\ Dir[n] \in Dirs /\ Dir[to] \in Dirs /\ Dir[n] # Dir[to]
            /\ file'[Dir[to]] = file[Dir[n]] /\ file'[Dir[n]] = None /\ file[Dir[to]] = None
            /\ \A d \in Dirs : d \notin {Dir[n], Dir[to]} => file'[d] = file[d]
        BY <2>1, <3>1, DirFacts DEF Moves, TypeOK, Found
      <4>2. CASE Dir[n] \in Whole
        <5>1. Whole' = (Whole \ {Dir[n]}) \cup {Dir[to]} /\ Dir[to] \notin Whole
          BY <2>1, <4>1, <4>2 DEF Whole
        <5>2. /\ IsFiniteSet(Whole \ {Dir[n]})
              /\ Cardinality(Whole \ {Dir[n]}) = Cardinality(Whole) - 1
          BY <2>1, <4>2, FS_RemoveElement
        <5>3. Cardinality(Whole') = Cardinality(Whole \ {Dir[n]}) + 1
          BY <5>1, <5>2, FS_AddElement
        <5> QED
          BY <2>1, <5>2, <5>3, FS_CardinalityType
      <4>3. CASE Dir[n] \notin Whole
        <5>1. Whole' = Whole
          BY <2>1, <4>1, <4>3 DEF Whole
        <5> QED
          BY <5>1
      <4> QED
        BY <4>2, <4>3
    <3> QED
      BY <2>1, <2>2, <2>3, <3>1, RenameMovesEffect
  <2> QED
    BY <1>1, <2>2, <2>3
       DEF Next, Delete, DeleteCommand, Create, Copy, PullAsks, PullSkipped, PullOpens, PullWrites,
           PullCloses, PullsOther, PullSucceeds, PullFails, RenameAdds, RenameRemoves, RenameCut, vars
<1>2. FileInv /\ [Next]_vars => [rename' # rename => Cardinality(Whole') = Cardinality(Whole)]_vars
  BY <1>1
<1> QED
  BY <1>2, FileInvariant, PTL DEF Spec, RenameKeepsModels
=============================================================================
