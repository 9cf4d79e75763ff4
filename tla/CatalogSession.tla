--------------------------- MODULE CatalogSession ---------------------------
(***************************************************************************)
(* One session of the catalog: the ops of CatalogState committed through   *)
(* Catalog::commit, and its undo history.  Every commit pushes the op that *)
(* takes it back, computed before it is applied (State::inverse), or, when *)
(* no op does, clears the history.                                         *)
(***************************************************************************)
EXTENDS CatalogState, Sequences

CONSTANT MaxUndo  \* bound: the length of the history

ASSUME SessionAssumption == MaxUndo \in Nat

VARIABLES
    undo,   \* Catalog::undo: the inverses, newest last
    priors, \* for each, the entities and redirects it is to bring back, until:
    redone  \* an undo has left its own inverse in the history

sessionVars == <<vars, undo, priors, redone>>

-----------------------------------------------------------------------------
(* State::inverse, as a sequence: the op that takes the op back, or none.  *)

\* Insert and Restore: a pinned entity refuses the delete.
\* Changed form: it is tried all the same.
PutInverseAny(id, e) == <<[do |-> "delete", id |-> id, e |-> e]>>
PutInverse(id, e) == IF e.pinned THEN <<>> ELSE <<[do |-> "delete", id |-> id, e |-> e]>>

\* An edit: the entity as it is.
Prior(id) == IF id \in Live THEN <<[do |-> "replace", id |-> id, e |-> entities[id]]>> ELSE <<>>

\* A delete: the redirects into the entity would not come back with it.
DeleteInverse(id, cascade) ==
    IF cascade \/ id \notin Live \/ \E i \in DOMAIN redirects : redirects[i] = id
    THEN <<>> ELSE <<[do |-> "restore", id |-> id, e |-> entities[id]]>>

Inverse(op) == CASE op.do = "delete"  -> DeleteInverse(op.id, FALSE)
                 [] op.do = "restore" -> PutInverse(op.id, op.e)
                 [] op.do = "replace" -> Prior(op.id)

Now == [entities |-> entities, redirects |-> redirects]

\* Changed form: an op that cannot be taken back is only skipped.
RememberSkipping(inverse) ==
    /\ undo' = undo \o inverse
    /\ priors' = IF inverse = <<>> \/ redone THEN priors ELSE Append(priors, Now)
    /\ UNCHANGED redone

Remember(inverse) ==
    /\ undo' = IF inverse = <<>> THEN <<>> ELSE undo \o inverse
    /\ priors' = IF inverse = <<>> \/ redone THEN <<>> ELSE Append(priors, Now)
    /\ redone' = (redone /\ inverse # <<>>)

-----------------------------------------------------------------------------
(* Catalog::commit of an op that is accepted.                              *)
Committed ==
    \/ \E id \in Ids, e \in Entity :
          \/ Insert(id, e) /\ Remember(PutInverse(id, e))
          \/ Restore(id, e) /\ Remember(PutInverse(id, e))
          \/ EditField(id, e) /\ Remember(Prior(id))
    \/ \E id \in Ids, label \in Labels : Relabel(id, label) /\ Remember(Prior(id))
    \/ \E id \in Ids, on \in BOOLEAN : Pin(id, on) /\ Remember(Prior(id))
    \/ \E from, to \in Ids : Merge(from, to) /\ Remember(<<>>)
    \/ \E id \in Ids, cascade \in BOOLEAN :
          Delete(id, cascade) /\ Remember(DeleteInverse(id, cascade))
    \/ \E ids \in SUBSET Ids, cascade \in BOOLEAN :
          Purge(ids, cascade) /\ Remember(<<>>)

NewId == AllocId /\ UNCHANGED <<undo, priors, redone>>

\* What apply asks of the op an undo commits.
Accepts(op) == /\ op.do = "delete"  => MayDelete(op.id, FALSE)
               /\ op.do = "restore" => MayRestore(op.id, op.e)
               /\ op.do = "replace" => MayReplace(op.id, op.e)

Take(op) == \/ op.do = "delete"  /\ Delete(op.id, FALSE)
            \/ op.do = "restore" /\ Restore(op.id, op.e)
            \/ op.do = "replace" /\ Replace(op.id, op.e)

\* Catalog::undo: the newest inverse is popped and committed, and the inverse
\* that pushes (or the clearing it causes) dropped by truncate.  When the
\* checkpoint of that commit fails, its error returns before the truncate.
Popped(s) == SubSeq(s, 1, Len(s) - 1)

Undo(failed) ==
    /\ undo # <<>>
    /\ LET op == undo[Len(undo)]
       IN /\ Take(op)
          /\ undo' = IF Inverse(op) = <<>> THEN <<>>
                     ELSE IF failed THEN Popped(undo) \o Inverse(op) ELSE Popped(undo)
    /\ redone' = (undo' # <<>> /\ (redone \/ failed))
    /\ priors' = IF undo' = <<>> \/ redone' THEN <<>> ELSE Popped(priors)

-----------------------------------------------------------------------------
SessionInit == Init /\ undo = <<>> /\ priors = <<>> /\ redone = FALSE

SessionNext == \/ NewId
               \/ Committed /\ Len(undo') <= MaxUndo
               \/ \E failed \in BOOLEAN : Undo(failed)

SessionSpec == SessionInit /\ [][SessionNext]_sessionVars

-----------------------------------------------------------------------------
(* Correctness properties.                                                 *)

\* The newest inverse is one the catalog would accept: an undo is never
\* refused, which would lose the entry, unless an earlier one was redone.
UndoAccepted == undo # <<>> /\ ~redone => Accepts(undo[Len(undo)])

\* An undo brings back exactly the entities and redirects there were before
\* the op it takes back, whether or not its own checkpoint fails; after one that
\* did, the history is no longer that of the state.
UndoExact ==
    [][(\E failed \in BOOLEAN : Undo(failed)) /\ ~redone => Now' = priors[Len(priors)]]_sessionVars

\* store.rs: "The inverse's own inverse is not a redo entry": an undo leaves
\* less to undo.
UndoIsNotRedone ==
    [][(\E failed \in BOOLEAN : Undo(failed)) => Len(undo') < Len(undo)]_sessionVars
=============================================================================
