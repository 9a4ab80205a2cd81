------------------------------- MODULE JsonDb -------------------------------
(***************************************************************************)
(* JsonDB over CLNStorage: a dictionary in memory, the JSON patches that   *)
(* its changes leave behind, and one text in lightningd's datastore to     *)
(* which the patches are appended or which a dump of the whole dictionary  *)
(* replaces.  Every method runs under the database's lock; only the        *)
(* assignment of an attribute of a StoredObject is two steps, the patch    *)
(* under the lock and the assignment itself.                               *)
(*                                                                         *)
(* The text is modelled by its parts: a document, if there is one, and the *)
(* patches after it.  An entry is modelled by one attribute value.         *)
(***************************************************************************)
EXTENDS Naturals, Sequences

CONSTANTS
    Keys,         \* keys of the dictionaries
    StoredKeys,   \* those whose entries are StoredObjects (SwapData)
    Values,       \* values of an entry
    absent,       \* no entry
    Threads,      \* threads that use the database
    idle,         \* a thread that assigns no attribute
    FirstStart,   \* the datastore is empty when the plugin first starts
    LooseObjects, \* attributes of entries that were popped are assigned too
    MaxPending,   \* bound: pending changes
    MaxPatches,   \* bound: patches in the text
    MaxCrashes    \* bound: crashes in a run

ASSUME JsonDbAssumption ==
    /\ StoredKeys \subseteq Keys /\ absent \notin Values
    /\ FirstStart \in BOOLEAN /\ LooseObjects \in BOOLEAN
    /\ MaxPending \in Nat /\ MaxPatches \in Nat /\ MaxCrashes \in Nat

VARIABLES
    data,      \* self.data
    object,    \* the value of the object last stored at a key, popped or not
    pending,   \* self.pending_changes
    modified,  \* self._modified
    text,      \* the text in the datastore
    sizes,     \* what is known of init_pos and pos, see NeedsConsolidation
    setting,   \* the attribute assignment each thread is in
    behind,    \* history: keys whose latest change has left no patch
    crashes    \* crashes so far

vars == <<data, object, pending, modified, text, sizes, setting, behind, crashes>>
bookkeeping == <<text, sizes, crashes>>

Contents == [Keys -> Values \cup {absent}]
Empty == [k \in Keys |-> absent]
Patches == [op : {"add", "replace"}, key : Keys, value : Values]
           \cup [op : {"remove"}, key : Keys, value : {absent}]
\* headed: the text starts with a document, doc, and not with a comma.
Texts == [headed : BOOLEAN, doc : Contents, patches : Seq(Patches)]
Assignments == [key : Keys, value : Values, overtaken : BOOLEAN]

ASSUME IdleAssumption == idle \notin Assignments

TypeOK ==
    /\ data \in Contents /\ object \in Contents
    /\ pending \in Seq(Patches) /\ modified \in BOOLEAN
    /\ text \in Texts
    /\ sizes \in {"zero", "grown", "some"}
    /\ setting \in [Threads -> Assignments \cup {idle}]
    /\ behind \subseteq Keys /\ crashes \in 0..MaxCrashes

-----------------------------------------------------------------------------
(* Patches and texts *)

Patch(op, k, v) == [op |-> op, key |-> k, value |-> v]

\* What a patch makes of contents: a set of one, or of none if it does not
\* apply. Only "add" does not need the entry.
Apply(contents, p) ==
    {[c EXCEPT ![p.key] = IF p.op = "remove" THEN absent ELSE p.value] :
        c \in {c \in contents : p.op = "add" \/ c[p.key] # absent}}

\* JsonPatch.apply: one patch after the other.
Replay(contents, patches) ==
    LET after[n \in 0..Len(patches)] ==
            IF n = 0 THEN contents ELSE Apply(after[n - 1], patches[n])
    IN  after[Len(patches)]

\* load_data: nothing is made of a text whose patches do not apply, or that
\* starts with a comma; the attempts to repair it need unbalanced braces.
Load(t) ==
    IF t.headed THEN Replay({t.doc}, t.patches)
    ELSE IF t.patches = <<>> THEN {Empty} ELSE {}

-----------------------------------------------------------------------------
(* The dictionary *)

\* add_patch
Patched(ps) ==
    /\ Len(pending) + Len(ps) <= MaxPending
    /\ pending' = pending \o ps
    /\ modified' = TRUE

\* The assignments in progress whose patch is older than a dump or a set of
\* their entry.
Overtaken(ks) ==
    [t \in Threads |-> IF setting[t] = idle THEN idle
                       ELSE [setting[t] EXCEPT !.overtaken = @ \/ setting[t].key \in ks]]

\* StoredDict.__setitem__: an equal value leaves everything as it is. A
\* StoredObject has one key for good, and is only set again after a pop.
SetItem(k, v) ==
    /\ v # data[k]
    /\ k \in StoredKeys /\ object[k] # absent => data[k] = absent /\ v = object[k]
    /\ Patched(<<Patch(IF data[k] = absent THEN "add" ELSE "replace", k, v)>>)
    /\ data' = [data EXCEPT ![k] = v]
    /\ object' = [object EXCEPT ![k] = v]
    /\ behind' = behind \ {k}
    /\ setting' = Overtaken({k})
    /\ UNCHANGED bookkeeping

\* Mutant of Pop: no test for the key.
PopAnyway(k) ==
    /\ Patched(<<Patch("remove", k, absent)>>)
    /\ data' = [data EXCEPT ![k] = absent]
    /\ behind' = behind \ {k}
    /\ UNCHANGED <<object, setting, bookkeeping>>

\* StoredDict.pop of a key that is there
Pop(k) ==
    /\ data[k] # absent
    /\ Patched(<<Patch("remove", k, absent)>>)
    /\ data' = [data EXCEPT ![k] = absent]
    /\ behind' = behind \ {k}
    /\ UNCHANGED <<object, setting, bookkeeping>>

\* An entry that is no StoredObject (HoldInvoice) changes, unseen by the database.
ChangeInPlace(k, v) ==
    /\ k \notin StoredKeys
    /\ data[k] \notin {absent, v}
    /\ data' = [data EXCEPT ![k] = v]
    /\ object' = [object EXCEPT ![k] = v]
    /\ behind' = behind \cup {k}
    /\ UNCHANGED <<pending, modified, setting, bookkeeping>>

\* Mutant of UpdateItem: set without pop, which finds the values equal.
SetAgain(k) ==
    /\ k \notin StoredKeys /\ data[k] # absent
    /\ behind' = behind \ {k}
    /\ UNCHANGED <<data, object, pending, modified, setting, bookkeeping>>

\* Mutant of UpdateItem: the entry is read after the pop.
UpdatePopped(k) ==
    /\ k \notin StoredKeys /\ data[k] # absent
    /\ Patched(<<Patch("remove", k, absent), Patch("add", k, absent)>>)
    /\ behind' = behind \ {k}
    /\ UNCHANGED <<data, object, setting, bookkeeping>>

\* update_invoice: pop and set, so that the change leaves its patches.
UpdateItem(k) ==
    /\ k \notin StoredKeys /\ data[k] # absent
    /\ Patched(<<Patch("remove", k, absent), Patch("add", k, data[k])>>)
    /\ behind' = behind \ {k}
    /\ UNCHANGED <<data, object, setting, bookkeeping>>

\* StoredObject.__setattr__, the first half: whether the entry is still in the
\* dictionary is not looked at.
SetAttrPatches(t, k, v) ==
    /\ setting[t] = idle
    /\ \A u \in Threads : setting[u] # idle => setting[u].key # k
    /\ k \in StoredKeys
    /\ object[k] \notin {absent, v}
    /\ data[k] # absent \/ LooseObjects
    /\ Patched(<<Patch("replace", k, v)>>)
    /\ setting' = [setting EXCEPT ![t] = [key |-> k, value |-> v, overtaken |-> FALSE]]
    /\ UNCHANGED <<data, object, behind, bookkeeping>>

\* Its second half. If another thread has dumped the dictionary in between,
\* the dump holds the old value and the patch is gone.
SetAttrAssigns(t) ==
    /\ setting[t] # idle
    /\ LET k == setting[t].key IN
       /\ data' = [data EXCEPT ![k] = IF @ = absent THEN absent ELSE setting[t].value]
       /\ object' = [object EXCEPT ![k] = setting[t].value]
       /\ behind' = IF setting[t].overtaken /\ data[k] # absent THEN behind \cup {k} ELSE behind
    /\ setting' = [setting EXCEPT ![t] = idle]
    /\ UNCHANGED <<pending, modified, bookkeeping>>

-----------------------------------------------------------------------------
(* JsonDB.write and CLNStorage *)

\* pos > 2 * init_pos. With init_pos = 0 any append makes it true; otherwise
\* that depends on the lengths of the texts, and either is possible.
NeedsConsolidation == sizes = "grown"

\* _append_pending_changes and CLNStorage.append
AppendPending ==
    /\ ~NeedsConsolidation
    /\ pending # <<>>
    /\ Len(text.patches) + Len(pending) <= MaxPatches
    /\ text' = [text EXCEPT !.patches = @ \o pending]
    /\ sizes' = IF sizes = "zero" THEN "grown" ELSE sizes
    /\ pending' = <<>>
    /\ UNCHANGED <<data, object, modified, setting, behind, crashes>>

\* write_and_force_consolidation, because it needs it or because the log level
\* is DEBUG (human_readable)
Consolidate ==
    /\ modified
    /\ text' = [headed |-> TRUE, doc |-> data, patches |-> <<>>]
    /\ sizes' = "some"
    /\ pending' = <<>>
    /\ modified' = FALSE
    /\ behind' = {}
    /\ setting' = Overtaken(Keys)
    /\ UNCHANGED <<data, object, crashes>>

\* The plugin ends and starts again from the text, if that can be loaded.
Restart ==
    /\ crashes < MaxCrashes
    /\ crashes' = crashes + 1
    /\ data' \in Load(text)
    /\ object' = data'
    /\ pending' = <<>>
    /\ modified' = (text.patches # <<>>)
    /\ sizes' = IF text.headed \/ text.patches # <<>> THEN "some" ELSE "zero"
    /\ setting' = [t \in Threads |-> idle]
    /\ behind' = {}
    /\ UNCHANGED text

-----------------------------------------------------------------------------

Init ==
    /\ data = Empty /\ object = Empty
    /\ pending = <<>> /\ modified = FALSE
    /\ text = [headed |-> ~FirstStart, doc |-> Empty, patches |-> <<>>]
    /\ sizes = IF FirstStart THEN "zero" ELSE "some"
    /\ setting = [t \in Threads |-> idle]
    /\ behind = {} /\ crashes = 0

Next ==
    \/ \E k \in Keys, v \in Values : SetItem(k, v) \/ ChangeInPlace(k, v)
    \/ \E k \in Keys : Pop(k) \/ UpdateItem(k)
    \/ \E t \in Threads, k \in Keys, v \in Values : SetAttrPatches(t, k, v)
    \/ \E t \in Threads : SetAttrAssigns(t)
    \/ AppendPending
    \/ Consolidate
    \/ Restart

Spec == Init /\ [][Next]_vars

-----------------------------------------------------------------------------
(* Properties *)

\* What a write leaves in the datastore can be loaded by the next start,
\* whatever was set, popped and assigned before it and however often the
\* plugin was restarted; a text without a document is left out here.
DocumentLoads == text.headed => Load(text) # {}

\* The pending patches are exactly what separates the text from the memory:
\* an entry can be behind only if it was changed in place, or if a dump, or
\* a pop and set of the entry, fell between the two halves of an assignment.
PendingIsDifference ==
    \A c \in Replay(Load(text), pending), k \in Keys :
       \/ c[k] = data[k]
       \/ k \in behind
       \/ \E t \in Threads : setting[t] # idle /\ setting[t].key = k
=============================================================================
