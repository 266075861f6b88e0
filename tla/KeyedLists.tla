---------------------------- MODULE KeyedLists ----------------------------
(***************************************************************************)
(* The list edits the channel reducers share: entries are looked up by an  *)
(* id, replaced in place when it is known, appended when it is new.  The   *)
(* reducers write findIndex, slice and splice out at each place; the map   *)
(* names one of them for each operator.                                    *)
(***************************************************************************)
EXTENDS Naturals, Sequences, SequencesExt

\* The ids of a list of records.
Ids(list) == {list[i].id : i \in DOMAIN list}

\* findIndex by id: the first entry that carries it, 0 when none does.
IndexOfId(list, id) == SelectInSeq(list, LAMBDA e : e.id = id)

\* Replace the entry with e's id in place, or append e.
Upsert(list, e) ==
  IF e.id \in Ids(list) THEN ReplaceAt(list, IndexOfId(list, e.id), e) ELSE Append(list, e)

\* Splice the first entry with this id out.
RemoveId(list, id) == RemoveFirstMatch(list, LAMBDA e : e.id = id)

\* Append a plain value unless the list includes it.
Include(list, v) == IF v \in ToSet(list) THEN list ELSE Append(list, v)

\* filter: the entries of the list that are in the set, in their order.
KeepOnly(list, set) ==
  LET kept[k \in 0..Len(list)] ==
        IF k = 0 THEN <<>>
        ELSE IF list[k] \in set THEN Append(kept[k - 1], list[k]) ELSE kept[k - 1]
  IN  kept[Len(list)]

\* A list no two of whose entries share an id.
DistinctIds(list) == \A i, j \in DOMAIN list : list[i].id = list[j].id => i = j

\* A list of plain values without a repetition.
Distinct(list) == \A i, j \in DOMAIN list : list[i] = list[j] => i = j
=============================================================================
