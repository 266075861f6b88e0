------------------------ MODULE AnnotationsChannel ------------------------
(***************************************************************************)
(* The state of an annotations channel and its reducer                     *)
(* (channels-annotations/reducer.ts): threads anchored to a resource, each *)
(* with its entries.  A text, an anchor or a range is a Value.             *)
(***************************************************************************)
EXTENDS KeyedLists

CONSTANTS AnnotationId, EntryId, Value, MaxEntries, None

VARIABLE annotations

AnnotationEntry == [id : EntryId, text : Value]
\* anchor: origin, resource and range, which an update replaces one by one.
Annotation ==
  [id : AnnotationId, anchor : Value, resolved : BOOLEAN, entries : Seq(AnnotationEntry)]

TypeOK == annotations \in Seq(Annotation)

Init == annotations = <<>>

AnnotationsSet(annotation) ==
  LET next == Upsert(annotations, annotation)
  IN  Len(next) <= MaxEntries /\ annotations' = next

\* Fields the action leaves out (None) stay as they are; the entries always do.
AnnotationsUpdated(id, anchor, resolved) ==
  /\ id \in Ids(annotations)
  /\ annotations' = [annotations EXCEPT
       ![IndexOfId(annotations, id)].anchor = IF anchor = None THEN @ ELSE anchor,
       ![IndexOfId(annotations, id)].resolved = IF resolved = None THEN @ ELSE resolved = "yes"]

AnnotationsRemoved(id) == annotations' = RemoveId(annotations, id)

AnnotationsEntrySet(id, entry) ==
  /\ id \in Ids(annotations)
  /\ LET i == IndexOfId(annotations, id)
         next == Upsert(annotations[i].entries, entry)
     IN  /\ Len(next) <= MaxEntries
         /\ annotations' = [annotations EXCEPT ![i].entries = next]

AnnotationsEntryRemoved(id, entry) ==
  /\ id \in Ids(annotations)
  /\ annotations' = [annotations EXCEPT ![IndexOfId(annotations, id)].entries = RemoveId(@, entry)]

Next ==
  \/ \E id \in AnnotationId, anchor \in Value, resolved \in BOOLEAN,
        entries \in {<<>>} \cup {<<e>> : e \in AnnotationEntry} :
       AnnotationsSet([id |-> id, anchor |-> anchor, resolved |-> resolved, entries |-> entries])
  \/ \E id \in AnnotationId :
       \/ \E anchor \in Value \cup {None}, resolved \in {"yes", "no", None} :
            AnnotationsUpdated(id, anchor, resolved)
       \/ AnnotationsRemoved(id)
       \/ \E entry \in AnnotationEntry :
            AnnotationsEntrySet(id, entry) \/ AnnotationsEntryRemoved(id, entry.id)

\* An annotation is listed once, and an entry once in its annotation.
IdsAreUnique ==
  DistinctIds(annotations) /\ \A i \in DOMAIN annotations : DistinctIds(annotations[i].entries)
=============================================================================
