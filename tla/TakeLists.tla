----------------------------- MODULE TakeLists -----------------------------
(***************************************************************************)
(* One take's markers (or comments) on several desks: the list in the      *)
(* shared document (collab-doc-lists.ts), the localStorage shadow and the  *)
(* list a desk shows (use-take-lists.ts, markers.ts, comments.ts).         *)
(*                                                                         *)
(* The document (external, Yjs): the take's key holds an array; a desk     *)
(* that sees no array sets a new one, and of two set concurrently one      *)
(* wins everywhere.  An element has a place in the array's order, the same *)
(* on every replica: its tag, any unused number, as the order of elements  *)
(* inserted concurrently is Yjs' choice.  Only the order of the elements   *)
(* of one id matters.  Deleted stays deleted.  `from` is history: the tags *)
(* of the elements that an element replaced, one after the other.          *)
(***************************************************************************)
EXTENDS Naturals, FiniteSets

CONSTANTS
    ListDesk,
    ItemId, Payload,    \* payloads are numbers, a new item's is 0
    LocalChoice,    \* what the desks' localStorage may hold at the beginning
    MaxTag, MaxArrayRank, MaxListEdits, MaxListReloads

\* A desk's list in localStorage has an id once.
ASSUME ListAssumption ==
    /\ ListDesk # {} /\ "server" \notin ListDesk
    /\ 0 \in Payload
    /\ MaxTag \in Nat /\ MaxArrayRank \in Nat
    /\ \A local \in LocalChoice :
          /\ local \in [ListDesk -> SUBSET [id : ItemId, val : Payload]]
          /\ \A d \in ListDesk : \A x, y \in local[d] : x.id = y.id => x = y

VARIABLES
    listDoc,    \* replica -> entry, els, del, seeded
    shadowOf,   \* desk -> the localStorage list
    shownOf,    \* desk -> the list of its last render
    syncedOf,   \* desk -> the client has synced once
    listEdits, listReloads,
    removed,    \* ids some desk removed
    mishap      \* "cleared": a second array was set; "stale": an edit of an old render;
                \* "crossed": an element did not take the place of the one it replaced

listVars == <<listDoc, shadowOf, shownOf, syncedOf, listEdits, listReloads, removed, mishap>>

ListReplica == ListDesk \cup {"server"}
EmptyList == [entry |-> 0, els |-> {}, del |-> {}, seeded |-> FALSE]

ListInit ==
    /\ listDoc = [r \in ListReplica |-> EmptyList]
    /\ shadowOf \in LocalChoice /\ shownOf = shadowOf
    /\ syncedOf = [d \in ListDesk |-> FALSE]
    /\ listEdits = 0 /\ listReloads = 0 /\ removed = {} /\ mishap = {}

(***************************************************************************)
(* Reading.                                                                *)
(***************************************************************************)
Stored(doc) == {e \in doc.els : e.arr = doc.entry /\ e \notin doc.del}
Winners(S) == {e \in S : \A f \in S : f.id = e.id => f.tag <= e.tag}
dedupeById(S) == {[id |-> e.id, val |-> e.val] : e \in Winners(S)}
hasTakeList(doc) == doc.entry # 0

\* Only the last element of an id stays: nothing is ever inserted.
healTakeListDuplicates(d, doc) ==
    [doc EXCEPT !.del = @ \cup (Stored(doc) \ Winners(Stored(doc)))]

\* The document after a refresh: reading it heals it.
displayTakeList(d, doc) == IF hasTakeList(doc) THEN healTakeListDuplicates(d, doc) ELSE doc

Display(doc, local) == IF hasTakeList(doc) THEN dedupeById(Stored(doc)) ELSE local

(***************************************************************************)
(* Writing.                                                                *)
(***************************************************************************)
ElementsOf(i) == UNION {{e \in listDoc[r].els : e.id = i} : r \in ListReplica}
TagsOf(i) == {e.tag : e \in ElementsOf(i)}
AllRanks == UNION {{listDoc[r].entry} \cup {e.arr : e \in listDoc[r].els} : r \in ListReplica}
Replaced(doc, i) == {w \in Winners(Stored(doc)) : w.id = i}
Tags(doc, items) ==
    {f \in [items -> 1..MaxTag] : \A i \in items :
        f[i] \notin TagsOf(i.id) /\ \A w \in Replaced(doc, i.id) : f[i] < w.tag}
Fresh(d, doc, arr, items, f) ==
    {[arr |-> arr, id |-> i.id, val |-> i.val, tag |-> f[i], by |-> d,
      from |-> UNION {w.from \cup {w.tag} : w \in Replaced(doc, i.id)}] : i \in items}

\* The new element goes in behind its left neighbour on screen.  What a desk deleted
\* there, or has not received yet, may come to stand between it and the one it replaced.
Crossed(doc, next) ==
    \E e \in next.els \ doc.els : \E w \in Replaced(doc, e.id), g \in ElementsOf(e.id) :
        e.tag < g.tag /\ g.tag < w.tag

\* Another array exists somewhere: setting this one drops one of the two.
Clears(doc) == doc.entry = 0 /\ AllRanks \ {0} # {}

\* Any array the take's key may then hold, and the document with some elements gone and
\* new ones in that array.
ArrayOf(doc) == IF hasTakeList(doc) THEN {doc.entry} ELSE (1..MaxArrayRank) \ AllRanks
Rewrite(d, doc, arr, gone, items, f) ==
    [doc EXCEPT !.entry = arr, !.els = @ \cup Fresh(d, doc, arr, items, f), !.del = @ \cup gone]

\* Reconcile by id: ids that left go, the last element of a changed id is
\* replaced in place, new ids are appended.  The documents this may lead to.
writeTakeList(d, doc, next) ==
    LET kept == {e \in Winners(Stored(doc)) : [id |-> e.id, val |-> e.val] \in next}
        new == next \ {[id |-> e.id, val |-> e.val] : e \in kept}
    IN  {Rewrite(d, doc, arr, Stored(doc) \ kept, new, f) : arr \in ArrayOf(doc), f \in Tags(doc, new)}

\* Mutant: the seed takes an emptied list for none, and the shadow of before the sync.
seedTakeListOnceEmpty(d, doc, local) ==
    IF shadowOf[d] = {} \/ Stored(doc) # {} THEN {doc}
    ELSE {[Rewrite(d, doc, arr, {}, shadowOf[d], f) EXCEPT !.seeded = TRUE] :
             arr \in ArrayOf(doc), f \in Tags(doc, shadowOf[d])}

\* The first sync moves a local list the document does not know into it.
seedTakeListOnce(d, doc, local) ==
    IF local = {} \/ doc.seeded \/ hasTakeList(doc) THEN {doc}
    ELSE {[Rewrite(d, doc, arr, {}, local, f) EXCEPT !.seeded = TRUE] :
             arr \in ArrayOf(doc), f \in Tags(doc, local)}

\* Once the document has the list, the shadow follows it.
shadowAfter(doc, local) == Display(doc, local)

\* What a refresh leaves on the desk.
Refreshed(d, doc, local) ==
    \E healed \in {displayTakeList(d, doc)} :
        /\ listDoc' = [listDoc EXCEPT ![d] = healed]
        /\ shadowOf' = [shadowOf EXCEPT ![d] = shadowAfter(healed, local)]

(***************************************************************************)
(* The operator.  An edit starts from the list of the last render.         *)
(***************************************************************************)
Commit(d, next) ==
    /\ listEdits < MaxListEdits /\ listEdits' = listEdits + 1
    /\ \E doc \in writeTakeList(d, listDoc[d], next) :
        /\ Refreshed(d, doc, next)
        /\ mishap' = mishap \cup (IF Clears(listDoc[d]) THEN {"cleared"} ELSE {})
                            \cup (IF Crossed(listDoc[d], doc) THEN {"crossed"} ELSE {})
                            \cup (IF shownOf[d] # Display(listDoc[d], shadowOf[d]) THEN {"stale"} ELSE {})
    /\ UNCHANGED <<shownOf, syncedOf, listReloads>>

EverUsed == (UNION {{e.id : e \in listDoc[r].els} : r \in ListReplica})
            \cup (UNION {{i.id : i \in shadowOf[d] \cup shownOf[d]} : d \in ListDesk}) \cup removed

\* addMarker, addComment: a new id.
addComment(items, i) == items \cup {[id |-> i, val |-> 0]}

\* renameMarker, editCommentText, resolveComment, unresolveComment.
editComment(items, x, v) == (items \ {x}) \cup {[x EXCEPT !.val = v]}

removeComment(items, x) == items \ {x}

AddItem(d, i) ==
    /\ i \notin EverUsed /\ Commit(d, addComment(shownOf[d], i))
    /\ UNCHANGED removed

EditItem(d, x) ==
    /\ x \in shownOf[d]
    /\ \E v \in Payload \ {x.val} : Commit(d, editComment(shownOf[d], x, v))
    /\ UNCHANGED removed

RemoveItem(d, x) ==
    /\ x \in shownOf[d] /\ Commit(d, removeComment(shownOf[d], x))
    /\ removed' = removed \cup {x.id}

\* React renders what the last refresh set.
Render(d) ==
    /\ shownOf[d] # Display(listDoc[d], shadowOf[d])
    /\ shownOf' = [shownOf EXCEPT ![d] = Display(listDoc[d], shadowOf[d])]
    /\ UNCHANGED <<listDoc, shadowOf, syncedOf, listEdits, listReloads, removed, mishap>>

(***************************************************************************)
(* The wire, and a page load.                                              *)
(***************************************************************************)
MaxRankOf(a, b) == IF a > b THEN a ELSE b
Merge(a, b) == [entry |-> MaxRankOf(a.entry, b.entry), els |-> a.els \cup b.els,
                del |-> a.del \cup b.del, seeded |-> a.seeded \/ b.seeded]

SendList(d) ==
    /\ syncedOf[d] /\ listDoc["server"] # Merge(listDoc["server"], listDoc[d])
    /\ listDoc' = [listDoc EXCEPT !["server"] = Merge(@, listDoc[d])]
    /\ UNCHANGED <<shadowOf, shownOf, syncedOf, listEdits, listReloads, removed, mishap>>

\* The observer refreshes; the first sync may seed.
ReceiveList(d) ==
    LET merged == Merge(listDoc[d], listDoc["server"])
        local == shadowAfter(displayTakeList(d, merged), shadowOf[d])
    IN  /\ ~syncedOf[d] \/ merged # listDoc[d]
        /\ syncedOf' = [syncedOf EXCEPT ![d] = TRUE]
        /\ IF syncedOf[d] THEN Refreshed(d, merged, shadowOf[d]) /\ UNCHANGED mishap
           ELSE \E doc \in seedTakeListOnce(d, merged, local) :
                   /\ Refreshed(d, doc, local)
                   /\ mishap' = mishap \cup IF doc.entry # merged.entry /\ Clears(merged)
                                            THEN {"cleared"} ELSE {}
        /\ UNCHANGED <<shownOf, listEdits, listReloads, removed>>

\* The page's document is gone with what it had not sent; the shadow stays.
ReloadLists(d) ==
    /\ listReloads < MaxListReloads /\ listReloads' = listReloads + 1
    /\ listDoc' = [listDoc EXCEPT ![d] = EmptyList]
    /\ syncedOf' = [syncedOf EXCEPT ![d] = FALSE]
    /\ shownOf' = [shownOf EXCEPT ![d] = shadowOf[d]]
    /\ UNCHANGED <<shadowOf, listEdits, removed, mishap>>

ListNext ==
    \E d \in ListDesk :
        \/ \E i \in ItemId : AddItem(d, i)
        \/ \E x \in shownOf[d] : EditItem(d, x) \/ RemoveItem(d, x)
        \/ Render(d) \/ SendList(d) \/ ReceiveList(d) \/ ReloadLists(d)

ListSpec == ListInit /\ [][ListNext]_listVars

(***************************************************************************)
(* Properties.                                                             *)
(***************************************************************************)
Ids(doc) == {e.id : e \in Stored(doc)}
ListsInSync == \A r \in ListReplica : listDoc[r] = listDoc["server"]
AllSynced == ListsInSync /\ \A d \in ListDesk : syncedOf[d]

\* When nothing is on its way, the duplicates that concurrent edits of one
\* element left in the array are healed, not just hidden.
DuplicatesHeal == AllSynced => Stored(listDoc["server"]) = Winners(Stored(listDoc["server"]))

\* When nothing is on its way, every desk's localStorage shadow is the list all of them show.
ShadowsAgree == AllSynced => \A d \in ListDesk : shadowOf[d] = dedupeById(Stored(listDoc["server"]))

\* The test of concurrent edits: "Same single winner survives on both - never zero".
NeverZero ==
    AllSynced /\ mishap \subseteq {"crossed"} =>
        \A e \in listDoc["server"].els : e.id \in removed \cup Ids(listDoc["server"])

\* What the project has, only a removal takes away: two desks that heal,
\* reconcile or edit concurrently never lose an element between them.
NeverCleared ==
    [][Ids(listDoc["server"]) \ Ids(listDoc'["server"]) \subseteq removed']_listVars

\* The same where no desk set a second array and no edit met an old render.
OnlyRemovalsRemove ==
    [][mishap' = {} => Ids(listDoc["server"]) \ Ids(listDoc'["server"]) \subseteq removed']_listVars

\* The project had item i, and no replica shows it any more.
Extinct(i) ==
    /\ \E e \in listDoc["server"].els : e.id = i
    /\ \A r \in ListReplica : i \notin Ids(listDoc[r])

\* An item whose last element is gone from every replica stays gone: no desk
\* brings it back from an old shadow or an old seed.
ExtinctStaysSo ==
    [][mishap' = {} => \A i \in ItemId : Extinct(i) =>
          \A r \in ListReplica : i \notin Ids(listDoc'[r])]_listVars

\* Markers and comments converge: duplicates heal, shadows agree, and no entry
\* leaves the list but by a removal, or comes back after one (collab-doc-lists.ts).
ListsConverge == [](DuplicatesHeal /\ ShadowsAgree) /\ OnlyRemovalsRemove /\ ExtinctStaysSo
=============================================================================
