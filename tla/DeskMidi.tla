------------------------------ MODULE DeskMidi ------------------------------
(***************************************************************************)
(* MIDI captured at one desk (use-desk-midi.ts, midi-take-library.ts,      *)
(* midi-store.ts, midi.ts).  While a take rolls, the events of the armed   *)
(* input go into a list in memory; a debounced write, a hidden tab and the *)
(* end of the take queue whole-file rewrites of it.  Showing a take reads  *)
(* its file in the background and, the first time, moves a document an     *)
(* older version left in localStorage into a file.                         *)
(*                                                                         *)
(* The n-th event played during a take is n, and a list is the set of its  *)
(* events: they are appended in order and sorted by time on the way out.   *)
(* `live` is the take the server has rolling, `view` the one this page     *)
(* knows of; a page that lost its connection misses what is in between.    *)
(* The store is decided once, before any of this.                          *)
(***************************************************************************)
EXTENDS Naturals, FiniteSets, Sequences

CONSTANTS
    MidiTake, OldTake, NoMidiTake, \* takes still to roll, takes of an older version
    MidiCap,                       \* events localStorage holds of a take
    MaxEvents, MaxChain,           \* bounds: events of a take, queued writes,
    MaxIncidents                   \* takes shown or deleted, failed writes, reloads

\* A take of an older version does not roll again.
ASSUME MidiAssumption ==
    /\ MidiTake \cap OldTake = {} /\ NoMidiTake \notin MidiTake \cup OldTake
    /\ MidiCap \in Nat \ {0} /\ MaxChain \in Nat

VARIABLES
    store,      \* kind, file and legacy: what survives the page
    live, rolled, played,
    view,       \* the session's activeTakeId on this page
    lane,       \* phase of the input card
    capture,    \* the take being captured
    buffer,     \* the page's event list of a take
    timer,      \* the debounced write is pending
    chain,      \* queued writes and removals
    saving,     \* the write under way
    cache,      \* TakeMidiLibrary.takes
    hydrating,  \* background reads
    deleted, unsaved, incidents,
    hurt        \* what happened to a take that its events do not survive

midiVars == <<store, live, rolled, played, view, lane, capture, buffer, timer, chain,
              saving, cache, hydrating, deleted, unsaved, incidents, hurt>>
midiDisk == <<store, unsaved>>
midiSession == <<live, rolled, played, view>>
midiPage == <<lane, capture, buffer, timer, chain, saving, cache, hydrating>>
midiHistory == <<deleted, incidents, hurt>>

AnyTake == MidiTake \cup OldTake
Old == {1}
Absent == [is |-> "absent", events |-> {}]
Doc(events) == [is |-> "doc", events |-> events]
Husk == [is |-> "husk", events |-> {}]          \* the empty file of a failed first write
Placeholder == [is |-> "placeholder", events |-> {}]
NoSave == [take |-> NoMidiTake, events |-> {}]
Idle == [phase |-> "none", events |-> {}]

FreshPage ==
    /\ view = NoMidiTake /\ lane = "off" /\ capture = NoMidiTake /\ timer = FALSE
    /\ buffer = [t \in AnyTake |-> {}] /\ chain = <<>> /\ saving = NoSave
    /\ cache = [t \in AnyTake |-> Absent] /\ hydrating = [t \in AnyTake |-> Idle]

MidiInit ==
    /\ \E k \in {"opfs", "local"} :
          store = [kind |-> k,
                   file |-> [t \in AnyTake |-> IF k = "local" /\ t \in OldTake THEN Doc(Old) ELSE Absent],
                   legacy |-> [t \in AnyTake |-> IF k = "opfs" /\ t \in OldTake THEN Doc(Old) ELSE Absent]]
    /\ live = NoMidiTake /\ rolled = {} /\ played = [t \in AnyTake |-> 0]
    /\ FreshPage
    /\ deleted = {} /\ unsaved = {} /\ incidents = 0 /\ hurt = [t \in AnyTake |-> {}]

(***************************************************************************)
(* The library's queue.                                                    *)
(***************************************************************************)
persist(t) == Append(chain, [op |-> "save", take |-> t])
HasRoom == Len(chain) < MaxChain
Incident == incidents < MaxIncidents /\ incidents' = incidents + 1

(***************************************************************************)
(* Takes.                                                                  *)
(***************************************************************************)
TakeBegins(t) ==
    /\ live = NoMidiTake /\ t \notin rolled /\ live' = t /\ rolled' = rolled \cup {t}
    /\ UNCHANGED <<midiDisk, midiPage, midiHistory, played, view>>

TakeEnds ==
    /\ live # NoMidiTake /\ live' = NoMidiTake
    /\ UNCHANGED <<midiDisk, midiPage, midiHistory, rolled, played, view>>

\* The end of a take flushes its list if it has any event.
finishCapture ==
    chain' = IF buffer[capture] # {} THEN persist(capture) ELSE chain

\* onTake: a start opens a capture if an input is armed; a stop ends it.  A
\* start that follows no stop replaces the capture of the take before.
onTake ==
    /\ view # live /\ HasRoom /\ view' = live
    /\ IF live # NoMidiTake
       THEN IF lane # "live" THEN UNCHANGED <<capture, buffer, hurt>>
            ELSE /\ capture' = live
                 /\ buffer' = [buffer EXCEPT ![live] = {}]
                 /\ hurt' = [t \in AnyTake |->
                       hurt[t] \cup (IF t = capture THEN {"switched"} ELSE {})
                               \cup (IF t = live /\ played[live] > 0 THEN {"tail"} ELSE {})]
       ELSE capture' = NoMidiTake /\ UNCHANGED <<buffer, hurt>>
    /\ IF live = NoMidiTake /\ capture # NoMidiTake
       THEN timer' = FALSE /\ finishCapture /\ cache' = [cache EXCEPT ![capture] = Doc(buffer[capture])]
       ELSE UNCHANGED <<timer, chain, cache>>
    /\ UNCHANGED <<midiDisk, live, rolled, played, lane, saving, hydrating, deleted, incidents>>

\* Past the cap of localStorage the later events are dropped.
appendMidiEvent(t) == store.kind = "local" => Cardinality(buffer[t]) < MidiCap

\* A key is pressed while the take rolls; what the page captures of it.
onMessage ==
    /\ live # NoMidiTake /\ played[live] < MaxEvents[live]
    /\ played' = [played EXCEPT ![live] = @ + 1]
    /\ IF capture = live /\ appendMidiEvent(live)
       THEN buffer' = [buffer EXCEPT ![live] = @ \cup {played[live] + 1}] /\ timer' = TRUE
       ELSE UNCHANGED <<buffer, timer>>
    /\ UNCHANGED <<midiDisk, midiHistory, live, rolled, view, lane, capture, chain, saving, cache, hydrating>>

\* The debounce runs out, or the tab is hidden: flushCapture.
flushCapture ==
    /\ timer /\ HasRoom /\ timer' = FALSE
    /\ chain' = IF capture # NoMidiTake THEN persist(capture) ELSE chain
    /\ UNCHANGED <<midiDisk, midiSession, midiHistory, lane, capture, buffer, saving, cache, hydrating>>

(***************************************************************************)
(* Writes.  The list is read when its write begins.  A file is swapped in  *)
(* whole; a failed first write may leave an empty one.                     *)
(***************************************************************************)
SaveStarts ==
    /\ chain # <<>> /\ Head(chain).op = "save" /\ saving = NoSave
    /\ saving' = [take |-> Head(chain).take, events |-> buffer[Head(chain).take]]
    /\ UNCHANGED <<midiDisk, midiSession, midiHistory, lane, capture, buffer, timer, chain, cache, hydrating>>

SaveCommits ==
    /\ saving # NoSave
    /\ store' = [store EXCEPT !.file[saving.take] = Doc(saving.events)]
    /\ unsaved' = unsaved \ {saving.take}
    /\ saving' = NoSave /\ chain' = Tail(chain)
    /\ UNCHANGED <<midiSession, midiHistory, lane, capture, buffer, timer, cache, hydrating>>

\* Mutant: the clean-up after a failed write removes the file whatever it holds.
AfterFailedWriteCleared(f) == {Absent}

AfterFailedWrite(f) == IF f.is = "doc" THEN {f} ELSE {f, Absent, Husk}

SaveFails ==
    /\ saving # NoSave /\ Incident
    /\ \E f \in IF store.kind = "opfs" THEN AfterFailedWrite(store.file[saving.take])
                ELSE {store.file[saving.take]} :
          store' = [store EXCEPT !.file[saving.take] = f]
    /\ unsaved' = unsaved \cup {saving.take}
    /\ saving' = NoSave /\ chain' = Tail(chain)
    /\ UNCHANGED <<midiSession, deleted, hurt, lane, capture, buffer, timer, cache, hydrating>>

RemoveRuns ==
    /\ chain # <<>> /\ Head(chain).op = "remove"
    /\ store' = [store EXCEPT !.file[Head(chain).take] = Absent]
    /\ chain' = Tail(chain)
    /\ UNCHANGED <<unsaved, midiSession, midiHistory, lane, capture, buffer, timer, saving, cache, hydrating>>

(***************************************************************************)
(* Reading a take.                                                         *)
(***************************************************************************)
\* takeMidi: the first touch leaves a placeholder and reads in the background.
takeMidi(t) ==
    /\ Incident /\ t \notin deleted /\ t \in rolled \cup OldTake /\ cache[t] = Absent
    /\ cache' = [cache EXCEPT ![t] = Placeholder]
    /\ hydrating' = [hydrating EXCEPT ![t].phase = "reading"]
    /\ UNCHANGED <<midiDisk, midiSession, deleted, hurt, lane, capture, buffer, timer, chain, saving>>

\* A capture that finished, or a deletion, while the file was read owns the entry.
Hydrated(t, events) ==
    /\ cache' = IF cache[t] = Placeholder THEN [cache EXCEPT ![t] = Doc(events)] ELSE cache
    /\ hydrating' = [hydrating EXCEPT ![t] = Idle]

hasDocument(f) == f.is = "doc"

\* loadTakeMidi: the file, else the old document, which starts moving.
HydrateReads(t) ==
    /\ hydrating[t].phase = "reading"
    /\ IF hasDocument(store.file[t]) \/ store.legacy[t] = Absent
       THEN Hydrated(t, store.file[t].events)
       ELSE /\ hydrating' = [hydrating EXCEPT ![t] = [phase |-> "moving", events |-> store.legacy[t].events]]
            /\ UNCHANGED cache
    /\ UNCHANGED <<midiDisk, midiSession, midiHistory, lane, capture, buffer, timer, chain, saving>>

\* The move's own write, outside the queue; only then the old copy goes.
MoveCommits(t) ==
    /\ hydrating[t].phase = "moving"
    /\ store' = [store EXCEPT !.file[t] = Doc(hydrating[t].events), !.legacy[t] = Absent]
    /\ Hydrated(t, hydrating[t].events)
    /\ UNCHANGED <<unsaved, midiSession, midiHistory, lane, capture, buffer, timer, chain, saving>>

MoveFails(t) ==
    /\ hydrating[t].phase = "moving" /\ Incident
    /\ \E f \in AfterFailedWrite(store.file[t]) : store' = [store EXCEPT !.file[t] = f]
    /\ Hydrated(t, hydrating[t].events)
    /\ UNCHANGED <<unsaved, midiSession, deleted, hurt, lane, capture, buffer, timer, chain, saving>>

(***************************************************************************)
(* The input card, the deletion of a take, the page.                       *)
(***************************************************************************)
\* The buttons that arm are disabled while a take rolls, but the permission
\* prompt is answered later.
OpenPicker ==
    /\ lane = "off" /\ lane' = "asking"
    /\ UNCHANGED <<midiDisk, midiSession, midiHistory, capture, buffer, timer, chain, saving, cache, hydrating>>

\* resume() arms the saved input by itself, openPicker() waits for a choice.
AccessAnswered ==
    /\ lane = "asking" /\ lane' \in {"off", "picking", "live"}
    /\ UNCHANGED <<midiDisk, midiSession, midiHistory, capture, buffer, timer, chain, saving, cache, hydrating>>

ChooseInput ==
    /\ lane = "picking" /\ lane' \in {"off"} \cup (IF view = NoMidiTake THEN {"live"} ELSE {})
    /\ UNCHANGED <<midiDisk, midiSession, midiHistory, capture, buffer, timer, chain, saving, cache, hydrating>>

disable ==
    /\ lane = "live" /\ view = NoMidiTake /\ lane' = "off"
    /\ UNCHANGED <<midiDisk, midiSession, midiHistory, capture, buffer, timer, chain, saving, cache, hydrating>>

\* The server confirmed that the take's streams are gone (never the rolling
\* take's).  The removal queues behind the writes; the localStorage key goes
\* at once.
deleteTakeMidi(t) ==
    /\ t \in (rolled \cup OldTake) \ (deleted \cup {live, view}) /\ HasRoom /\ Incident
    /\ deleted' = deleted \cup {t}
    /\ timer' = (timer /\ capture # t)
    /\ cache' = [cache EXCEPT ![t] = Absent]
    /\ chain' = Append(chain, [op |-> "remove", take |-> t])
    /\ store' = [store EXCEPT !.legacy[t] = Absent,
                              !.file[t] = IF store.kind = "local" THEN Absent ELSE @]
    /\ hurt' = [hurt EXCEPT ![t] = @ \cup IF hydrating[t] # Idle THEN {"raced"} ELSE {}]
    /\ UNCHANGED <<unsaved, midiSession, lane, capture, buffer, saving, hydrating>>

\* The page goes, with what is queued in it; a write under way is not seen.
Reload ==
    /\ Incident
    /\ view' = NoMidiTake /\ lane' = "off" /\ capture' = NoMidiTake /\ timer' = FALSE
    /\ buffer' = [t \in AnyTake |-> {}] /\ chain' = <<>> /\ saving' = NoSave
    /\ cache' = [t \in AnyTake |-> Absent] /\ hydrating' = [t \in AnyTake |-> Idle]
    /\ hurt' = [t \in AnyTake |-> IF t \in deleted THEN hurt[t] \cup {"reloaded"} ELSE hurt[t]]
    /\ UNCHANGED <<midiDisk, live, rolled, played, deleted>>

MidiNext ==
    \/ \E t \in MidiTake : TakeBegins(t)
    \/ TakeEnds \/ onTake \/ onMessage \/ flushCapture
    \/ SaveStarts \/ SaveCommits \/ SaveFails \/ RemoveRuns
    \/ \E t \in AnyTake : takeMidi(t) \/ HydrateReads(t) \/ MoveCommits(t) \/ MoveFails(t)
    \/ OpenPicker \/ AccessAnswered \/ ChooseInput \/ disable
    \/ \E t \in AnyTake : deleteTakeMidi(t)
    \/ Reload

MidiSpec == MidiInit /\ [][MidiNext]_midiVars

(***************************************************************************)
(* Properties.                                                             *)
(***************************************************************************)
\* The page captures the take it knows to roll, a write under way is the head of the
\* queue, and no list exceeds what was played or what localStorage may hold.
MidiTypeOK ==
    /\ capture \in AnyTake \cup {NoMidiTake} /\ (capture # NoMidiTake => capture = view)
    /\ Len(chain) <= MaxChain /\ (saving # NoSave => chain # <<>> /\ Head(chain).take = saving.take)
    /\ \A t \in AnyTake : buffer[t] \subseteq 1..played[t]
    /\ store.kind = "local" => \A t \in MidiTake : Cardinality(buffer[t]) <= MidiCap

Settled == chain = <<>> /\ ~timer

\* The file holds every event this page captured, once the page has nothing
\* left to write and no write failed: the end of the take, a late debounce
\* and a hidden tab leave nothing behind.
CapturedIsStored ==
    Settled => \A t \in AnyTake \ (deleted \cup unsaved) : buffer[t] \subseteq store.file[t].events

\* The same of every take whose end the page heard of.
HeardIsStored ==
    Settled => \A t \in AnyTake \ (deleted \cup unsaved) :
        "switched" \notin hurt[t] => buffer[t] \subseteq store.file[t].events

\* A stored event is never overwritten: a rewrite holds what the file held.
\* (A page that joins a rolling take with its input already armed captures a
\* tail of it, and writes that over the head.)
StoredOnlyGrows ==
    [][\A t \in AnyTake \ deleted' :
          "tail" \notin hurt[t] => store.file[t].events \subseteq store'.file[t].events]_midiVars

\* An old document is in one of the two places until its take is deleted,
\* whichever write of the move fails.
OldIsKept ==
    \A t \in OldTake \ deleted : Old \subseteq store.file[t].events \cup store.legacy[t].events

\* A deleted take leaves nothing behind: no queued write, no late debounce
\* brings its file back.
DeletedIsErased ==
    Settled => \A t \in deleted : hurt[t] \cap {"raced", "reloaded"} = {} =>
        store.file[t].events = {} /\ store.legacy[t] = Absent

\* What the desk shows of a take it captured to the end is that capture,
\* whatever older file was being read meanwhile.
FinishedIsShown ==
    \A t \in AnyTake : t # capture /\ t \notin deleted /\ buffer[t] # {} /\ "switched" \notin hurt[t]
        => cache[t] = Doc(buffer[t])

\* What was played is kept and shown until it is deleted, and not afterwards: in
\* memory, in the queue of writes and in both stores (midi-store.ts,
\* midi-take-library.ts).
MidiSound == MidiTypeOK /\ HeardIsStored /\ OldIsKept /\ DeletedIsErased /\ FinishedIsShown

\* ... in every state, and no step takes an event out of a file.
MidiIsKept == []MidiSound /\ StoredOnlyGrows
=============================================================================
