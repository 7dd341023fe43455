----------------------------- MODULE SinkStatus -----------------------------
(***************************************************************************)
(* What the desk says of a take at the server: takeSummary of the archive  *)
(* (archive/read.ts), the poll that latches a finished take                *)
(* (use-server-status.ts) and the verdict on streams that never get an     *)
(* end, the orphans of a reload mid-take (track-model.ts).  One take; a    *)
(* tick of the poll is one request, and a tick is not kept from starting   *)
(* while an earlier one is under way.                                      *)
(***************************************************************************)
EXTENDS Naturals, FiniteSets

CONSTANTS StatusStream, LastChunk,
          MaxTicks,         \* requests under way at once
          MaxPollTrouble,   \* failed requests, restarts of the poll
          OrphanHold, MaxNow

\* The chunks of a stream are counted from zero.
ASSUME StatusAssumption == LastChunk \in Nat

VARIABLES
    kept,       \* stream -> [row, chunks, gaps, final] of the archive
    deskFinal,  \* streams whose end the desk's own sink knows
    takeRolls,    \* the take is the active one
    ticks,      \* answers under way
    statuses,   \* stream -> the status shown; absent ones not in the domain
    latched,    \* the take has left the polling set
    since, orphaned,    \* the orphan hook: first seen so, and the verdict
    clock, pollTrouble

statusVars == <<kept, deskFinal, takeRolls, ticks, statuses, latched, since, orphaned, clock, pollTrouble>>

Chunk == 0..LastChunk
NotSince == MaxNow + 1

(***************************************************************************)
(* The server.                                                             *)
(***************************************************************************)
computeHoles(k) ==
    {i \in Chunk \ (k.chunks \cup k.gaps) : k.final \/ \E j \in k.chunks : i <= j}

complete(k) == k.final /\ computeHoles(k) = {} /\ Cardinality(k.chunks) = LastChunk + 1

Archived == {s \in StatusStream : kept[s].row}
takeSummary == [s \in Archived |-> [final |-> kept[s].final, complete |-> complete(kept[s])]]

(***************************************************************************)
(* The desk.                                                               *)
(***************************************************************************)
\* Mutant: the server's own word on the end of the stream is not looked at.
orphanCandidateDeskOnly(s) ==
    /\ ~takeRolls /\ s \notin deskFinal
    /\ s \in DOMAIN statuses /\ ~statuses[s].complete

orphanCandidate(s) ==
    /\ ~takeRolls /\ s \notin deskFinal
    /\ s \in DOMAIN statuses /\ ~statuses[s].final /\ ~statuses[s].complete

StatusInit ==
    /\ kept = [s \in StatusStream |-> [row |-> FALSE, chunks |-> {}, gaps |-> {}, final |-> FALSE]]
    /\ deskFinal = {} /\ takeRolls = TRUE
    /\ ticks = {} /\ statuses = [s \in {} |-> 0] /\ latched = FALSE
    /\ since = [s \in StatusStream |-> NotSince] /\ orphaned = {}
    /\ clock = 0 /\ pollTrouble = 0

ArchiveUnchanged == UNCHANGED <<kept, deskFinal, takeRolls>>
PollUnchanged == UNCHANGED <<ticks, statuses, latched>>
ViewUnchanged == UNCHANGED <<since, orphaned, clock>>

\* A chunk or a gap declaration is archived, with the stream's row when it is the first.
ChunkKept(s, i) ==
    /\ i \notin kept[s].chunks
    /\ kept' = [kept EXCEPT ![s].row = TRUE, ![s].chunks = @ \cup {i}]
    /\ UNCHANGED <<deskFinal, takeRolls, pollTrouble>> /\ PollUnchanged /\ ViewUnchanged
GapKept(s, i) ==
    /\ i \notin kept[s].chunks \cup kept[s].gaps
    /\ kept' = [kept EXCEPT ![s].row = TRUE, ![s].gaps = @ \cup {i}]
    /\ UNCHANGED <<deskFinal, takeRolls, pollTrouble>> /\ PollUnchanged /\ ViewUnchanged

\* The phone ends its stream; the desk hears of it or not.
FinalKept(s, heard) ==
    /\ ~kept[s].final
    /\ kept' = [kept EXCEPT ![s].row = TRUE, ![s].final = TRUE]
    /\ deskFinal' = IF heard THEN deskFinal \cup {s} ELSE deskFinal
    /\ UNCHANGED <<takeRolls, pollTrouble>> /\ PollUnchanged /\ ViewUnchanged

TakeStopped ==
    /\ takeRolls /\ takeRolls' = FALSE
    /\ UNCHANGED <<kept, deskFinal, pollTrouble>> /\ PollUnchanged /\ ViewUnchanged

\* The server reads the take for a tick.
PollTick ==
    /\ ~latched /\ Cardinality(ticks) < MaxTicks
    /\ ticks' = ticks \cup {takeSummary}
    /\ UNCHANGED <<statuses, latched, pollTrouble>> /\ ArchiveUnchanged /\ ViewUnchanged

AnswerShown(a) ==
    /\ latched' = (latched \/ (DOMAIN a # {} /\ \A s \in DOMAIN a : a[s].complete))
    /\ statuses' = [s \in DOMAIN statuses \cup DOMAIN a |-> IF s \in DOMAIN a THEN a[s] ELSE statuses[s]]
    /\ ticks' = ticks \ {a}
    /\ UNCHANGED pollTrouble /\ ArchiveUnchanged /\ ViewUnchanged

\* A request fails, or the set of takes changes and the effect restarts.
PollTrouble ==
    /\ pollTrouble < MaxPollTrouble /\ pollTrouble' = pollTrouble + 1
    /\ \/ \E a \in ticks : ticks' = ticks \ {a}
       \/ ticks # {} /\ ticks' = {}
    /\ UNCHANGED <<statuses, latched>> /\ ArchiveUnchanged /\ ViewUnchanged

\* A render of the desk, time passed or not; time stands still once every hold is over.
useOrphanedStreams(now) ==
    /\ clock' = now
    /\ since' = [s \in StatusStream |->
                    IF ~orphanCandidate(s) THEN NotSince
                    ELSE IF since[s] = NotSince THEN now ELSE since[s]]
    /\ orphaned' = {s \in StatusStream : orphanCandidate(s) /\ now - since'[s] >= OrphanHold}
    /\ UNCHANGED pollTrouble /\ ArchiveUnchanged /\ PollUnchanged

StatusNext ==
    \/ \E s \in StatusStream, i \in Chunk : ChunkKept(s, i) \/ GapKept(s, i)
    \/ \E s \in StatusStream, heard \in BOOLEAN : FinalKept(s, heard)
    \/ TakeStopped \/ PollTick \/ PollTrouble
    \/ \E a \in ticks : AnswerShown(a)
    \/ \E now \in clock..MaxNow : useOrphanedStreams(now)

\* The interval ticks, requests end, and the desk renders at least once a second.
StatusFairness ==
    /\ WF_statusVars(PollTick) /\ WF_statusVars(\E a \in ticks : AnswerShown(a))
    /\ WF_statusVars(useOrphanedStreams(clock))

(***************************************************************************)
(* Properties.                                                             *)
(***************************************************************************)
\* A stream the desk shows as complete is whole in the archive: declared gaps, which
\* settle a stream, are not audio (archive/read.ts complete and settled).
CompleteIsWhole ==
    \A s \in DOMAIN statuses : statuses[s].complete => kept[s].final /\ kept[s].chunks = Chunk

\* The orphan verdict heals itself: once the archive has the end of a stream, the desk
\* stops calling it an orphan, its own sink told or not, its chunks complete or not
\* (track-model.ts: "Self-healing").  It needs MaxTicks = 1: requests that answer within
\* a tick.  (The archive never loses the end, so this is "leads to".)
OrphanHeals == \A s \in StatusStream : []<>(kept[s].final => s \notin orphaned)

\* What use-server-status.ts says: a settled take's statuses latch.
StatusLatches == latched => \A s \in DOMAIN statuses : statuses[s].complete

\* The desk's view of the archive is true where it says complete, and heals where it
\* said orphaned.
ShownAsArchived == []CompleteIsWhole /\ OrphanHeals
=============================================================================
