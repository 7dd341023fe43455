--------------------------- MODULE SessionPlayer ---------------------------
(***************************************************************************)
(* The desk's playback engine (apps/web/src/routes/desk/player.ts), the    *)
(* latest-wins queue that loads takes into it (take-load.ts,               *)
(* load-queue.ts) and the desk's effects that feed it a session plan.      *)
(*                                                                         *)
(* Time is counted in ticks of the session timeline.  A clip is its        *)
(* arrangement start; its region list, if it was split, moves with it.  An *)
(* alignment verdict is a number: 0 is "never measured", two different     *)
(* numbers trim differently.  `al` of a track is the verdict in force, and *)
(* a source carries the start and the verdict it was planned with.         *)
(*                                                                         *)
(* Loads, look-ahead decodes, runs, edits and deletions meet in any order. *)
(* Where the code then leaves what is heard and what is drawn apart, the   *)
(* step that does it marks the streams concerned in a history variable,    *)
(* and the properties except these.                                        *)
(***************************************************************************)
EXTENDS Naturals, FiniteSets, Sequences, SequencesExt

CONSTANTS
    Take, NoTake,
    StreamsOf,      \* StreamsOf[t]: the streams of take t, in load order
    LenOf,          \* LenOf[s]: the length of stream s, in ticks
    StartAt,        \* StartAt[s]: where the desk first lays stream s
    OtherStart,     \* OtherStart[s]: where an edit may move the clip of s
    Deletable,      \* the streams that may be deleted
    Lookahead,      \* LOOKAHEAD_SEC
    Margin,         \* RELEASE_MARGIN_SEC
    Verdict,        \* the verdicts a measurement may return
    Declined,       \* the one that places nothing
    MaxRequests, MaxEdits       \* bounds; a seek counts as an edit

StreamsIn == [t \in Take |-> ToSet(StreamsOf[t])]
Stream == UNION {StreamsIn[t] : t \in Take}
TakeOf == [s \in Stream |-> CHOOSE t \in Take : s \in StreamsIn[t]]

NoTrack == [at |-> 0, al |-> 0, on |-> FALSE]
Off == 1000     \* a stream the plan does not hold

ASSUME PlayerAssumption ==
    /\ Lookahead \in Nat /\ Margin \in Nat
    /\ Verdict \subseteq Nat \ {0} /\ Declined \in Nat \ {0}
    /\ IsFiniteSet(Take) /\ NoTake \notin Take
    /\ \A t \in Take : StreamsOf[t] \in Seq(Stream)
    /\ \A t, u \in Take : t # u => StreamsIn[t] \cap StreamsIn[u] = {}
    /\ \A s \in Stream : LenOf[s] \in Nat \ {0}
    /\ StartAt \in [Stream -> Nat \ {Off}] /\ OtherStart \in [Stream -> SUBSET (Nat \ {Off})]

VARIABLES
    player,     \* tracks, sources, session plan, loaded take, transport
    archived,   \* the streams the sink can still assemble
    load,       \* the load in flight
    ahead,      \* the look-ahead decode in flight
    run,        \* the align() run in flight
    job, next,  \* the queue's running and its one pending request
    settled,    \* the requests whose caller heard of an outcome
    asked,      \* how many requests were made
    stored,     \* stored[s]: the persisted verdict
    picked,     \* the take the desk has selected
    edits,
    \* History: sets of streams, read by the properties only.
    twice,      \* a look-ahead decode mounted it over a track that was rolling
    adrift,     \* scheduled with a verdict that a run was still changing, or
                \* rolling when a run that changed its verdict threw
    missed,     \* its clip moved while a decode held its track
    revived,    \* deleted while a decode held its track
    owed        \* the player refused its stored verdict, skipped it, or was left
                \* with another by a run that threw

marks == <<twice, adrift, missed, revived, owed>>

playerVars == <<player, archived, load, ahead, run, job, next,
                settled, asked, stored, picked, edits, marks>>

NoLoad == [take |-> NoTake, todo |-> {}, got |-> [s \in Stream |-> NoTrack]]
NoRun == [take |-> NoTake, todo |-> {}, again |-> {}, lost |-> {},
          before |-> [s \in Stream |-> NoTrack]]
NoJob == [id |-> 0, take |-> NoTake, force |-> FALSE, want |-> {},
          phase |-> "idle", ok |-> FALSE]

(***************************************************************************)
(* The mount window's accessors.                                           *)
(***************************************************************************)
takeTracks(p, t) == {s \in StreamsIn[t] : p.tracks[s].on}
loadedTracks(p) == IF p.loaded = NoTake THEN {} ELSE takeTracks(p, p.loaded)
mountedTakeIds(p) == {TakeOf[s] : s \in {x \in Stream : p.tracks[x].on}}
Planned(p, t) == {s \in StreamsIn[t] : p.plan[s] # Off}

Least(S) == CHOOSE x \in S : \A y \in S : x <= y
Most(S) == CHOOSE x \in S : \A y \in S : x >= y

\* Streams are decoded and measured one by one, in their take's order.
FirstOf(t, S) == StreamsOf[t][Least({i \in DOMAIN StreamsOf[t] : StreamsOf[t][i] \in S})]

takeBaseSec(p, t) ==
    LET here == takeTracks(p, t)
    IN  IF here # {} THEN Least({p.tracks[s].at : s \in here})
        ELSE IF Planned(p, t) # {} THEN Least({p.plan[s] : s \in Planned(p, t)}) ELSE 0

takeEndSec(p, t) ==
    LET here == takeTracks(p, t)
    IN  IF here # {} THEN Most({p.tracks[s].at + LenOf[s] : s \in here})
        ELSE IF Planned(p, t) # {} THEN Most({p.plan[s] + LenOf[s] : s \in Planned(p, t)})
        ELSE 0

takeSpans(p) ==
    {TakeOf[s] : s \in {x \in Stream : p.plan[x] # Off}} \cup mountedTakeIds(p)

duration(p) == Most({0} \cup {takeEndSec(p, t) : t \in takeSpans(p)})

position(p) ==
    IF ~p.playing THEN p.startPos
    ELSE Least({duration(p), p.startPos + p.elapsed})

takesToRelease(p) ==
    LET now == position(p)
    IN  {t \in mountedTakeIds(p) \ {p.loaded} : takeEndSec(p, t) + Margin < now}

takesToMount(p, mounted) ==
    LET now == position(p)
        near == {t \in takeSpans(p) \ mounted :
                    takeEndSec(p, t) > now /\ takeBaseSec(p, t) < now + Lookahead}
    IN  {t \in near : \A u \in near : takeBaseSec(p, t) <= takeBaseSec(p, u)}

(***************************************************************************)
(* Scheduling.  A source is planned from its track as it is now; a track   *)
(* with no audio at or after the position gets none.                       *)
(***************************************************************************)
stopSources(p) == [p EXCEPT !.sources = [s \in Stream |-> <<>>]]

SourceOf(track) == [at |-> track.at, al |-> track.al]

PlannedSources(p, S, from) ==
    [s \in Stream |->
        IF s \in S /\ p.tracks[s].on /\ p.tracks[s].at + LenOf[s] > from
        THEN Append(p.sources[s], SourceOf(p.tracks[s])) ELSE p.sources[s]]

schedule(p, from) ==
    [p EXCEPT !.sources = PlannedSources(p, Stream, from),
              !.startPos = from, !.elapsed = 0, !.playing = TRUE]

reschedule(p) == IF p.playing THEN schedule(stopSources(p), position(p)) ELSE p

\* A late mount starts at the position of now, an early one at its own start.
scheduleTake(p, t) ==
    [p EXCEPT !.sources =
        PlannedSources(p, StreamsIn[t], p.startPos + p.elapsed)]

pause(p) ==
    IF ~p.playing THEN p
    ELSE [stopSources(p) EXCEPT !.startPos = position(p), !.elapsed = 0,
                                !.playing = FALSE]

unmountTakes(p, T) ==
    LET gone == UNION {StreamsIn[t] : t \in T}
    IN  [p EXCEPT !.tracks = [s \in Stream |-> IF s \in gone THEN NoTrack ELSE @[s]],
                  !.sources = [s \in Stream |-> IF s \in gone THEN <<>> ELSE @[s]]]

\* mountTrack reads the clip's place from the plan of this moment.
mountTrack(s, verdict) ==
    [at |-> IF player.plan[s] = Off THEN 0 ELSE player.plan[s],
     al |-> verdict, on |-> TRUE]

\* Takes safely behind the playhead give their buffers back ...
released(p) == unmountTakes(p, takesToRelease(p))

\* ... and the nearest missing one starts to decode, one at a time.
ensureLookahead(p) ==
    LET wanted == takesToMount(p, mountedTakeIds(released(p)))
    IN  IF ahead.take # NoTake \/ wanted = {} THEN UNCHANGED ahead
        ELSE \E t \in wanted :
                ahead' = [NoLoad EXCEPT !.take = t, !.todo = Planned(p, t)]

(***************************************************************************)
(* Event handlers run to completion: none runs between the end of a load   *)
(* and the continuation that awaits it.                                    *)
(***************************************************************************)
AtRest == job.phase # "loaded"
playerLoaded == player.loaded = picked /\ loadedTracks(player) # {}
playActionReady == playerLoaded /\ load = NoLoad
Held == {s \in Stream : load.got[s].on \/ ahead.got[s].on}
Fingerprint(p) == [s \in Stream |-> IF s \in loadedTracks(p) THEN p.tracks[s] ELSE NoTrack]

\* What sounds was planned anew, from the tracks as they are now.
Replanned ==
    /\ twice' = {}
    /\ adrift' = IF run = NoRun THEN {} ELSE StreamsIn[run.take]

PlayerInit ==
    /\ player = [tracks |-> [s \in Stream |-> NoTrack],
                 sources |-> [s \in Stream |-> <<>>], plan |-> StartAt,
                 loaded |-> NoTake, playing |-> FALSE, startPos |-> 0, elapsed |-> 0]
    /\ archived = Stream
    /\ load = NoLoad /\ ahead = NoLoad /\ run = NoRun
    /\ job = NoJob /\ next = NoJob /\ settled = {} /\ asked = 0
    /\ stored = [s \in Stream |-> 0] /\ picked = NoTake
    /\ edits = 0
    /\ twice = {} /\ adrift = {} /\ missed = {} /\ revived = {} /\ owed = {}

(***************************************************************************)
(* The load queue.                                                         *)
(***************************************************************************)
\* load(): already loaded, promoted from the look-ahead, or decoded.
BeginLoad(p, j) ==
    \E q \in {pause(p)} :
    LET t == j.take
        only == unmountTakes(q, mountedTakeIds(q) \ {t})
        mounted == \A s \in j.want : p.tracks[s].on
    IN  IF mounted
        THEN /\ player' = IF p.loaded = t THEN p
                          ELSE [only EXCEPT !.loaded = t,
                                            !.startPos = takeBaseSec(only, t)]
             /\ load' = NoLoad
             /\ job' = [j EXCEPT !.phase = "loaded", !.ok = TRUE]
        ELSE /\ player' = q
             /\ load' = [NoLoad EXCEPT !.take = t, !.todo = j.want]
             /\ job' = [j EXCEPT !.phase = "load", !.ok = FALSE]

\* LoadQueue.request: the newest pending request replaces the older one,
\* whose caller is told.
RequestLoad(t, force) ==
    LET want == StreamsIn[t] \cap archived
        req == [id |-> asked + 1, take |-> t, force |-> force, want |-> want,
                phase |-> "queued", ok |-> FALSE]
    IN  /\ AtRest /\ asked < MaxRequests /\ want # {}
        /\ asked' = asked + 1 /\ picked' = t
        /\ IF job.id # 0
           THEN /\ next' = req
                /\ settled' = settled \cup ({next.id} \ {0})
                /\ UNCHANGED <<player, load, job>>
           ELSE BeginLoad(player, req) /\ UNCHANGED <<next, settled>>
        /\ UNCHANGED <<archived, ahead, run, stored, edits, marks>>

\* The desk loads the take it selects, as soon as that take is complete ...
PickTake(t) == t # picked /\ RequestLoad(t, FALSE)

\* ... and re-measures the selected one on demand.
AutoAlign ==
    /\ picked # NoTake /\ run = NoRun /\ player.loaded = picked
    /\ RequestLoad(picked, TRUE)

\* Mutant: the caller of a load that a newer request cut short is not told.
FinishJobSilently(ended) ==
    /\ settled' = IF next.id # 0 THEN settled ELSE settled \cup {job.id}
    /\ next' = NoJob
    /\ \E p \in {ended} :
       IF next.id # 0 THEN BeginLoad(p, next)
       ELSE player' = p /\ job' = NoJob /\ load' = NoLoad

\* drain: the pending request follows the one that ended.
FinishJob(ended) ==
    /\ settled' = settled \cup {job.id}
    /\ next' = NoJob
    /\ \E p \in {ended} :
       IF next.id # 0 THEN BeginLoad(p, next)
       ELSE player' = p /\ job' = NoJob /\ load' = NoLoad

\* One stream assembled and decoded; the last one swaps the mounted set.
LoadDecoded ==
    /\ load.take # NoTake
    /\ LET s == FirstOf(load.take, load.todo)
           got == IF s \in archived
                  THEN [load.got EXCEPT ![s] = mountTrack(s, player.tracks[s].al)]
                  ELSE load.got
           swapped == [player EXCEPT !.tracks = got, !.loaded = load.take]
       IN  IF load.todo # {s}
           THEN /\ load' = [load EXCEPT !.todo = @ \ {s}, !.got = got]
                /\ UNCHANGED <<player, job>>
           ELSE /\ player' = [swapped EXCEPT !.startPos = takeBaseSec(swapped, load.take)]
                /\ load' = NoLoad
                /\ job' = [job EXCEPT !.phase = "loaded",
                                      !.ok = \E x \in Stream : got[x].on]
    /\ UNCHANGED <<archived, ahead, run, next, settled, asked, stored, picked,
                   edits, marks>>

LoadFails ==
    /\ load.take # NoTake
    /\ load' = NoLoad
    /\ job' = [job EXCEPT !.phase = "loaded", !.ok = FALSE]
    /\ UNCHANGED <<player, archived, ahead, run, next, settled, asked, stored,
                   picked, edits, marks>>

\* restoreAlignment: a stored verdict that differs from the one in force wins.
Restored(p) ==
    LET differs(s) == s \in loadedTracks(p) /\ stored[s] \notin {0, p.tracks[s].al}
        q == [p EXCEPT !.tracks = [s \in Stream |->
                IF differs(s) THEN [@[s] EXCEPT !.al = stored[s]] ELSE @[s]]]
    IN  IF \E s \in Stream : differs(s) THEN reschedule(q) ELSE q

\* The job's continuation: restore first, then measure what is unmeasured.  A
\* load that a newer request has superseded is not even restored.
JobLoaded ==
    /\ job.phase = "loaded"
    /\ \E p \in {Restored(player)} :
       LET measure == /\ loadedTracks(p) # {}
                      /\ job.force \/ \E s \in loadedTracks(p) : p.tracks[s].al = 0
       IN  IF ~job.ok THEN FinishJob(player) /\ UNCHANGED <<run, marks>>
           ELSE IF next.id # 0
           THEN /\ FinishJob(player)
                /\ owed' = owed \cup loadedTracks(player)
                /\ UNCHANGED <<run, twice, adrift, missed, revived>>
           ELSE /\ IF ~measure THEN FinishJob(p) /\ UNCHANGED run
                   ELSE /\ player' = p
                        /\ run' = [NoRun EXCEPT !.take = p.loaded,
                                                !.todo = loadedTracks(p),
                                                !.before = Fingerprint(p)]
                        /\ job' = [job EXCEPT !.phase = "align"]
                        /\ UNCHANGED <<load, next, settled>>
                /\ owed' = owed \ loadedTracks(p)
                /\ IF p # player THEN Replanned ELSE UNCHANGED <<twice, adrift>>
                /\ UNCHANGED <<missed, revived>>
    /\ UNCHANGED <<archived, ahead, asked, stored, picked, edits>>

(***************************************************************************)
(* align().  The chirp pass measures every loaded track; those it did not  *)
(* place get a second, content pass.  A pass holds the track objects it    *)
(* began with: what it finds for one that was replaced meanwhile is lost.  *)
(***************************************************************************)
Measured(s, v) ==
    IF player.tracks[s].on /\ s \notin run.lost
    THEN [player EXCEPT !.tracks[s].al = v] ELSE player

\* What the content pass takes up: nothing, if there is no other to compare with.
Unplaced(p) ==
    IF Cardinality(loadedTracks(p)) < 2 THEN {}
    ELSE {s \in loadedTracks(p) : p.tracks[s].al \in {0, Declined}}

AlignPass(v) ==
    /\ run.todo # {}
    /\ LET s == FirstOf(run.take, run.todo)
           p == Measured(s, v)
       IN  /\ player' = p
           /\ run' = IF run.todo # {s} THEN [run EXCEPT !.todo = @ \ {s}]
                     ELSE [run EXCEPT !.todo = {}, !.again = Unplaced(p), !.lost = {}]
    /\ UNCHANGED <<archived, load, ahead, job, next, settled, asked, stored,
                   picked, edits, marks>>

\* Content that matches nothing leaves the track as it is.
ContentPass(v) ==
    /\ run.todo = {} /\ run.again # {}
    /\ LET s == FirstOf(run.take, run.again)
       IN  /\ player' = Measured(s, v) \/ UNCHANGED player
           /\ run' = [run EXCEPT !.again = @ \ {s}]
    /\ UNCHANGED <<archived, load, ahead, job, next, settled, asked, stored,
                   picked, edits, marks>>

\* Mutant: a verdict once stored is not written again.
AlignFinishOnce ==
    /\ run.take # NoTake /\ run.todo = {} /\ run.again = {}
    /\ FinishJob(IF Fingerprint(player) # run.before THEN reschedule(player) ELSE player)
    /\ stored' = [s \in Stream |-> IF s \in loadedTracks(player) /\ stored[s] = 0
                                   THEN player.tracks[s].al ELSE stored[s]]
    /\ run' = NoRun
    /\ owed' = owed \ loadedTracks(player)
    /\ IF Fingerprint(player) # run.before THEN twice' = {} /\ adrift' = {}
       ELSE UNCHANGED <<twice, adrift>>
    /\ UNCHANGED <<archived, ahead, asked, picked, edits, missed, revived>>

\* The end of a run: re-schedule only if a timing changed, then persist.
AlignFinish ==
    /\ run.take # NoTake /\ run.todo = {} /\ run.again = {}
    /\ LET changed == Fingerprint(player) # run.before
           settles == {s \in loadedTracks(player) : player.tracks[s].al # 0}
       IN  /\ FinishJob(IF changed THEN reschedule(player) ELSE player)
           /\ stored' = [s \in Stream |-> IF s \in settles THEN player.tracks[s].al
                                          ELSE stored[s]]
           /\ owed' = owed \ settles
           /\ IF changed THEN twice' = {} /\ adrift' = {} ELSE UNCHANGED <<twice, adrift>>
    /\ run' = NoRun
    /\ UNCHANGED <<archived, ahead, asked, picked, edits, missed, revived>>

\* A wasm error ends the run where it stands; the catch only notes it: nothing is
\* scheduled anew, and nobody persists what the passes have written.
AlignThrows ==
    /\ run.take # NoTake
    /\ LET changed == {s \in loadedTracks(player) :
                         player.tracks[s].al # run.before[s].al}
       IN  adrift' = adrift \cup changed /\ owed' = owed \cup changed
    /\ FinishJob(player) /\ run' = NoRun
    /\ UNCHANGED <<archived, ahead, asked, stored, picked, edits,
                   twice, missed, revived>>

(***************************************************************************)
(* The look-ahead decode.                                                  *)
(***************************************************************************)
\* Registered only if the plan still holds the take, over whatever a load may have
\* mounted meanwhile; the stored verdict is in force before the first schedule.
AheadDecoded ==
    /\ ahead.take # NoTake
    /\ LET t == ahead.take
           s == FirstOf(t, ahead.todo)
           got == [ahead.got EXCEPT ![s] = mountTrack(s, 0)]
           new == {x \in Stream : got[x].on}
           mounted == [player EXCEPT !.tracks = [x \in Stream |->
                         IF got[x].on THEN [got[x] EXCEPT !.al = stored[x]] ELSE @[x]]]
       IN  \/ /\ s \in archived /\ ahead.todo # {s}
              /\ ahead' = [ahead EXCEPT !.todo = @ \ {s}, !.got = got]
              /\ UNCHANGED <<player, run, twice, adrift>>
           \/ /\ s \notin archived \/ (ahead.todo = {s} /\ Planned(player, t) = {})
              /\ ahead' = NoLoad
              /\ UNCHANGED <<player, run, twice, adrift>>
           \/ /\ s \in archived /\ ahead.todo = {s} /\ Planned(player, t) # {}
              /\ ahead' = NoLoad
              /\ player' = IF player.playing THEN scheduleTake(mounted, t) ELSE mounted
              /\ run' = IF run.take = t THEN [run EXCEPT !.lost = @ \cup new] ELSE run
              /\ twice' = IF player.playing THEN twice \cup takeTracks(player, t) ELSE twice
              /\ adrift' = IF player.playing /\ run.take = t THEN adrift \cup new ELSE adrift
    /\ UNCHANGED <<archived, load, job, next, settled, asked, stored, picked, edits,
                   missed, revived, owed>>

AheadFails ==
    /\ ahead.take # NoTake
    /\ ahead' = NoLoad
    /\ UNCHANGED <<player, archived, load, run, job, next, settled, asked, stored,
                   picked, edits, marks>>

(***************************************************************************)
(* The transport.                                                          *)
(***************************************************************************)
\* The Play button and the space bar share one gate (playActionReady).
Play ==
    /\ AtRest /\ playActionReady /\ ~player.playing
    /\ LET from == IF player.startPos >= duration(player) THEN 0 ELSE player.startPos
           p == schedule(stopSources(player), from)
       IN  player' = released(p) /\ ensureLookahead(p)
    /\ Replanned
    /\ UNCHANGED <<archived, load, run, job, next, settled, asked, stored, picked,
                   edits, missed, revived, owed>>

Pause ==
    /\ AtRest /\ player.playing /\ playActionReady
    /\ player' = pause(player)
    /\ UNCHANGED <<archived, load, ahead, run, job, next, settled, asked, stored,
                   picked, edits, marks>>

Seek(to) ==
    /\ AtRest /\ playerLoaded /\ edits < MaxEdits
    /\ LET clamped == Least({to, duration(player)})
           p == IF player.playing THEN schedule(stopSources(player), clamped)
                ELSE [player EXCEPT !.startPos = clamped]
       IN  player' = released(p) /\ ensureLookahead(p)
    /\ edits' = edits + 1
    /\ Replanned
    /\ UNCHANGED <<archived, load, run, job, next, settled, asked, stored, picked,
                   missed, revived, owed>>

\* A tick of the context clock and the meter loop that follows it.
Tick ==
    /\ AtRest /\ player.playing
    /\ LET p == [player EXCEPT !.elapsed = @ + 1]
           q == released(p)
       IN  /\ ensureLookahead(p)
           /\ player' = IF position(q) >= duration(q) THEN pause(q) ELSE q
    /\ UNCHANGED <<archived, load, run, job, next, settled, asked, stored, picked,
                   edits, marks>>

(***************************************************************************)
(* What happens around the player: clips move, streams are deleted, another*)
(* desk's verdict arrives.                                                 *)
(***************************************************************************)

\* Mounted tracks are pointed at their new places, not those a decode holds.
setSessionPlan(newPlan) ==
    LET known == [player EXCEPT !.plan = newPlan]
        kept == unmountTakes(known, {t \in mountedTakeIds(known) :
                                        Planned(known, t) = {} /\ t # known.loaded})
        moved == {s \in Stream : /\ kept.tracks[s].on
                                 /\ newPlan[s] \notin {Off, kept.tracks[s].at}}
        pointed == [kept EXCEPT !.tracks = [s \in Stream |->
                      IF s \in moved THEN [@[s] EXCEPT !.at = newPlan[s]] ELSE @[s]]]
    IN  /\ player' = IF moved # {} THEN reschedule(pointed) ELSE pointed
        /\ IF moved # {} THEN Replanned ELSE UNCHANGED <<twice, adrift>>
        /\ missed' = {s \in Held : newPlan[s] # Off /\ \E got \in {load.got, ahead.got} :
                                       got[s].on /\ got[s].at # newPlan[s]}

MoveClip(s, at) ==
    /\ AtRest /\ s \in archived /\ at # player.plan[s] /\ edits < MaxEdits
    /\ setSessionPlan([player.plan EXCEPT ![s] = at])
    /\ edits' = edits + 1
    /\ UNCHANGED <<archived, load, ahead, run, job, next, settled, asked, stored, picked,
                   revived, owed>>

\* streams-deleted: the sink drops the stream and removeTracks runs at once, on
\* what is mounted.
DeleteStream(s) ==
    /\ AtRest /\ s \in archived \cap Deletable /\ edits < MaxEdits
    /\ LET p == [player EXCEPT !.tracks[s] = NoTrack, !.sources[s] = <<>>]
       IN  IF ~player.tracks[s].on THEN UNCHANGED <<player, twice, adrift>>
           ELSE /\ player' = IF loadedTracks(p) = {}
                             THEN [pause(p) EXCEPT !.loaded = NoTake, !.startPos = 0]
                             ELSE reschedule(p)
                /\ Replanned
    /\ archived' = archived \ {s}
    /\ revived' = revived \cup ({s} \cap Held)
    /\ edits' = edits + 1
    /\ UNCHANGED <<load, ahead, run, job, next, settled, asked, stored, picked,
                   missed, owed>>

\* The next status poll re-derives the plan without it.
DropDeleted(s) ==
    /\ AtRest /\ s \notin archived /\ player.plan[s] # Off
    /\ setSessionPlan([player.plan EXCEPT ![s] = Off])
    /\ UNCHANGED <<archived, load, ahead, run, job, next, settled, asked, stored,
                   picked, edits, revived, owed>>

\* The document has another desk's verdict: put in force in the loaded take, unless
\* the player decodes or measures.
RemoteVerdict(t, v) ==
    /\ AtRest /\ edits < MaxEdits
    /\ stored' = [s \in Stream |-> IF TakeOf[s] = t THEN v ELSE stored[s]]
    /\ \/ player.loaded # t /\ UNCHANGED <<player, marks>>
       \/ /\ player.loaded = t /\ (run # NoRun \/ load # NoLoad)
          /\ owed' = owed \cup StreamsIn[t]
          /\ UNCHANGED <<player, twice, adrift, missed, revived>>
       \/ /\ player.loaded = t /\ run = NoRun /\ load = NoLoad
          /\ LET q == [player EXCEPT !.tracks = [s \in Stream |->
                         IF s \in takeTracks(player, t)
                         THEN [@[s] EXCEPT !.al = v] ELSE @[s]]]
             IN  IF q # player THEN player' = reschedule(q) /\ Replanned
                 ELSE UNCHANGED <<player, twice, adrift>>
          /\ owed' = owed \ takeTracks(player, t)
          /\ UNCHANGED <<missed, revived>>
    /\ edits' = edits + 1
    /\ UNCHANGED <<archived, load, ahead, run, job, next, settled, asked, picked>>

QueueStep ==
    \/ LoadDecoded
    \/ JobLoaded
    \/ \E v \in Verdict \cup {Declined} : AlignPass(v) \/ ContentPass(v)
    \/ AlignFinish

PlayerNext ==
    \/ QueueStep
    \/ \E t \in Take : PickTake(t)
    \/ AutoAlign
    \/ LoadFails \/ AlignThrows
    \/ AheadDecoded \/ AheadFails
    \/ Play \/ Pause \/ Tick
    \/ \E to \in {StartAt[s] : s \in Stream} : Seek(to)
    \/ \E s \in Stream : \E at \in OtherStart[s] : MoveClip(s, at)
    \/ \E s \in Stream : DeleteStream(s) \/ DropDeleted(s)
    \/ \E t \in Take : \E v \in Verdict : RemoteVerdict(t, v)

(***************************************************************************)
(* Properties.                                                             *)
(***************************************************************************)
\* Every field keeps to its values; one load, one run, one look-ahead.
PlayerTypeOK ==
    /\ player.loaded \in Take \cup {NoTake} /\ player.playing \in BOOLEAN
    /\ DOMAIN player.tracks = Stream /\ DOMAIN player.sources = Stream
    /\ job.phase \in {"idle", "load", "loaded", "align"}
    /\ (load.take # NoTake) <=> (job.phase = "load")
    /\ (run.take # NoTake) <=> (job.phase = "align")
    /\ settled \subseteq 1..asked

\* "Never re-scheduling what is already rolling" (player.ts): no stream has
\* two rolling sources, whatever was decoded, promoted or re-scheduled.
NeverDoubled == \A s \in Stream : Len(player.sources[s]) <= 1

\* The part of it that holds: a late look-ahead decode of a take that was loaded
\* and played meanwhile is heard over it.
SoundsOnce == \A s \in Stream \ twice : Len(player.sources[s]) <= 1

\* What sounds is what is drawn: a rolling source was planned with the clip start
\* and the verdict its track shows now, unless a run is measuring its take.
HeardIsDrawn ==
    \A s \in Stream \ (twice \cup adrift) : TakeOf[s] # run.take =>
        \A i \in DOMAIN player.sources[s] :
            player.tracks[s].on /\ player.sources[s][i] = SourceOf(player.tracks[s])

\* Nothing mounted is silent: while the transport rolls, a track with audio
\* still to come has its source, however late its decode landed.
NothingSilent ==
    player.playing =>
        LET now == position(player)
        IN  \A s \in Stream :
                player.tracks[s].on /\ player.tracks[s].at + LenOf[s] > now
                => player.sources[s] # <<>>

\* A mounted clip plays where the arrangement puts it, but for one that moved
\* after a decode had planned its track; the next edit of any clip mends it.
MountedAtPlan ==
    \A s \in Stream \ missed : player.tracks[s].on /\ player.plan[s] # Off
                               => player.tracks[s].at = player.plan[s]

\* A deleted stream is not mounted again, unless a decode held it already.
DeletedIsGone == \A s \in Stream \ revived : player.tracks[s].on => s \in archived

\* With the queue at rest and the selected take up, the persisted verdict is
\* the one in force, whoever measured last; but for what the player is owed.
VerdictInForce ==
    job.id = 0 /\ playerLoaded =>
        \A s \in loadedTracks(player) \ owed :
            stored[s] # 0 => player.tracks[s].al = stored[s]

\* Nobody waits forever: every load request is answered, whether it ran,
\* was superseded while it ran, was replaced while it waited, or failed.
\* An answer stays given, so it is enough that time and again all have theirs.
EveryRequestSettles == []<>(1..asked \subseteq settled)

PlayerFairness == WF_playerVars(QueueStep)
PlayerSpec == PlayerInit /\ [][PlayerNext]_playerVars /\ PlayerFairness

\* What is heard is what the desk shows, whichever loads, look-ahead decodes, runs, edits,
\* deletions and verdicts meet while the transport rolls: every mounted clip sounds, and
\* but for the streams marked above once, where the arrangement has it and with the
\* verdict in force (player.ts).
PlaysAsShown ==
    /\ PlayerTypeOK /\ SoundsOnce /\ HeardIsDrawn /\ NothingSilent
    /\ MountedAtPlan /\ DeletedIsGone /\ VerdictInForce
=============================================================================
