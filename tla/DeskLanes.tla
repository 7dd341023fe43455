----------------------------- MODULE DeskLanes -----------------------------
(***************************************************************************)
(* The lanes of one desk page: track-model.ts (frozen ranks, moves),       *)
(* use-desk-rows.ts, attribution.ts and use-attribution.ts (what the       *)
(* archive knows of streams and peers), desk-session-state.ts (announced   *)
(* and seeded streams), and the laneOrder map of the shared document.      *)
(*                                                                         *)
(* A lane's key is its performer's peer id, or the stream's own id while   *)
(* nobody knows the performer.  The page renders after every change, and   *)
(* rendering freezes a rank for each lane seen for the first time.  The    *)
(* sink worker lists its streams in no particular order.  Requests for     *)
(* what the archive knows do not overtake one another.                     *)
(***************************************************************************)
EXTENDS Naturals, FiniteSets, FiniteSetsExt

CONSTANTS LanePeer, LaneStream, NoOwner,
          OwnerOf,        \* stream -> the peer that records it
          TakeWith,       \* stream -> its take
          JoinedAt,       \* peer -> its join time
          LaneFinished,   \* streams that end while the page looks
          RemoteOrders,   \* what another desk's move may leave in the map, once merged
          MaxLaneMoves,
          MaxLaneIncidents    \* departures, moves by other desks, reloads

LaneKey == LanePeer \cup LaneStream

\* Ids of peers and streams never coincide; a stream has one recorder.
ASSUME LaneAssumption ==
    /\ IsFiniteSet(LanePeer) /\ IsFiniteSet(LaneStream)
    /\ LanePeer \cap LaneStream = {} /\ NoOwner \notin LaneKey
    /\ OwnerOf \in [LaneStream -> LanePeer]
    /\ \A o \in RemoteOrders : \A k \in DOMAIN o : o[k] \in Nat

NoOrdinal == Cardinality(LaneKey)
NoOrder == [k \in LaneKey |-> NoOrdinal]
EmptyRanks == [k \in {} |-> 0]
Unpinned == EmptyRanks

VARIABLES
    page,       \* roster, list, status, attr, ready: what the rows are made of
    laneRanks,  \* lane key -> its frozen rank, from the first sight on
    asking,     \* [armed, fetched]: the attribution effect
    toldFinal,  \* streams whose final seq the sink worker was told
    learned,    \* streams an answer this page applied called final
    arch,       \* [takes, rows, owned, finals] of the server; it has met every peer
    order, orderServer, synced, \* the laneOrder map here and at the server
    pinned,     \* lane -> its place after the last move, while that stands
    moves, laneIncidents

laneVars == <<page, laneRanks, asking, toldFinal, learned, arch, order, orderServer, synced,
              pinned, moves, laneIncidents>>

(***************************************************************************)
(* The rows of a page.                                                     *)
(***************************************************************************)
peerByStream(pg, s) ==
    IF s \in pg.attr.owned \/ pg.list[s].owned THEN OwnerOf[s] ELSE NoOwner

\* A stream nobody can attribute waits for the first answer.
OnRows(pg) == {s \in pg.status : peerByStream(pg, s) # NoOwner \/ pg.ready}
KeyOf(pg, s) == IF peerByStream(pg, s) # NoOwner THEN peerByStream(pg, s) ELSE s
aliases(pg, k) == {s \in pg.status : peerByStream(pg, s) = k}
candidates(pg) == pg.roster \cup {KeyOf(pg, s) : s \in OnRows(pg)}
joinKnown(pg, k) == k \in pg.roster \/ (k \in pg.attr.peers /\ aliases(pg, k) # {})

\* First ranks for newcomers: by join time, then in the order they were seen in.
Assigned(from, pg, newcomers) ==
    LET Earlier(k, l) == joinKnown(pg, k) /\ (joinKnown(pg, l) => JoinedAt[k] < JoinedAt[l])
    IN  {[k \in newcomers |-> from + place[k]] :
         place \in {f \in [newcomers -> 0..Cardinality(newcomers)] :
                      /\ \A k \in newcomers : f[k] < Cardinality(newcomers)
                      /\ \A k, l \in newcomers : f[k] = f[l] => k = l
                      /\ \A k, l \in newcomers : Earlier(k, l) => f[k] < f[l]}}
nextRank(r) == IF DOMAIN r = {} THEN 0 ELSE Max({r[k] : k \in DOMAIN r}) + 1

\* Mutant: a re-keyed lane is ranked like a new one.
stableLaneOrderNoAlias(r, pg) ==
    {[k \in DOMAIN r \cup candidates(pg) |-> IF k \in DOMAIN r THEN r[k] ELSE new[k]] :
        new \in Assigned(nextRank(r), pg, candidates(pg) \ DOMAIN r)}

\* The laneRanks after a render, one function for every order the status may come in.  A
\* re-keyed lane takes over the earliest rank of its former keys.
stableLaneOrder(r, pg) ==
    LET fresh     == candidates(pg) \ DOMAIN r
        former(k) == aliases(pg, k) \cap DOMAIN r
        newcomers == {k \in fresh : former(k) = {}}
    IN  {[k \in DOMAIN r \cup fresh |->
            IF k \in DOMAIN r THEN r[k]
            ELSE IF k \in newcomers THEN new[k]
            ELSE Min({r[s] : s \in former(k)})] : new \in Assigned(nextRank(r), pg, newcomers)}

ordinalOf(o, pg, k) ==
    IF o[k] # NoOrdinal THEN o[k] ELSE Min({NoOrdinal} \cup {o[s] : s \in aliases(pg, k)})

\* Moved lanes first, by ordinal; ties and the others in frozen order.
applyLaneMoves(r, o, pg) ==
    LET at(k) == <<ordinalOf(o, pg, k), r[k]>>
        Before(k, l) == at(k)[1] < at(l)[1] \/ (at(k)[1] = at(l)[1] /\ at(k)[2] < at(l)[2])
    IN  [k \in candidates(pg) |-> Cardinality({l \in candidates(pg) : Before(l, k)})]

\* Lane -> its place on screen, 0 at the top.
rows == applyLaneMoves(laneRanks, order, page)

(***************************************************************************)
(* The attribution effect: it restarts when the set of takes the archive   *)
(* has not dated changes, and asks while one is left (or before the first  *)
(* answer).  The timer goes on until the next restart.                     *)
(***************************************************************************)
\* The active take is observed through its streams.
observedTakeIds(pg) ==
    {TakeWith[s] : s \in {x \in LaneStream : pg.list[x].known} \cup pg.status}
unknownKey(pg) == observedTakeIds(pg) \ pg.attr.takes

useSessionAttribution(old, new, ask) ==
    IF unknownKey(new) = unknownKey(old) THEN ask
    ELSE [ask EXCEPT !.armed = ~(ask.fetched /\ unknownKey(new) = {})]

\* What every change of the page ends with.
Rendered(pg, ask) ==
    /\ page' = pg
    /\ asking' = useSessionAttribution(page, pg, ask)
    /\ laneRanks' \in stableLaneOrder(laneRanks, pg)

sessionSummary == [takes |-> arch.takes, rows |-> arch.rows, owned |-> arch.owned,
                   finals |-> arch.finals, peers |-> LanePeer]
archivedStreamMetas(a) == [s \in a.rows |-> [known |-> TRUE, owned |-> s \in a.owned, final |-> s \in a.finals]]
buildAttribution(a) == [takes |-> a.takes, owned |-> a.owned, peers |-> a.peers]
emptyAttribution == [takes |-> {}, owned |-> {}, peers |-> {}]

\* The streams an answer tells the sink worker the end of.
archivedFinals(list, a) == {s \in a.rows \cap a.finals : ~(list[s].known /\ list[s].final)}

planStreamSeed(list, a) ==
    [s \in LaneStream |->
        IF s \notin a.rows THEN list[s]
        ELSE IF ~list[s].known THEN archivedStreamMetas(a)[s]
        ELSE [list[s] EXCEPT !.final = @ \/ s \in a.finals]]

BlankPage == [roster |-> {}, status |-> {}, ready |-> FALSE, attr |-> emptyAttribution,
              list |-> [s \in LaneStream |-> [known |-> FALSE, owned |-> FALSE, final |-> FALSE]]]
FirstAsk == [armed |-> TRUE, fetched |-> FALSE]

LaneInit ==
    /\ page = BlankPage /\ laneRanks = EmptyRanks /\ asking = FirstAsk
    /\ toldFinal = {} /\ learned = {}
    /\ arch = [takes |-> {}, rows |-> {}, owned |-> {}, finals |-> {}]
    /\ order = NoOrder /\ orderServer = NoOrder /\ synced = FALSE
    /\ pinned = Unpinned /\ moves = 0 /\ laneIncidents = 0

(***************************************************************************)
(* The session: phones come and go, streams are announced and archived.    *)
(***************************************************************************)
LaneIncident == laneIncidents < MaxLaneIncidents /\ laneIncidents' = laneIncidents + 1

RosterShows(p) ==
    /\ p \notin page.roster
    /\ Rendered([page EXCEPT !.roster = @ \cup {p}], asking)
    /\ UNCHANGED <<toldFinal, learned, arch, order, orderServer, synced, pinned, moves, laneIncidents>>

RosterDrops(p) ==
    /\ p \in page.roster /\ LaneIncident
    /\ Rendered([page EXCEPT !.roster = @ \ {p}], asking)
    /\ UNCHANGED <<toldFinal, learned, arch, order, orderServer, synced, pinned, moves>>

\* stream-announce, heard by this page; it may come again, on a rejoin.
upsertAnnouncedStream(s) ==
    /\ OwnerOf[s] \in page.roster
    /\ Rendered([page EXCEPT !.list[s] = [known |-> TRUE, owned |-> TRUE, final |-> FALSE]], asking)
    /\ UNCHANGED <<toldFinal, learned, arch, order, orderServer, synced, pinned, moves, laneIncidents>>

\* stream-final, heard by this page.
withStreamFinal(s) ==
    /\ s \in arch.finals /\ page.list[s].known /\ ~page.list[s].final
    /\ toldFinal' = toldFinal \cup {s}
    /\ Rendered([page EXCEPT !.list[s].final = TRUE], asking)
    /\ UNCHANGED <<learned, arch, order, orderServer, synced, pinned, moves, laneIncidents>>

\* The server's side: the take's and the stream's row, noteStream, setFinalSeq.
ArchiveGrows(s) ==
    /\ \/ /\ s \notin arch.rows
          /\ arch' = [arch EXCEPT !.rows = @ \cup {s}, !.takes = @ \cup {TakeWith[s]}]
       \/ s \in arch.rows \ arch.owned /\ arch' = [arch EXCEPT !.owned = @ \cup {s}]
       \/ s \in (arch.rows \cap LaneFinished) \ arch.finals /\ arch' = [arch EXCEPT !.finals = @ \cup {s}]
    /\ UNCHANGED <<page, laneRanks, asking, toldFinal, learned, order, orderServer, synced, pinned,
                   moves, laneIncidents>>

\* The sink worker's status: it holds chunks of s now.
StatusShows(s) ==
    /\ s \notin page.status
    /\ Rendered([page EXCEPT !.status = @ \cup {s}], asking)
    /\ UNCHANGED <<toldFinal, learned, arch, order, orderServer, synced, pinned, moves, laneIncidents>>

\* What an answer makes of the stream list: set-final for the worker, then the seeds.
seedArchivedStreams(list, a) == <<archivedFinals(list, a), planStreamSeed(list, a)>>

\* The server's answer: seedArchivedStreams, then setAttribution.
AnswerLands ==
    /\ asking.armed
    /\ toldFinal' = toldFinal \cup seedArchivedStreams(page.list, sessionSummary)[1]
    /\ learned' = learned \cup arch.finals
    /\ Rendered([page EXCEPT !.list = seedArchivedStreams(@, sessionSummary)[2],
                             !.attr = buildAttribution(sessionSummary), !.ready = TRUE],
                [asking EXCEPT !.fetched = TRUE])
    /\ UNCHANGED <<arch, order, orderServer, synced, pinned, moves, laneIncidents>>

\* The server is away, or answers an error.
FetchFails ==
    /\ asking.armed /\ ~page.ready
    /\ Rendered([page EXCEPT !.ready = TRUE], asking)
    /\ UNCHANGED <<toldFinal, learned, arch, order, orderServer, synced, pinned, moves, laneIncidents>>

(***************************************************************************)
(* Deliberate moves, and the page's life.                                  *)
(***************************************************************************)
\* writeNumberMap: a full replacement, one ordinal for each lane on screen.
writeLaneOrder(next) == [k \in LaneKey |-> IF k \in DOMAIN next THEN next[k] ELSE NoOrdinal]

Swapped(at, k, l) == [at EXCEPT ![k] = at[l], ![l] = at[k]]

moveLane(k, l) ==
    /\ moves < MaxLaneMoves /\ moves' = moves + 1
    /\ rows[l] = rows[k] + 1
    /\ order' = writeLaneOrder(Swapped(rows, k, l))
    /\ orderServer' = IF synced THEN order' ELSE orderServer
    /\ pinned' = IF synced THEN Swapped(rows, k, l) ELSE Unpinned
    /\ UNCHANGED <<page, laneRanks, asking, toldFinal, learned, arch, synced, laneIncidents>>

RemoteMove(o) ==
    /\ synced /\ LaneIncident
    /\ order' = writeLaneOrder(o)
    /\ orderServer' = order' /\ pinned' = Unpinned
    /\ UNCHANGED <<page, laneRanks, asking, toldFinal, learned, arch, synced, moves>>

\* The first sync of this page's replica; keys both sides wrote go either way.
SyncOrder(S) ==
    /\ ~synced /\ synced' = TRUE
    /\ \A k \in S : order[k] # orderServer[k]
    /\ \A k \in LaneKey \ S : order[k] # NoOrdinal \/ orderServer[k] = NoOrdinal
    /\ order' = [k \in LaneKey |-> IF k \in S THEN orderServer[k] ELSE order[k]]
    /\ orderServer' = order'
    /\ pinned' = IF order = NoOrder THEN pinned ELSE Unpinned
    /\ UNCHANGED <<page, laneRanks, asking, toldFinal, learned, arch, moves, laneIncidents>>

\* The page is reloaded: everything but the server's copy starts afresh.
ReloadPage ==
    /\ LaneIncident
    /\ page' = BlankPage /\ laneRanks' = EmptyRanks /\ asking' = FirstAsk
    /\ toldFinal' = {} /\ learned' = {} /\ order' = NoOrder /\ synced' = FALSE
    /\ pinned' = IF order = orderServer THEN pinned ELSE Unpinned
    /\ UNCHANGED <<arch, orderServer, moves>>

LaneNext ==
    \/ \E p \in LanePeer : RosterShows(p) \/ RosterDrops(p)
    \/ \E s \in LaneStream : \/ upsertAnnouncedStream(s) \/ withStreamFinal(s)
                             \/ ArchiveGrows(s) \/ StatusShows(s)
    \/ AnswerLands \/ FetchFails \/ ReloadPage
    \/ \E k, l \in candidates(page) : moveLane(k, l)
    \/ \E o \in RemoteOrders : RemoteMove(o)
    \/ \E S \in SUBSET LaneKey : SyncOrder(S)

LaneSpec == LaneInit /\ [][LaneNext]_laneVars

(***************************************************************************)
(* Properties.                                                             *)
(***************************************************************************)
\* No two lanes on screen share a rank, which their colour and default name come
\* from (track-model.ts: "colors and default names key off the rank"), although lanes
\* leave and return and a re-keyed lane and its former key keep the same one.
RanksDistinct == \A k, l \in candidates(page) : laneRanks[k] = laneRanks[l] => k = l

\* The lane a pinned key is shown in now; NoOwner when it is not on screen.
LaneNow(k) == IF k \in LaneStream /\ k \in OnRows(page) THEN KeyOf(page, k)
              ELSE IF k \in candidates(page) THEN k ELSE NoOwner
Single(k) == LaneNow(k) # NoOwner /\ \A l \in DOMAIN pinned : LaneNow(l) = LaneNow(k) => l = k

\* The order of the last move stands: after late attribution re-keyed its lanes and
\* after a reload, two lanes it placed are shown as it placed them (use-desk-rows.ts:
\* "attribution never undoes an operator's move").
PinnedInOrder ==
    synced => \A k, l \in DOMAIN pinned :
        (pinned[k] < pinned[l] /\ Single(k) /\ Single(l)) => rows[LaneNow(k)] < rows[LaneNow(l)]

\* A stream that an answer called finished is finished for the sink worker too
\* (planStreamSeed), whatever was announced before it or again after it.
FinalsLearned == learned \subseteq toldFinal

\* The lanes on screen that lane x continues after a step: itself or its former keys.
Former(x) == {k \in candidates(page) : k = x \/ k \in aliases(page', x)}
\* Lane x continues one lane and brings its ordinal along: it is not two lanes that turn
\* out to be one, and no lane that was seen under x's key before and returns to its place.
Continues(x) ==
    /\ Cardinality(Former(x)) = 1
    /\ x \in candidates(page) \/ x \notin DOMAIN laneRanks
    /\ \A k \in Former(x) : ordinalOf(order, page, k) = ordinalOf(order', page', x)
Shuffled(lanes) ==
    LET after == rows'
        before == rows
    IN  \E x, y \in lanes : \E k \in Former(x), l \in Former(y) :
            after[x] < after[y] /\ before[k] > before[l]

\* Nothing but a move changes the order of two lanes on screen: phones that leave and
\* return, new streams, late or older answers (track-model.ts: "Nothing that happens
\* later moves a lane").
LanesHold ==
    [][(order' = order /\ page' # page /\ page' # BlankPage)
        => ~Shuffled({x \in candidates(page') : Continues(x)})]_laneVars

\* The same of every lane that continues one, a returning lane included: what
\* track-model.ts says ("late attribution").
NothingMovesALane ==
    [][(order' = order /\ page' # page /\ page' # BlankPage)
        => ~Shuffled({x \in candidates(page') : Cardinality(Former(x)) = 1})]_laneVars

\* Lanes keep their place: ranks stay distinct, the operator's order stands, the
\* finals the page was told of are kept, and nothing but a move changes the order of
\* two lanes (track-model.ts, use-desk-rows.ts).
LanesKeepPlace == [](RanksDistinct /\ PinnedInOrder /\ FinalsLearned) /\ LanesHold
=============================================================================
