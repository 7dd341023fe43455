---------------------------- MODULE AlignStore -----------------------------
(***************************************************************************)
(* The two stores of one take's alignment verdict (alignment-persist.ts):  *)
(* the shared document, last writer wins, and a localStorage shadow on     *)
(* every desk.  Whoever reads reconciles the two, newest `at` first, and   *)
(* writes the winner back to the other; a remote change of the document is *)
(* reconciled and put in force in the player -- unless the player is       *)
(* decoding or measuring, when it refuses; runs and loads may fail.        *)
(*                                                                         *)
(* A document write is an entry with a rank: it outranks the entry it      *)
(* replaced, and two concurrent entries are ranked either way, the same    *)
(* way everywhere.  That is all the code relies on in Yjs.                 *)
(***************************************************************************)
EXTENDS Naturals

CONSTANTS
    StoreDesk,
    Shadowless,     \* the desks whose localStorage is unavailable
    Skew,           \* Skew[d]: how far the clock of d runs ahead
    MaxRank,        \* bound: ranks a run can use up
    MaxSettles, MaxReloads

ASSUME StoreAssumption ==
    /\ "server" \notin StoreDesk /\ Shadowless \subseteq StoreDesk
    /\ Skew \in [StoreDesk -> Nat] /\ MaxRank \in Nat

VARIABLES
    docOf,      \* docOf[d]: the entry d's replica holds; docOf["server"] too
    shadow,     \* shadow[d]: the record in localStorage
    inForce,    \* inForce[d]: the verdict the player applies
    deskState,  \* "out" (take not loaded), "in" (loaded), "loading" (loaded, while
                \* the player decodes this take anew or another), "aligning"
    ranks,      \* the ranks in use
    time, settles, reloads,
    \* History.
    unread,     \* the desks that have not read their two stores since they started
    slipped     \* the desks whose player has not taken a verdict since it refused
                \* one, a run failed on it, or a load skipped the restore

storeVars == <<docOf, shadow, inForce, deskState, ranks, time, settles, reloads,
               unread, slipped>>

Replica == StoreDesk \cup {"server"}
NoRecord == [at |-> 0, by |-> "none"]
NoEntry == [rec |-> NoRecord, rank |-> 0]

\* What a run that failed half-way leaves on the tracks: no store holds it.
HalfMeasured == [at |-> 0, by |-> "a failed run"]

StoreInit ==
    /\ docOf = [r \in Replica |-> NoEntry]
    /\ shadow = [d \in StoreDesk |-> NoRecord]
    /\ inForce = [d \in StoreDesk |-> NoRecord]
    /\ deskState = [d \in StoreDesk |-> "out"]
    /\ ranks = {} /\ time = 1 /\ settles = 0 /\ reloads = 0
    /\ unread = StoreDesk /\ slipped = {}

(***************************************************************************)
(* The layers.                                                             *)
(***************************************************************************)
\* saveLocalAlignment: a full or disabled storage is not an error.
saveLocalAlignment(d, rec) ==
    shadow' = IF d \in Shadowless THEN shadow ELSE [shadow EXCEPT ![d] = rec]

\* writeDocAlignmentIfChanged.  An equal record is not written.
writeDocAlignmentIfChanged(d, rec, entry) ==
    IF entry.rec = rec
    THEN docOf' = [docOf EXCEPT ![d] = entry] /\ UNCHANGED ranks
    ELSE \E k \in 1..MaxRank \ ranks :
            /\ k > entry.rank
            /\ docOf' = [docOf EXCEPT ![d] = [rec |-> rec, rank |-> k]]
            /\ ranks' = ranks \cup {k}

\* Newest wins, a tie goes to the document; an absent record has at = 0.
Winner(local, fromDoc) == IF local.at > fromDoc.at THEN local ELSE fromDoc

\* Mutant: the winner is used but not written back.
reconcileReadOnly(d, entry) ==
    docOf' = [docOf EXCEPT ![d] = entry] /\ unread' = unread \ {d}
    /\ UNCHANGED <<ranks, shadow>>

\* reconcile, on a replica that holds `entry`.
reconcile(d, entry) ==
    LET winner == Winner(shadow[d], entry.rec)
    IN  /\ writeDocAlignmentIfChanged(d, winner, entry)
        /\ saveLocalAlignment(d, winner)
        /\ unread' = unread \ {d}

\* restoreAlignment: refused while the take is not loaded, and while the player
\* decodes or measures.
restoreAlignment(d, rec) ==
    IF deskState[d] = "in"
    THEN /\ inForce' = [inForce EXCEPT ![d] = IF rec = NoRecord THEN @ ELSE rec]
         /\ slipped' = slipped \ {d}
    ELSE /\ UNCHANGED inForce
         /\ slipped' = IF deskState[d] = "out" THEN slipped ELSE slipped \cup {d}

(***************************************************************************)
(* What a desk does.                                                       *)
(***************************************************************************)
\* The take is loaded: a persisted verdict comes back before any measurement.
LoadAndRestore(d) ==
    /\ deskState[d] \in {"out", "loading"}
    /\ reconcile(d, docOf[d])
    /\ deskState' = [deskState EXCEPT ![d] = "in"]
    /\ LET winner == Winner(shadow[d], docOf[d].rec)
       IN  IF winner = NoRecord THEN UNCHANGED <<inForce, slipped>>
           ELSE /\ inForce' = [inForce EXCEPT ![d] = winner]
                /\ slipped' = slipped \ {d}
    /\ UNCHANGED <<time, settles, reloads>>

\* readTakeAlignment: the timeline and the look-ahead read a verdict, which
\* reconciles its stores too, and leave the player alone.
ReadVerdict(d) ==
    /\ reconcile(d, docOf[d])
    /\ UNCHANGED <<inForce, deskState, time, settles, reloads, slipped>>

\* The loaded take or another is decoded; this one stays mounted meanwhile.
StartLoad(d) ==
    /\ deskState[d] = "in"
    /\ deskState' = [deskState EXCEPT ![d] = "loading"]
    /\ UNCHANGED <<docOf, shadow, inForce, ranks, time, settles, reloads, unread, slipped>>

\* The decode fails: the old take stays, and nobody restores.
DecodeFails(d) ==
    /\ deskState[d] = "loading"
    /\ deskState' = [deskState EXCEPT ![d] = "in"]
    /\ UNCHANGED <<docOf, shadow, inForce, ranks, time, settles, reloads, unread, slipped>>

\* The decode ends with another take in the player.
OtherTakeLoads(d) ==
    /\ deskState[d] = "loading"
    /\ deskState' = [deskState EXCEPT ![d] = "out"]
    /\ inForce' = [inForce EXCEPT ![d] = NoRecord]
    /\ slipped' = slipped \ {d}
    /\ UNCHANGED <<docOf, shadow, ranks, time, settles, reloads, unread>>

\* A newer request waits: the take is in, its restore is skipped, and the next
\* decode begins.
LoadSuperseded(d) ==
    /\ deskState[d] \in {"out", "loading"}
    /\ deskState' = [deskState EXCEPT ![d] = "loading"]
    /\ slipped' = slipped \cup {d}
    /\ UNCHANGED <<docOf, shadow, inForce, ranks, time, settles, reloads, unread>>

StartAlign(d) ==
    /\ deskState[d] = "in" /\ settles < MaxSettles
    /\ deskState' = [deskState EXCEPT ![d] = "aligning"]
    /\ UNCHANGED <<docOf, shadow, inForce, ranks, time, settles, reloads, unread, slipped>>

\* A run that throws: no listener hears of it, nothing is persisted, and the
\* tracks keep what the passes had written by then.
AlignFails(d) ==
    /\ deskState[d] = "aligning"
    /\ deskState' = [deskState EXCEPT ![d] = "in"]
    /\ \/ UNCHANGED <<inForce, slipped>>
       \/ /\ inForce' = [inForce EXCEPT ![d] = HalfMeasured]
          /\ slipped' = slipped \cup {d}
    /\ UNCHANGED <<docOf, shadow, ranks, time, settles, reloads, unread>>

\* onAlignmentSettled: the new verdict goes to both layers, unconditionally.
AlignSettles(d) ==
    /\ deskState[d] = "aligning" /\ settles < MaxSettles
    /\ LET rec == [at |-> time + Skew[d], by |-> d]
       IN  /\ writeDocAlignmentIfChanged(d, rec, docOf[d])
           /\ saveLocalAlignment(d, rec)
           /\ inForce' = [inForce EXCEPT ![d] = rec]
    /\ deskState' = [deskState EXCEPT ![d] = "in"]
    /\ settles' = settles + 1 /\ unread' = unread \ {d} /\ slipped' = slipped \ {d}
    /\ UNCHANGED <<time, reloads>>

\* The clock of the room; two runs may settle within one millisecond.
Passes == time <= settles /\ time' = time + 1
          /\ UNCHANGED <<docOf, shadow, inForce, deskState, ranks, settles, reloads, unread, slipped>>

\* A reload: a fresh document, the shadow stays.
ReloadDesk(d) ==
    /\ reloads < MaxReloads
    /\ docOf' = [docOf EXCEPT ![d] = NoEntry]
    /\ inForce' = [inForce EXCEPT ![d] = NoRecord]
    /\ deskState' = [deskState EXCEPT ![d] = "out"]
    /\ reloads' = reloads + 1 /\ unread' = unread \cup {d} /\ slipped' = slipped \ {d}
    /\ UNCHANGED <<shadow, ranks, time, settles>>

SendDoc(d) ==
    /\ docOf[d].rank > docOf["server"].rank
    /\ docOf' = [docOf EXCEPT !["server"] = docOf[d]]
    /\ UNCHANGED <<shadow, inForce, deskState, ranks, time, settles, reloads, unread, slipped>>

\* The observer of bindAlignmentToCollab.
ReceiveDoc(d) ==
    /\ docOf["server"].rank > docOf[d].rank
    /\ reconcile(d, docOf["server"])
    /\ restoreAlignment(d, Winner(shadow[d], docOf["server"].rec))
    /\ UNCHANGED <<deskState, time, settles, reloads>>

StoreNext ==
    \/ \E d \in StoreDesk : LoadAndRestore(d) \/ LoadSuperseded(d) \/ OtherTakeLoads(d)
    \/ \E d \in StoreDesk : StartLoad(d) \/ DecodeFails(d) \/ ReadVerdict(d)
    \/ \E d \in StoreDesk : StartAlign(d) \/ AlignSettles(d) \/ AlignFails(d)
    \/ \E d \in StoreDesk : ReloadDesk(d) \/ SendDoc(d) \/ ReceiveDoc(d)
    \/ Passes

StoreSpec == StoreInit /\ [][StoreNext]_storeVars

(***************************************************************************)
(* Properties.                                                             *)
(***************************************************************************)
\* A desk without storage has no shadow, a desk without the take no verdict.
StoreTypeOK ==
    /\ \A d \in Shadowless : shadow[d] = NoRecord
    /\ \A d \in StoreDesk : deskState[d] = "out" => inForce[d] = NoRecord
    /\ \A r \in Replica : docOf[r].rank \in ranks \cup {0}
    /\ \A d \in slipped : d \in StoreDesk /\ deskState[d] # "out"

InSync == \A r \in Replica : docOf[r] = docOf["server"]

\* Once the replicas agree, every desk that has the take applies the verdict of
\* the document: no desk is left with a verdict the others do not have, but for
\* those that slipped.  The next load, run or verdict of others brings them back.
SameVerdict ==
    InSync => \A d \in StoreDesk \ slipped :
        deskState[d] \in {"in", "loading"} => inForce[d] = docOf["server"].rec

\* A verdict measured just before a reload, or overwritten by an older one in
\* the document, is not lost: once the replicas agree no desk that has read its
\* stores remembers a newer one than the document.
NewestSurvives ==
    InSync => \A d \in StoreDesk \ unread : shadow[d].at <= docOf["server"].rec.at

\* Receiving `entry`, d would write its own shadow back over it.
WouldAnswer(d, entry) == shadow[d].at > entry.rec.at

\* Desks never write verdicts back and forth ("no echo loops"): of two desks that have
\* an entry at most one would answer the other's.  A desk may still answer several old
\* entries in a row, one after each.
NoEcho ==
    \A d, e \in StoreDesk :
        docOf[d].rank # 0 /\ docOf[e].rank # 0
            => ~(WouldAnswer(d, docOf[e]) /\ WouldAnswer(e, docOf[d]))

\* The two stores of a verdict agree on the newest one, every desk that was not
\* decoding or measuring when it came applies it, and no two desks keep correcting
\* each other (alignment-persist.ts reconcile, player.ts restoreAlignment).
VerdictsAgree == StoreTypeOK /\ NewestSurvives /\ SameVerdict /\ NoEcho
=============================================================================
