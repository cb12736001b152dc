---------------------------- MODULE TranscriptSync ----------------------------
(***************************************************************************)
(* How the local surface keeps the transcript of the conversation it shows *)
(* equal to the relay's.  The relay sends two independent streams over one *)
(* connection: compacted snapshots, and the chunks an agent message grows  *)
(* by.  The surface holds a window of entries (the hydration window), an   *)
(* array of what is on screen, and fetches whole pages: through the gated  *)
(* hydration path when a snapshot says its text was clipped, and through a *)
(* direct repair when a chunk does not fit.                                *)
(*                                                                         *)
(* One conversation, one turn.  "o" stands for the older entries a         *)
(* snapshot's tail leaves out, "u" for the user's message, "a" for the     *)
(* agent's reply; only "a" is ever long enough to be clipped.              *)
(***************************************************************************)
EXTENDS TranscriptMerge

CONSTANTS
    MaxLen,         \* bound on the length of the reply
    ChunkLens,      \* the lengths a chunk may have
    Capacity,       \* frames the delta channel keeps for a slow connection
    SilentGrowth,   \* may completion extend the text without a chunk
    MaxNudges       \* bound on notifications after everything is quiet

ASSUME SyncAssumption ==
    /\ MaxLen \in Nat /\ Capacity \in Nat \ {0}
    /\ ChunkLens \subseteq Nat \ {0}
    /\ SilentGrowth \in BOOLEAN /\ MaxNudges \in Nat

VARIABLES
    relay,      \* the relay's transcript, its revision and its turn
    channel,    \* the connection's backlog: changed flag, chunks, lag notice
    wire,       \* the frame on its way to the surface
    tab         \* the surface

vars == <<relay, channel, wire, tab>>

Missing == -1                   \* length of a reply that does not exist yet
NoRev == -1                     \* a revision that was never recorded
NoOwner == <<0, 0>>             \* no request owns the loading state
NoPage == [items |-> <<>>, n |-> Missing, rev |-> NoRev]

Items(long, user, n) ==
    (IF long THEN <<"o">> ELSE <<>>) \o (IF user THEN <<"u">> ELSE <<>>)
        \o (IF n = Missing THEN <<>> ELSE <<"a">>)

(* What a page fetch reads: every entry, whole. *)
Page == [items |-> Items(relay.long, relay.user, relay.n), n |-> relay.n,
         rev |-> relay.rev]

(* What a snapshot carries: the tail, clipped, and whether anything was cut. *)
Snapshot ==
    [kind |-> "snapshot", items |-> Items(FALSE, relay.user, relay.n),
     n |-> relay.n, rev |-> relay.rev, turn |-> relay.turn = "running",
     cut |-> relay.long \/ relay.n > Cap]

Copy(n) == IF n = Missing THEN Nothing ELSE Compacted(n)

------------------------------------------------------------------------------
(* The relay *)

Notified(c) == [c EXCEPT !.changed = TRUE]

(* The delta channel keeps the newest chunks; a reader that fell behind is told
   that it missed some. *)
Published(c, chunk) ==
    IF Len(c.chunks) < Capacity THEN [c EXCEPT !.chunks = Append(@, chunk)]
    ELSE [c EXCEPT !.chunks = Append(Tail(@), chunk), !.lagged = TRUE]

StartTurn ==
    /\ relay.turn = "before"
    /\ relay' = [relay EXCEPT !.turn = "running"]
    /\ channel' = Notified(channel)
    /\ UNCHANGED <<wire, tab>>

UserMessage ==
    /\ relay.turn = "running" /\ ~relay.user
    /\ relay' = [relay EXCEPT !.user = TRUE, !.rev = @ + 1]
    /\ channel' = Notified(channel)
    /\ UNCHANGED <<wire, tab>>

StartReply ==
    /\ relay.turn = "running" /\ relay.user /\ relay.n = Missing
    /\ relay' = [relay EXCEPT !.n = 0, !.rev = @ + 1]
    /\ channel' = Notified(channel)
    /\ UNCHANGED <<wire, tab>>

AppendChunk(len) ==
    LET off == IF relay.n = Missing THEN 0 ELSE relay.n IN
    /\ relay.turn = "running" /\ relay.user /\ ~relay.closed
    /\ off + len <= MaxLen
    /\ relay' = [relay EXCEPT !.n = off + len, !.rev = @ + 1]
    /\ channel' = Published(Notified(channel),
                            [kind |-> "chunk", off |-> off, len |-> len,
                             rev |-> relay.rev + 1])
    /\ UNCHANGED <<wire, tab>>

(* The completed message replaces the streamed one; a provider that streams
   only part of it, or nothing, ends with more text than its chunks held. *)
CompleteReply(n) ==
    /\ relay.turn = "running" /\ relay.user /\ ~relay.closed
    /\ n >= relay.n /\ n >= 0
    /\ n > relay.n => SilentGrowth
    /\ relay' = [relay EXCEPT !.n = n, !.closed = TRUE, !.rev = @ + 1]
    /\ channel' = Notified(channel)
    /\ UNCHANGED <<wire, tab>>

EndTurn ==
    /\ relay.turn = "running"
    /\ relay' = [relay EXCEPT !.turn = "over"]
    /\ channel' = Notified(channel)
    /\ UNCHANGED <<wire, tab>>

(* The connection takes the next frame from either stream when the last one
   is through; a snapshot is built at that moment. *)
SendSnapshot ==
    /\ wire = <<>> /\ channel.changed
    /\ wire' = <<Snapshot>>
    /\ channel' = [channel EXCEPT !.changed = FALSE]
    /\ UNCHANGED <<relay, tab>>

SendChunk ==
    /\ wire = <<>> /\ ~channel.lagged /\ channel.chunks # <<>>
    /\ wire' = <<Head(channel.chunks)>>
    /\ channel' = [channel EXCEPT !.chunks = Tail(@)]
    /\ UNCHANGED <<relay, tab>>

SendLagged ==
    /\ wire = <<>> /\ channel.lagged
    /\ wire' = <<[kind |-> "lagged"]>>
    /\ channel' = [channel EXCEPT !.lagged = FALSE]
    /\ UNCHANGED <<relay, tab>>

------------------------------------------------------------------------------
(* The surface: operators that take the tab's state to the state after a
   synchronous piece of its code. *)

Loaded(s) == s.order # <<>>
Holds(s) == Contains(s.order, "a")
Shows(s) == Contains(s.arr, "a")

(* The window written to the screen's array: a whole entry from the window, an
   untrusted one from the array, and what only the array holds at the end. *)
Projected(s) ==
    [s EXCEPT
        !.arr = s.order \o SelectSeq(@, LAMBDA x : ~Contains(s.order, x)),
        !.shown = IF Holds(s) /\ (s.body.full \/ ~Shows(s)) THEN s.body ELSE @,
        !.pending = FALSE]

(* Mutant of Settled: the paint that is owed is dropped. *)
SettledDropping(s) == [s EXCEPT !.pending = FALSE]

Settled(s) ==
    IF s.pending /\ Loaded(s) THEN Projected(s) ELSE [s EXCEPT !.pending = FALSE]

(* Mutant of SettledSinceFetch: the end of the turn asks for nothing. *)
SettledNever(s, turn, rev) == FALSE

(* Has the turn ended past the revision the bodies were fetched at? *)
SettledSinceFetch(s, turn, rev) ==
    ~turn /\ s.bodyRev # NoRev /\ rev # s.bodyRev

TailNeedsText(s, copy, turn, rev) ==
    /\ ~copy.full
    /\ \/ ~Holds(s) \/ ~s.body.full
       \/ Len(s.body.text) < Len(copy.text)
       \/ SettledSinceFetch(s, turn, rev)

SnapshotNeedsText(s, snap) ==
    snap.n # Missing /\ TailNeedsText(s, Copy(snap.n), snap.turn, snap.rev)

(* A tail merged into the loaded window. *)
Overlaid(s, items, copy) ==
    [s EXCEPT
        !.order = PlaceTail(@, items),
        !.body = IF ~Contains(items, "a") THEN @
                 ELSE IF Holds(s) THEN MergeEntry(@, copy) ELSE copy]

(* The session a tail becomes: itself while nothing is loaded, else the window
   with the tail laid over it. *)
Restored(s, items, copy, cut, turn, rev) ==
    IF ~Loaded(s) THEN [s EXCEPT !.arr = items, !.shown = copy, !.cut = cut]
    ELSE LET w == Overlaid(s, items, copy)
         IN  [w EXCEPT !.arr = w.order, !.shown = w.body,
                       !.cut = Contains(items, "a") /\ TailNeedsText(s, copy, turn, rev)]

(* The render that follows the start or the end of a fetch. *)
Progress(s) ==
    IF Loaded(s)
    THEN [Projected(s) EXCEPT !.cut = SnapshotNeedsText(s, s.base), !.flush = FALSE]
    ELSE [s EXCEPT !.arr = s.base.items, !.shown = Copy(s.base.n),
                   !.cut = s.base.cut, !.pending = FALSE, !.flush = FALSE]

(* The gate in front of the page fetch.  It reads the last snapshot as it came
   off the wire.  What it answers is computed from the state before its patch. *)
Signature(snap) == [turn |-> snap.turn, items |-> snap.items]

Rearm(s) ==
    /\ Loaded(s) /\ ~s.loading
    /\ s.fetched # s.raw.rev
    /\ SnapshotNeedsText(s, s.raw)

Prepared(s) ==
    LET w == IF Loaded(s)
             THEN [Overlaid(s, s.raw.items, Copy(s.raw.n)) EXCEPT
                        !.base = s.raw, !.sig = Signature(s.raw)]
             ELSE IF s.sig # Signature(s.raw)
             THEN [s EXCEPT !.base = s.raw, !.sig = Signature(s.raw),
                            !.fetched = NoRev, !.bodyRev = NoRev,
                            !.owner = NoOwner, !.loading = FALSE, !.tailReady = FALSE]
             ELSE [s EXCEPT !.base = s.raw]
    IN  IF Rearm(s)
        THEN [w EXCEPT !.tailReady = FALSE, !.loading = FALSE,
                       !.owner = NoOwner, !.fetched = s.raw.rev]
        ELSE w

(* A fetch is begun: it joins the request in flight for the same page, if any.
   The promise that owns the loading state is named by its request's
   generation and its place in it. *)
Begun(s) ==
    LET id == <<s.gen, Len(s.readers) + 1>>
    IN  [s EXCEPT !.loading = TRUE, !.owner = id,
                  !.readers = Append(@, [id |-> id, epoch |-> s.epoch,
                                         sig |-> s.sig, rev |-> s.raw.rev])]

Ensured(s) ==
    IF ~s.raw.cut THEN s
    ELSE IF (Rearm(s) \/ ~s.tailReady) /\ (Rearm(s) \/ s.owner = NoOwner)
    THEN Progress(Begun(Prepared(s)))
    ELSE Prepared(s)

Rendered(s) ==
    LET p == [Settled(s) EXCEPT !.flush = FALSE]
    IN  IF p.cut THEN Ensured(p) ELSE p

MergedPage(s, page) ==
    [s EXCEPT
        !.order = PlacePage(@, page.items),
        !.body = IF page.n = Missing THEN @
                 ELSE IF Holds(s) THEN MergeEntry(@, Whole(page.n)) ELSE Whole(page.n),
        !.loading = FALSE, !.tailReady = TRUE]

(* Mutant of Released: only the flag is cleared, the owner stays. *)
ReleasedFlag(s, id) == IF s.owner = id THEN [s EXCEPT !.loading = FALSE] ELSE s

(* finally: the loading state is released by the promise that owns it. *)
Released(s, id) ==
    IF s.owner = id THEN [s EXCEPT !.owner = NoOwner, !.loading = FALSE] ELSE s

(* One reader of the page goes on: a page that a refusal or a new signature
   overtook is discarded. *)
Answered(s, reader, page) ==
    LET merged == [MergedPage(s, page) EXCEPT !.bodyRev = reader.rev,
                                              !.fetched = reader.rev,
                                              !.misdated = @ \/ page.rev < reader.rev]
        shown == Progress(merged)
        next == IF reader.epoch # s.epoch THEN s
                ELSE IF reader.sig # s.sig THEN [s EXCEPT !.fetched = NoRev]
                ELSE IF shown.cut THEN Ensured(shown) ELSE shown
    IN  Released(next, reader.id)

(* One reader's request was evicted under it: it renders what is held. *)
Rejected(s, reader) ==
    LET idle == IF s.owner = reader.id THEN [s EXCEPT !.loading = FALSE] ELSE s
        held == Restored(idle, idle.arr, idle.shown, idle.cut, idle.raw.turn, idle.rev)
    IN  Released(Rendered(held), reader.id)

(* The request in flight is over: the next one is of another generation. *)
Detached(s) == [s EXCEPT !.readers = <<>>, !.page = NoPage, !.gen = 3 - @]

(* A refused chunk: a direct fetch starts, which evicts the request in flight,
   what is held is painted, and then the evicted readers go on. *)
Repairing(s) ==
    LET begun == Detached([s EXCEPT !.repairs = @ \cup {[epoch |-> s.epoch, page |-> NoPage]}])
    IN  FoldLeft(Rejected, Rendered(begun), s.readers)

------------------------------------------------------------------------------
(* The surface's handlers *)

Max2(a, b) == IF a >= b THEN a ELSE b

(* applySessionSnapshot: a change of turn paints at once. *)
TakeSnapshot(s, snap) ==
    LET p == [Settled(s) EXCEPT !.raw = snap, !.rev = snap.rev, !.up = TRUE]
        copy == IF snap.n # Missing /\ Shows(p) THEN Preserve(p.shown, Copy(snap.n))
                ELSE Copy(snap.n)
        merged == Restored(p, snap.items, copy, snap.cut, snap.turn, snap.rev)
    IN  IF ~s.up \/ s.raw.turn # snap.turn THEN Rendered(merged)
        ELSE [merged EXCEPT !.flush = TRUE]

(* A chunk for a loaded window is reconciled there. *)
TakeChunkLoaded(s, f) ==
    LET have == IF Holds(s) THEN s.body.text ELSE <<>>
        seen == [s EXCEPT !.rev = Max2(@, f.rev)]
        more == NewPart(have, f.off, f.len)
        settled == Settled([seen EXCEPT !.epoch = @ + 1])
    IN  IF Refused(have, f.off, f.len)
        THEN Repairing(IF Holds(s) THEN [settled EXCEPT !.body.full = FALSE]
                       ELSE [settled EXCEPT !.order = Append(@, "a"), !.body = Nothing])
        ELSE [seen EXCEPT
                !.order = IF Holds(s) THEN @ ELSE Append(@, "a"),
                !.body = IF more = <<>> THEN @
                         ELSE [text |-> have \o more, full |-> TRUE],
                !.pending = TRUE, !.flush = TRUE]

(* Before anything is loaded it is reconciled with the screen's array. *)
TakeChunkCold(s, f) ==
    LET have == IF Shows(s) THEN s.shown.text ELSE <<>>
        seen == [s EXCEPT !.rev = Max2(@, f.rev)]
        more == NewPart(have, f.off, f.len)
    IN  IF Refused(have, f.off, f.len) THEN Repairing([seen EXCEPT !.epoch = @ + 1])
        ELSE IF more = <<>> THEN s
        ELSE [seen EXCEPT
                !.arr = IF Shows(s) THEN @ ELSE Append(@, "a"),
                !.shown = [text |-> have \o more, full |-> ~Shows(s) \/ @.full],
                !.flush = TRUE]

(* Missed chunks: nothing held is trusted any more. *)
TakeLagged(s) ==
    Rendered(Ensured([Settled(s) EXCEPT !.body.full = FALSE]))

ReceiveSnapshot ==
    /\ wire # <<>> /\ wire[1].kind = "snapshot"
    /\ tab' = TakeSnapshot(tab, wire[1])
    /\ wire' = <<>>
    /\ UNCHANGED <<relay, channel>>

ReceiveChunk ==
    /\ wire # <<>> /\ wire[1].kind = "chunk"
    /\ tab' = IF Loaded(tab) THEN TakeChunkLoaded(tab, wire[1])
              ELSE TakeChunkCold(tab, wire[1])
    /\ wire' = <<>>
    /\ UNCHANGED <<relay, channel>>

ReceiveLagged ==
    /\ wire # <<>> /\ wire[1].kind = "lagged"
    /\ tab' = TakeLagged(tab)
    /\ wire' = <<>>
    /\ UNCHANGED <<relay, channel>>

(* The coalescing timer of the paint. *)
Flush ==
    /\ tab.flush
    /\ tab' = Rendered(tab)
    /\ UNCHANGED <<relay, channel, wire>>

(* The relay answers a page request, and the answer arrives. *)
ServePage ==
    /\ tab.readers # <<>> /\ tab.page = NoPage
    /\ tab' = [tab EXCEPT !.page = Page]
    /\ UNCHANGED <<relay, channel, wire>>

ReceivePage ==
    /\ tab.page # NoPage
    /\ tab' = FoldLeft(LAMBDA s, reader : Answered(s, reader, tab.page),
                       Detached(tab), tab.readers)
    /\ UNCHANGED <<relay, channel, wire>>

ServeRepair ==
    \E q \in tab.repairs :
        /\ q.page = NoPage
        /\ tab' = [tab EXCEPT !.repairs = (@ \ {q}) \cup {[q EXCEPT !.page = Page]}]
        /\ UNCHANGED <<relay, channel, wire>>

(* repairActiveTranscriptTail goes on: a repair that a later refusal overtook
   is dropped. *)
ReceiveRepair ==
    \E q \in tab.repairs :
        LET s == [tab EXCEPT !.repairs = @ \ {q}] IN
        /\ q.page # NoPage
        /\ tab' = IF q.epoch # s.epoch THEN s
                  ELSE Rendered([MergedPage(s, q.page) EXCEPT !.pending = TRUE])
        /\ UNCHANGED <<relay, channel, wire>>

(* Nothing is under way: no frame, no paint, no request. *)
Quiet ==
    /\ relay.turn = "over" /\ wire = <<>>
    /\ channel = [changed |-> FALSE, chunks |-> <<>>, lagged |-> FALSE]
    /\ ~tab.flush /\ tab.readers = <<>> /\ tab.repairs = {}

(* Anything else the relay reports later on: a log line, a lease, a thread. *)
NotifyAgain ==
    /\ Quiet /\ relay.nudges < MaxNudges
    /\ relay' = [relay EXCEPT !.nudges = @ + 1]
    /\ channel' = Notified(channel)
    /\ UNCHANGED <<wire, tab>>

------------------------------------------------------------------------------
NewTab ==
    [up |-> FALSE, order |-> <<>>, body |-> Nothing, arr |-> <<>>,
     shown |-> Nothing, cut |-> FALSE, rev |-> 0, pending |-> FALSE,
     flush |-> FALSE, raw |-> Snapshot, base |-> Snapshot,
     sig |-> [turn |-> FALSE, items |-> <<"none">>],
     loading |-> FALSE, owner |-> NoOwner, gen |-> 1, tailReady |-> FALSE,
     fetched |-> NoRev, bodyRev |-> NoRev, epoch |-> 0,
     readers |-> <<>>, page |-> NoPage, repairs |-> {}, misdated |-> FALSE]

(* The connection opens before the turn with a snapshot of its own. *)
Init ==
    /\ relay \in [long : BOOLEAN, user : {FALSE}, n : {Missing}, rev : {0},
                  turn : {"before"}, closed : {FALSE}, nudges : {0}]
    /\ channel = [changed |-> FALSE, chunks |-> <<>>, lagged |-> FALSE]
    /\ wire = <<Snapshot>>
    /\ tab = NewTab

Send == SendSnapshot \/ SendChunk \/ SendLagged
Receive == ReceiveSnapshot \/ ReceiveChunk \/ ReceiveLagged

Deliver ==
    \/ Send \/ Receive \/ Flush
    \/ ServePage \/ ReceivePage \/ ServeRepair \/ ReceiveRepair

Next ==
    \/ StartTurn \/ UserMessage \/ StartReply
    \/ \E len \in ChunkLens : AppendChunk(len)
    \/ \E n \in 0 .. MaxLen : CompleteReply(n)
    \/ EndTurn \/ NotifyAgain
    \/ Deliver

Busy ==
    \/ wire # <<>> \/ channel.changed \/ channel.chunks # <<>> \/ channel.lagged
    \/ tab.flush \/ tab.readers # <<>> \/ tab.repairs # {}

(* Weak fairness of Deliver: what the connection, the timer and the relay's
   answers have to do is done in the end.  Deliver can act exactly while Busy,
   and its steps are the ones that leave the relay alone. *)
Fairness == <>[]Busy => []<><<UNCHANGED relay>>_vars

Spec == Init /\ [][Next]_vars /\ Fairness

------------------------------------------------------------------------------
OnScreen == IF Shows(tab) THEN tab.shown.text ELSE <<>>

Faithful ==
    /\ relay.n # Missing => Shows(tab) /\ OnScreen = Body(relay.n)
    /\ tab.arr \in {Page.items, Snapshot.items}

(* Was every page taken at the revision it is recorded under, and the window
   started by a page whose revision was recorded? *)
WellDated == ~tab.misdated /\ (Loaded(tab) => tab.bodyRev # NoRev)

(* When the turn is over, everything under way has ended and the relay has
   notified the surface once more, the screen shows the reply letter for letter,
   in its place: whatever order snapshots, chunks, lag notices, pages and repairs
   came in, whatever was clipped, discarded or evicted on the way
   (hydrateTranscript, applyTranscriptDeltaToWindow, applySessionSnapshot). *)
ScreenCatchesUp == Quiet /\ relay.nudges > 0 /\ WellDated => Faithful

(* The same without asking how the pages were dated, which the code does not
   ensure: a reader that joins a request begun before its own snapshot records
   the older page under its own revision, and a window started by a repair has
   no revision to compare with when the turn settles (turnSettledSinceHydration). *)
ScreenAlwaysCatchesUp == Quiet /\ relay.nudges > 0 => Faithful

(* Once the window holds the reply and is no further behind than the screen,
   nothing known of it is taken back: a step that leaves no paint owed shows at
   least what the screen showed, and at least what the chunks waiting for the
   coalesced paint had added (settleTranscriptProjection before every rewrite of
   the array). *)
NothingIsTakenBack ==
    [][LET known == IF tab.pending /\ tab.body.full THEN tab.body.text ELSE OnScreen
       IN  Holds(tab) /\ Len(tab.body.text) >= Len(OnScreen) /\ ~tab'.pending
           => Len(OnScreen') >= Len(known)]_vars

(* After the turn the surface comes to rest: the fetches that snapshots, pages
   and evictions start from within one another end, and none leaves the loading
   state behind, which would keep every later fetch from starting. *)
FetchesEnd == relay.turn = "over" ~> (Quiet /\ ~tab.loading /\ tab.owner = NoOwner)
==============================================================================
