---------------------------- MODULE SurfaceWatch ----------------------------
(***************************************************************************)
(* Which threads a local browser tab is streamed: the tab's declarer       *)
(* (frontend/local/watched-threads.js), its event stream and reconnects    *)
(* (frontend/local/session/stream.js), and the relay's side of both: the   *)
(* event-stream handler with its guard (main.rs) and the watch sets with   *)
(* their connection generations (state/relay.rs).                          *)
(*                                                                         *)
(* One tab, so one surface id.  A generation is the tab's Date.now() at    *)
(* the connect, here the number of the connect: two connects never share   *)
(* a millisecond and the clock never steps back.  A watch set is the one   *)
(* thread on screen.                                                       *)
(***************************************************************************)
EXTENDS Naturals

CONSTANTS
  Threads,     \* threads the tab can show
  Nothing,     \* no thread, no request, no watch set
  MaxConnects, \* bound: event streams the tab opens
  LateRequests \* an aborted or failed request may still be handled by the relay, later

ASSUME SurfaceWatchAssumption ==
  Nothing \notin Threads /\ MaxConnects \in Nat \ {0} /\ LateRequests \in BOOLEAN

VARIABLES
  tab,       \* [open, view, gen, stream]: the page; stream "none", "connecting" or "open"
  sync,      \* [lastKey, post, pending, rendered]: the declarer, and its last argument
  net,       \* declarations on their way to the relay
  answered,  \* the relay has answered the declarer's request
  gets,      \* generations of stream requests on their way to the relay
  guards,    \* connect -> [state, gen]: the SurfaceWatchGuard of its stream
  generation,\* surface_generations, 0 for no entry
  watched,   \* watched_threads: the thread declared, or Nothing
  keyOnOpen  \* history: the request lastKey comes from was made on the open stream

vars == <<tab, sync, net, answered, gets, guards, generation, watched, keyOnOpen>>

Gens == 1..MaxConnects
NoGuard == [state |-> "none", gen |-> 0]
Served(g) == guards[g].state = "live"
Posts == [thread : Threads, gen : 0..MaxConnects, onOpen : BOOLEAN]

ASSUME NothingAssumption == Nothing \notin Posts

Init ==
  /\ tab \in [open : {TRUE}, view : Threads, gen : {0}, stream : {"none"}]
  /\ sync = [lastKey |-> Nothing, post |-> Nothing, pending |-> Nothing, rendered |-> Nothing]
  /\ net = {} /\ answered = FALSE
  /\ gets = {}
  /\ guards = [g \in Gens |-> NoGuard]
  /\ generation = 0
  /\ watched = Nothing
  /\ keyOnOpen = FALSE

-------------------------------------------------------------------------------
(* The declarer, syncWatchedThreads *)

Navigate(t) ==
  /\ tab.open
  /\ tab' = [tab EXCEPT !.view = t]
  /\ UNCHANGED <<sync, net, answered, gets, guards, generation, watched, keyOnOpen>>

\* post(): the generation is read when the request is made.
Posted(t) == [thread |-> t, gen |-> tab.gen, onOpen |-> tab.stream = "open"]

\* Every render calls the declarer with what is on screen.
Render ==
  /\ tab.open
  /\ IF tab.view = sync.lastKey
       THEN /\ sync' = [sync EXCEPT !.rendered = tab.view]
            /\ UNCHANGED <<net, answered>>
     ELSE IF sync.post # Nothing
       THEN /\ sync' = [sync EXCEPT !.rendered = tab.view, !.pending = tab.view]
            /\ UNCHANGED <<net, answered>>
       ELSE /\ sync' = [sync EXCEPT !.rendered = tab.view, !.pending = Nothing,
                                    !.post = Posted(tab.view)]
            /\ net' = net \cup {Posted(tab.view)}
            /\ answered' = FALSE
  /\ UNCHANGED <<tab, gets, guards, generation, watched, keyOnOpen>>

MoreToPost == sync.pending # Nothing

\* await post() returned: the key is remembered and the loop goes round for a target
\* that arrived meanwhile.
PostReturns ==
  /\ tab.open /\ sync.post # Nothing /\ answered
  /\ keyOnOpen' = (sync.post.onOpen /\ tab.stream = "open" /\ sync.post.gen = tab.gen)
  /\ IF MoreToPost
       THEN /\ sync' = [sync EXCEPT !.lastKey = sync.post.thread, !.pending = Nothing,
                                    !.post = Posted(sync.pending)]
            /\ net' = net \cup {Posted(sync.pending)}
            /\ answered' = FALSE
       ELSE /\ sync' = [sync EXCEPT !.lastKey = sync.post.thread, !.post = Nothing]
            /\ UNCHANGED <<net, answered>>
  /\ UNCHANGED <<tab, gets, guards, generation, watched>>

\* The request, or the relay's answer to it, is lost; a request that only seemed lost
\* may be handled late.
PostFails ==
  /\ tab.open /\ sync.post # Nothing
  /\ sync' = [sync EXCEPT !.lastKey = Nothing, !.post = Nothing, !.pending = Nothing]
  /\ net' = IF LateRequests THEN net ELSE net \ {sync.post}
  /\ UNCHANGED <<tab, answered, gets, guards, generation, watched, keyOnOpen>>

-------------------------------------------------------------------------------
(* The tab's event stream *)

\* What is left on its way of requests the browser aborts.
Remaining(requests) == IF LateRequests THEN requests ELSE {}

\* connectSessionStream: the previous stream, if any, is closed.
Connect ==
  /\ tab.open /\ tab.gen < MaxConnects
  /\ tab' = [tab EXCEPT !.gen = @ + 1, !.stream = "connecting"]
  /\ gets' = Remaining(gets) \cup {tab.gen + 1}
  /\ UNCHANGED <<sync, net, answered, guards, generation, watched, keyOnOpen>>

\* onOpen: the relay's answer to the current stream's request.
KeepsDeclaration == sync.lastKey
Forgotten == Nothing
StreamOpens ==
  /\ tab.open /\ tab.stream = "connecting" /\ guards[tab.gen] # NoGuard
  /\ tab' = [tab EXCEPT !.stream = "open"]
  /\ sync' = [sync EXCEPT !.lastKey = Forgotten]
  /\ UNCHANGED <<net, answered, gets, guards, generation, watched, keyOnOpen>>

\* onError of the current stream.
StreamErrors ==
  /\ tab.open /\ tab.stream # "none"
  /\ tab' = [tab EXCEPT !.stream = "none"]
  /\ gets' = Remaining(gets)
  /\ UNCHANGED <<sync, net, answered, guards, generation, watched, keyOnOpen>>

\* The page is gone.
TabCloses ==
  /\ tab.open
  /\ tab' = [tab EXCEPT !.open = FALSE, !.stream = "none"]
  /\ net' = Remaining(net) /\ gets' = Remaining(gets)
  /\ UNCHANGED <<sync, answered, guards, generation, watched, keyOnOpen>>

-------------------------------------------------------------------------------
(* The relay *)

\* session_stream up to open_surface_generation: a newer claim takes over, an older one
\* is given the generation in force.
InForce(claimed) == IF claimed > generation THEN claimed ELSE generation
GetArrives(g) ==
  /\ g \in gets
  /\ gets' = gets \ {g}
  /\ generation' = InForce(g)
  /\ guards' = [guards EXCEPT ![g] = [state |-> "live", gen |-> InForce(g)]]
  /\ UNCHANGED <<tab, sync, net, answered, watched, keyOnOpen>>

\* The stream is dropped: closed by the tab, or cut by the network whether the tab knows
\* or not.  The guard spawns the teardown.
StreamDropped(g) ==
  /\ Served(g)
  /\ guards' = [guards EXCEPT ![g].state = "dropped"]
  /\ UNCHANGED <<tab, sync, net, answered, gets, generation, watched, keyOnOpen>>

\* The teardown task: drop_watched_surface_generation.
Unconditional(g) == TRUE
NoLongerCurrent(g) == generation # guards[g].gen
StillCurrent(g) == generation = guards[g].gen
Teardown(g) ==
  /\ guards[g].state = "dropped"
  /\ guards' = [guards EXCEPT ![g] = NoGuard]
  /\ IF StillCurrent(g)
       THEN generation' = 0 /\ watched' = Nothing
       ELSE UNCHANGED <<generation, watched>>
  /\ UNCHANGED <<tab, sync, net, answered, gets, keyOnOpen>>

\* set_watched_threads_for_generation; a stale declaration is answered like any other.
NotSuperseded(post) == post.gen = 0 \/ post.gen >= generation
PostArrives(post) ==
  /\ post \in net
  /\ net' = net \ {post}
  /\ watched' = IF NotSuperseded(post) THEN post.thread ELSE watched
  /\ answered' = (answered \/ post = sync.post)
  /\ UNCHANGED <<tab, sync, gets, guards, generation, keyOnOpen>>

Next ==
  \/ \E t \in Threads : Navigate(t)
  \/ Render \/ PostReturns \/ PostFails
  \/ Connect \/ StreamOpens \/ StreamErrors \/ TabCloses
  \/ \E g \in Gens : GetArrives(g) \/ StreamDropped(g) \/ Teardown(g)
  \/ \E post \in net : PostArrives(post)

\* The relay's runtime polls its tasks, and the keep-alive finds out about streams whose
\* tab is gone.
Fairness ==
  \A g \in Gens :
    /\ WF_vars(Teardown(g))
    /\ WF_vars(~tab.open /\ StreamDropped(g))

Spec == Init /\ [][Next]_vars /\ Fairness

-------------------------------------------------------------------------------
(* Properties *)

\* Types of the declarer (watched-threads.js) and of the relay's guards, generations
\* and watch set (main.rs, relay.rs).
TypeOK ==
  /\ tab \in [open : BOOLEAN, view : Threads, gen : 0..MaxConnects,
              stream : {"none", "connecting", "open"}]
  /\ sync \in [lastKey : Threads \cup {Nothing}, post : Posts \cup {Nothing},
               pending : Threads \cup {Nothing}, rendered : Threads \cup {Nothing}]
  /\ net \subseteq Posts /\ answered \in BOOLEAN
  /\ gets \subseteq Gens
  /\ guards \in [Gens -> [state : {"none", "live", "dropped"}, gen : 0..MaxConnects]]
  /\ generation \in 0..MaxConnects
  /\ watched \in Threads \cup {Nothing}
  /\ keyOnOpen \in BOOLEAN

\* The teardown of a closed stream, however late it runs, never unsubscribes a newer
\* stream of the same tab that the relay is serving.
TeardownSparesNewerStreams ==
  [][(watched # Nothing /\ watched' = Nothing)
       => \A g, old \in Gens :
            (guards'[g].state = "live" /\ guards'[old] # guards[old]) => g < old]_vars

\* A declaration made and answered while the stream was open is in force for as long as
\* the relay serves that stream: the dedupe on lastKey suppresses nothing it should not.
DeclaredOnOpenStreamSticks ==
  (/\ tab.open /\ tab.stream = "open" /\ Served(tab.gen)
   /\ sync.post = Nothing /\ sync.lastKey # Nothing /\ keyOnOpen)
  => watched = sync.lastKey

\* A closed tab's watch set goes with its stream: once nothing of it is on its way any
\* more and its stream is the one in force, the set is dropped.
ClosedTabIsForgotten ==
  (/\ ~tab.open /\ net = {} /\ gets = {}
   /\ generation # 0 /\ guards[generation] # NoGuard) ~> (watched = Nothing)

\* watched-threads.js: the latest target is remembered "and the in-flight call deliver[s]
\* it when it lands ... rather than waiting for some later unrelated render to notice".
LatestTargetIsDelivered ==
  (sync.post = Nothing /\ sync.lastKey # Nothing) => sync.lastKey = sync.rendered
===============================================================================
