--------------------------- MODULE ThreadedReplay ---------------------------
(***************************************************************************)
(* The two-thread pipeline of                                              *)
(* src/tools/concurrency/threaded_replay_benchmark.cpp: a feed-handler     *)
(* thread pushes events 1 .. EventCount and stamps each after its push;    *)
(* the main thread pops, reads the stamp, runs the engine and finally      *)
(* joins.  Each spins with a yield when the queue refuses it.  The engine  *)
(* is its outcome: an event is processed, or it throws and is counted.     *)
(* The replay always empties its queue; another client may also destroy    *)
(* one that holds events.                                                  *)
(***************************************************************************)
EXTENDS SpscEventQueue

CONSTANTS
  EventCount,
  OtherEvents    \* what the other client pushes

\* The values that travel are the positions in the event vector.
ASSUME ReplayAssumption ==
  /\ EventCount \in Nat \ {0} /\ Events = 1 .. EventCount
  /\ OtherEvents \subseteq Events

VARIABLES
  feedAt,      \* feed thread: "push", "now", "stamp" or "done"
  sent,        \* index of the event being pushed and stamped
  now,         \* the feed thread's clock reading
  pushNs,      \* the shared stamps, 0 until stored
  matchAt,     \* main thread: "pop", "now", "load", "process", "join", "done";
               \* "absent" when the queue has another client
  poppedAt,    \* the main thread's clock reading
  handoff,     \* per event: the HANDOFF sample as <<popped, pushed>>
  processed,   \* events given to the engine, in order
  errorCount,
  clock        \* the steady clock, advanced by every reading

feedVars == <<feedAt, sent, now, pushNs>>
matchVars == <<matchAt, poppedAt, handoff, processed, errorCount>>
replayVars == <<queueVars, feedVars, matchVars, clock>>

consumed == Len(handoff)

ReplayInit ==
  /\ QueueInit
  /\ feedAt \in {"push", "absent"}
  /\ matchAt = IF feedAt = "push" THEN "pop" ELSE "absent"
  /\ sent = 1 /\ now = 0
  /\ pushNs = [i \in Events |-> 0]
  /\ poppedAt = 0
  /\ handoff = <<>> /\ processed = <<>> /\ errorCount = 0
  /\ clock = 0

(***************************************************************************)
(* The feed-handler thread.                                                *)
(***************************************************************************)
\* Mutant of FeedPush: a refused event is dropped instead of retried.
FeedPushDrops ==
  /\ feedAt = "push"
  /\ TryPush(sent) \/ (\E seen \in Cursors : RefreshHead(seen)) \/ Construct
  /\ sent' = IF ppc = "refresh" /\ ppc' = "idle" /\ sent < EventCount
               THEN sent + 1 ELSE sent
  /\ UNCHANGED <<feedAt, now, pushNs, matchVars, clock>>

\* One step of tryPush; a refused push goes round the loop again.
FeedPush ==
  /\ feedAt = "push"
  /\ TryPush(sent) \/ (\E seen \in Cursors : RefreshHead(seen)) \/ Construct
  /\ UNCHANGED <<feedVars, matchVars, clock>>

FeedPushed ==
  /\ feedAt = "push"
  /\ PublishTail
  /\ feedAt' = "now"
  /\ UNCHANGED <<sent, now, pushNs, matchVars, clock>>

FeedNow ==
  /\ feedAt = "now"
  /\ clock' = clock + 1
  /\ now' = clock + 1
  /\ feedAt' = "stamp"
  /\ UNCHANGED <<queueVars, sent, pushNs, matchVars>>

FeedStamp ==
  /\ feedAt = "stamp"
  /\ pushNs' = [pushNs EXCEPT ![sent] = now]
  /\ IF sent = EventCount THEN feedAt' = "done" /\ sent' = sent
                          ELSE feedAt' = "push" /\ sent' = sent + 1
  /\ UNCHANGED <<queueVars, now, matchVars, clock>>

Feed == FeedPush \/ FeedPushed \/ FeedNow \/ FeedStamp

(***************************************************************************)
(* The main thread.                                                        *)
(***************************************************************************)
MatchPop ==
  /\ matchAt = "pop"
  /\ TryPop \/ (\E seen \in Cursors : RefreshTail(seen)) \/ Take \/ DestroyEvent
  /\ UNCHANGED <<feedVars, matchVars, clock>>

MatchPopped ==
  /\ matchAt = "pop"
  /\ PublishHead
  /\ matchAt' = "now"
  /\ UNCHANGED <<feedVars, poppedAt, handoff, processed, errorCount, clock>>

MatchNow ==
  /\ matchAt = "now"
  /\ clock' = clock + 1
  /\ poppedAt' = clock + 1
  /\ matchAt' = "load"
  /\ UNCHANGED <<queueVars, feedVars, handoff, processed, errorCount>>

MatchLoad ==
  /\ matchAt = "load"
  /\ handoff' = Append(handoff, <<poppedAt, pushNs[consumed + 1]>>)
  /\ matchAt' = "process"
  /\ UNCHANGED <<queueVars, feedVars, poppedAt, processed, errorCount, clock>>

MatchProcess ==
  /\ matchAt = "process"
  /\ processed' = Append(processed, taken)
  /\ errorCount' \in {errorCount, errorCount + 1}
  /\ matchAt' = IF consumed < EventCount THEN "pop" ELSE "join"
  /\ UNCHANGED <<queueVars, feedVars, poppedAt, handoff, clock>>

\* join, then the queue goes out of scope.
MatchJoin ==
  /\ matchAt = "join"
  /\ feedAt = "done"
  /\ DestroyQueue
  /\ matchAt' = "done"
  /\ UNCHANGED <<feedVars, poppedAt, handoff, processed, errorCount, clock>>

Match ==
  \/ MatchPop \/ MatchPopped \/ MatchNow \/ MatchLoad \/ MatchProcess
  \/ MatchJoin

\* Two threads of another program: anything is pushed and popped, and the
\* queue is destroyed at any time between calls.
OtherClient ==
  /\ matchAt = "absent"
  /\ QueueNext
  /\ event' \in OtherEvents \cup {Dead}
  /\ UNCHANGED <<feedVars, matchVars, clock>>

ReplayNext == Feed \/ Match \/ OtherClient

ReplaySpec == ReplayInit /\ [][ReplayNext]_replayVars

\* Both threads keep being scheduled, and a store to a cursor becomes visible
\* to a thread that keeps loading it.
SeesHead == FeedPush /\ ppc = "refresh" /\ cachedHead' = head
SeesTail == MatchPop /\ cpc = "refresh" /\ cachedTail' = tail
ReplayFairSpec ==
  /\ ReplaySpec
  /\ WF_replayVars(Feed) /\ WF_replayVars(Match)
  /\ SF_replayVars(SeesHead) /\ SF_replayVars(SeesTail)
-----------------------------------------------------------------------------
\* The engine is given every event, once, in file order, whatever the two
\* threads' interleaving and however often either was refused.
ProcessedInOrder ==
  /\ \A k \in 1 .. Len(processed) : processed[k] = k
  /\ matchAt \in {"join", "done"} => Len(processed) = EventCount

\* The main thread ends with every event processed, the feed thread joined and
\* the queue destroyed: the two spin loops never wait on each other forever.
ReplayTerminates == matchAt = "pop" ~> matchAt = "done" /\ destroyed

\* HANDOFF is the "time from a successful tryPush() to the matching thread's
\* tryPop() of that same event" (threaded_replay_benchmark.cpp:15-16): the
\* stamp it is computed from has been stored and is not later than the pop.
HandoffMeasured ==
  \A k \in 1 .. Len(handoff) :
    0 < handoff[k][2] /\ handoff[k][2] <= handoff[k][1]
=============================================================================
