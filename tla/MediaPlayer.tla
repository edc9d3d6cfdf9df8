---------------------------- MODULE MediaPlayer ----------------------------
(***************************************************************************)
(* The media player, librkmediaplayer/source/src/RK_mediaplayer.c.         *)
(*                                                                         *)
(* A player drives a GStreamer playbin and keeps a playlist: a doubly      *)
(* linked list and the current track, under playlist_mutex.  The           *)
(* application's thread calls the operations; listen_playbin_bus, begun by *)
(* the first successful play, calls RK_mediaplayer_next when the playbin   *)
(* says that a stream has ended.  Both choose a track under the mutex and  *)
(* play it outside, in several calls to the playbin: what happens when     *)
(* these interleave is what this module is about.                          *)
(*                                                                         *)
(* Position, duration, seeking and the messages that are only handed to    *)
(* the callback are left out.  The application has one thread, and its     *)
(* callback does not call the player.                                      *)
(***************************************************************************)
EXTENDS Integers

CONSTANTS
  MaxTracks,   \* bound on the tracks ever added
  MaxEos,      \* bound on the end-of-stream messages on the bus
  URL,         \* what RK_mediaplayer_play is called with by the application
  NULL

ASSUME BoundsAssumption == MaxTracks \in Nat /\ MaxEos \in Nat \ {0}

Tracks == 1..MaxTracks     \* list nodes, in the order of their allocation

ASSUME NullAssumption == NULL \notin Tracks /\ URL \notin Tracks /\ URL # NULL

Modes == {"SEQ", "RAND", "SINGLE", "LOOP"}
Threads == {"app", "listener"}

VARIABLES
  playlist_start, playlist_end, playlist_current,
  next, prev,      \* the links of the nodes
  playlist_cnt,
  playlist_mode,
  added,           \* how many nodes were allocated
  freed,           \* those that were freed
  playbin,         \* uri is the property, playing what the pipeline was built
                   \* for (NULL if it is not), failed that starting failed
  bus,             \* the number of end-of-stream messages to be popped
  terminate,
  pc, cur_music,   \* of each thread: where it is, what it has chosen to play
  disturbed        \* history: since a track was last chosen both threads used
                   \* the playbin at once, or play gave up

list == <<playlist_start, playlist_end, playlist_current, next, prev,
          playlist_cnt, added, freed>>
vars == <<list, playlist_mode, playbin, bus, terminate, pc, cur_music, disturbed>>

(* In RK_mediaplayer_play: about to read the state of the playbin, to set  *)
(* it READY, or NULL, to set the uri, to start it.  Both threads are       *)
(* crashed once freed memory was read: nothing is known any more.          *)
Playing == {"get_state", "ready", "null", "set_uri", "start"}
AppStates ==
  Playing \cup {"idle", "pause", "resume", "clear", "join", "destroyed", "crashed"}
ListenerStates == Playing \cup {"none", "pop", "eos", "check", "exited", "crashed"}

Pointer == Tracks \cup {NULL}

Playbin == [state : {"NULL", "READY", "PAUSED", "PLAYING"},
            uri : Pointer \cup {URL}, playing : Pointer \cup {URL},
            ended : BOOLEAN, failed : BOOLEAN]

(* Type invariant, and: no thread has chosen to play nothing.              *)
TypeOK ==
  /\ {playlist_start, playlist_end, playlist_current} \subseteq Pointer
  /\ next \in [Tracks -> Pointer] /\ prev \in [Tracks -> Pointer]
  /\ playlist_cnt \in 0..MaxTracks
  /\ playlist_mode \in Modes
  /\ added \in 0..MaxTracks
  /\ freed \in SUBSET Tracks
  /\ playbin \in Playbin
  /\ bus \in 0..MaxEos
  /\ {terminate, disturbed} \subseteq BOOLEAN
  /\ pc["app"] \in AppStates /\ pc["listener"] \in ListenerStates
  /\ DOMAIN pc = Threads
  /\ cur_music \in [Threads -> Pointer \cup {URL}]
  /\ \A p \in Threads : pc[p] \in Playing => cur_music[p] # NULL

-----------------------------------------------------------------------------
(* The playlist.                                                           *)

Nodes == (1..added) \ freed

Or(n, m) == IF n = NULL THEN m ELSE n

(* rand() % playlist_cnt, and never a step of 0.                           *)
RandSteps_Zero == 0..(playlist_cnt - 1)
RandSteps == {IF r = 0 THEN 1 ELSE r : r \in 0..(playlist_cnt - 1)}

(* Where k steps along the list lead, beginning again after its end.       *)
Wrapped == [n \in Tracks |-> Or(next[n], playlist_start)]
Walks(from, k) ==
  {w \in [0..k -> Tracks] : w[0] = from /\ \A i \in 1..k : w[i] = Wrapped[w[i - 1]]}
RandomTracks(from) ==
  IF playlist_cnt <= 1 THEN {from}
  ELSE UNION {{w[k] : w \in Walks(from, k)} : k \in RandSteps}

(* The tracks that RK_mediaplayer_next and RK_mediaplayer_prev may choose  *)
(* after the given one.                                                    *)
NextTracks_Unwrapped(from) ==
  CASE playlist_mode \in {"SEQ", "LOOP"} -> {next[from]}
    [] playlist_mode = "RAND"            -> RandomTracks(from)
    [] playlist_mode = "SINGLE"          -> {from}
NextTracks(from) ==
  CASE playlist_mode = "SEQ"    -> {next[from]}
    [] playlist_mode = "RAND"   -> RandomTracks(from)
    [] playlist_mode = "SINGLE" -> {from}
    [] playlist_mode = "LOOP"   -> {Or(next[from], playlist_start)}

PrevTracks_ToStart(from) ==
  CASE playlist_mode = "SEQ"    -> {Or(prev[from], from)}
    [] playlist_mode = "RAND"   -> RandomTracks(from)
    [] playlist_mode = "SINGLE" -> {from}
    [] playlist_mode = "LOOP"   -> {Or(prev[from], playlist_start)}
PrevTracks(from) ==
  CASE playlist_mode = "SEQ"    -> {Or(prev[from], from)}
    [] playlist_mode = "RAND"   -> RandomTracks(from)
    [] playlist_mode = "SINGLE" -> {from}
    [] playlist_mode = "LOOP"   -> {Or(prev[from], playlist_end)}

(* Inserting node n at the end.                                            *)
Insert_Unlinked(n) ==
  /\ IF playlist_end # NULL
     THEN next' = [next EXCEPT ![playlist_end] = n] /\ UNCHANGED <<prev, playlist_start>>
     ELSE playlist_start' = n /\ UNCHANGED <<next, prev>>
  /\ playlist_end' = n
Insert(n) ==
  /\ IF playlist_end # NULL
     THEN /\ prev' = [prev EXCEPT ![n] = playlist_end]
          /\ next' = [next EXCEPT ![playlist_end] = n]
          /\ UNCHANGED playlist_start
     ELSE playlist_start' = n /\ UNCHANGED <<next, prev>>
  /\ playlist_end' = n

-----------------------------------------------------------------------------
(* The playbin: what gst_element_set_state does to it and to its bus.      *)

CanStart == playbin.uri # NULL

Reset(state) ==
  playbin' = [playbin EXCEPT !.state = state, !.playing = NULL, !.ended = FALSE,
                             !.failed = FALSE]
Started(state) ==
  IF playbin.state \in {"NULL", "READY"}
  THEN playbin' = [playbin EXCEPT !.state = state, !.playing = playbin.uri,
                                  !.ended = FALSE, !.failed = FALSE]
  ELSE playbin' = [playbin EXCEPT !.state = state, !.failed = FALSE]
StartFails ==
  playbin.state # "PLAYING" /\ playbin' = [playbin EXCEPT !.failed = TRUE]

(* Going to NULL discards what is on the bus.                              *)
StopPlaybin == Reset("NULL") /\ bus' = 0

Busy(p) == pc[p] \in Playing
Other(p) == IF p = "app" THEN "listener" ELSE "app"
Disturb(p) == disturbed' = (disturbed \/ Busy(Other(p)))

-----------------------------------------------------------------------------
(* RK_mediaplayer_play, in the thread p.                                   *)

Goto(p, place) == pc' = [pc EXCEPT ![p] = place]
Home(p) == IF p = "app" THEN "idle" ELSE "check"

(* The thread p has chosen the track n, under the mutex, and plays it.     *)
Choose_Stale(p, n) ==
  /\ cur_music' = [cur_music EXCEPT ![p] = Or(playlist_current, n)]
  /\ disturbed' = Busy(Other(p))
  /\ Goto(p, "get_state")
Choose(p, n) ==
  /\ cur_music' = [cur_music EXCEPT ![p] = n]
  /\ disturbed' = Busy(Other(p))
  /\ Goto(p, "get_state")

Freed(p) == cur_music[p] \in freed

(* Reading the url of a node that was freed, here or when it is set.       *)
ReadFreed(p) ==
  /\ pc[p] \in {"get_state", "set_uri"} /\ Freed(p)
  /\ pc' = [q \in Threads |-> "crashed"]
  /\ cur_music' = [q \in Threads |-> NULL]
  /\ UNCHANGED <<list, playlist_mode, playbin, bus, terminate, disturbed>>

(* When starting has failed it says so and play gives up.                  *)
GetState(p) ==
  /\ pc[p] = "get_state" /\ ~Freed(p)
  /\ IF playbin.failed
     THEN /\ Goto(p, Home(p))
          /\ cur_music' = [cur_music EXCEPT ![p] = NULL]
          /\ disturbed' = TRUE
     ELSE /\ Goto(p, IF playbin.state = "PLAYING" THEN "ready" ELSE "null")
          /\ UNCHANGED <<cur_music, disturbed>>
  /\ UNCHANGED <<list, playlist_mode, playbin, bus, terminate>>

ResetPlaybin(p) ==
  /\ \/ pc[p] = "ready" /\ Reset("READY") /\ UNCHANGED bus
     \/ pc[p] = "null" /\ StopPlaybin
  /\ Goto(p, "set_uri")
  /\ Disturb(p)
  /\ UNCHANGED <<list, playlist_mode, terminate, cur_music>>

SetUri(p) ==
  /\ pc[p] = "set_uri" /\ ~Freed(p)
  /\ playbin' = [playbin EXCEPT !.uri = cur_music[p]]
  /\ Goto(p, "start")
  /\ Disturb(p)
  /\ UNCHANGED <<list, playlist_mode, bus, terminate, cur_music>>

(* Starting, which fails for a bad url unless the playbin plays already,   *)
(* and beginning the listener after the first success.                     *)
Start(p) ==
  /\ pc[p] = "start"
  /\ \/ /\ Started("PLAYING")
        /\ pc' = IF pc["listener"] = "none"
                 THEN [pc EXCEPT ![p] = Home(p), !["listener"] = "pop"]
                 ELSE [pc EXCEPT ![p] = Home(p)]
     \/ StartFails /\ Goto(p, Home(p))
  /\ cur_music' = [cur_music EXCEPT ![p] = NULL]
  /\ Disturb(p)
  /\ UNCHANGED <<list, playlist_mode, bus, terminate>>

Play(p) == ReadFreed(p) \/ GetState(p) \/ ResetPlaybin(p) \/ SetUri(p) \/ Start(p)

-----------------------------------------------------------------------------
(* The operations on the playlist.                                         *)

Nothing_Unchecked(n) == FALSE
Nothing(n) == n = NULL

RK_mediaplayer_next(p) ==
  /\ \E n \in IF playlist_current = NULL THEN {playlist_start}
              ELSE NextTracks(playlist_current) :
       /\ playlist_current' = n
       /\ IF Nothing(n)
          THEN Goto(p, Home(p)) /\ UNCHANGED <<cur_music, disturbed>>
          ELSE Choose(p, n)
  /\ UNCHANGED <<playlist_start, playlist_end, next, prev, playlist_cnt, added,
                 freed, playlist_mode, playbin, bus, terminate>>

RK_mediaplayer_prev(p) ==
  /\ \E n \in IF playlist_current = NULL THEN {playlist_end}
              ELSE PrevTracks(playlist_current) :
       /\ playlist_current' = n
       /\ IF Nothing(n) THEN UNCHANGED <<pc, cur_music, disturbed>> ELSE Choose(p, n)
  /\ UNCHANGED <<playlist_start, playlist_end, next, prev, playlist_cnt, added,
                 freed, playlist_mode, playbin, bus, terminate>>

(* With a current track it does nothing.                                   *)
RK_mediaplayer_start_playlist(p) ==
  /\ playlist_current = NULL /\ playlist_end # NULL
  /\ playlist_current' = playlist_end
  /\ Choose(p, playlist_end)
  /\ UNCHANGED <<playlist_start, playlist_end, next, prev, playlist_cnt, added,
                 freed, playlist_mode, playbin, bus, terminate>>

RK_mediaplayer_add_music ==
  /\ added < MaxTracks
  /\ added' = added + 1
  /\ Insert(added + 1)
  /\ playlist_cnt' = playlist_cnt + 1
  /\ UNCHANGED <<playlist_current, freed, playlist_mode, playbin, bus, terminate,
                 pc, cur_music, disturbed>>

(* The rest of RK_mediaplayer_clear_playlist after it has stopped the      *)
(* player.                                                                 *)
Clear ==
  /\ pc["app"] = "clear"
  /\ playlist_start' = NULL /\ playlist_end' = NULL /\ playlist_current' = NULL
  /\ playlist_cnt' = 0
  /\ freed' = 1..added
  /\ Goto("app", "idle")
  /\ UNCHANGED <<next, prev, added, playlist_mode, playbin, bus, terminate,
                 cur_music, disturbed>>

RK_mediaplayer_set_mode(mode) ==
  /\ playlist_mode' = mode
  /\ UNCHANGED <<list, playbin, bus, terminate, pc, cur_music, disturbed>>

-----------------------------------------------------------------------------
(* The operations on the playbin, and RK_mediaplayer_destroy.              *)

RK_mediaplayer_play ==
  /\ Choose("app", URL)
  /\ UNCHANGED <<list, playlist_mode, playbin, bus, terminate>>

(* Alone, or as the beginning of RK_mediaplayer_clear_playlist.            *)
RK_mediaplayer_stop(then) ==
  /\ StopPlaybin
  /\ Goto("app", then)
  /\ Disturb("app")
  /\ UNCHANGED <<list, playlist_mode, terminate, cur_music>>

RK_mediaplayer_pause ==
  /\ playbin.state = "PLAYING" /\ ~playbin.failed
  /\ Goto("app", "pause")
  /\ UNCHANGED <<list, playlist_mode, playbin, bus, terminate, cur_music,
                 disturbed>>

RK_mediaplayer_resume ==
  /\ playbin.state # "PLAYING" /\ ~playbin.failed
  /\ Goto("app", "resume")
  /\ UNCHANGED <<list, playlist_mode, playbin, bus, terminate, cur_music,
                 disturbed>>

(* The rest of pause and resume.                                           *)
SetState ==
  /\ \/ pc["app"] = "pause" /\ Started("PAUSED")
     \/ pc["app"] = "resume" /\ CanStart /\ Started("PLAYING")
     \/ pc["app"] = "resume" /\ StartFails
  /\ Goto("app", "idle")
  /\ Disturb("app")
  /\ UNCHANGED <<list, playlist_mode, bus, terminate, cur_music>>

RK_mediaplayer_destroy ==
  /\ terminate' = TRUE
  /\ Goto("app", "join")
  /\ UNCHANGED <<list, playlist_mode, playbin, bus, cur_music, disturbed>>

(* The rest of it: pthread_join waits for a listener that was begun.       *)
Joined ==
  /\ pc["app"] = "join" /\ pc["listener"] \in {"none", "exited"}
  /\ StopPlaybin
  /\ Goto("app", "destroyed")
  /\ UNCHANGED <<list, playlist_mode, terminate, cur_music, disturbed>>

-----------------------------------------------------------------------------
(* listen_playbin_bus.                                                     *)

(* gst_bus_timed_pop_filtered, which gives up after 100 ms, and the        *)
(* callback for an end of stream.                                          *)
Pop ==
  /\ pc["listener"] = "pop"
  /\ IF bus > 0
     THEN bus' = bus - 1 /\ Goto("listener", "eos")
     ELSE UNCHANGED bus /\ Goto("listener", "check")
  /\ UNCHANGED <<list, playlist_mode, playbin, terminate, cur_music,
                 disturbed>>

Eos == pc["listener"] = "eos" /\ RK_mediaplayer_next("listener")

Check ==
  /\ pc["listener"] = "check"
  /\ IF terminate
     THEN Goto("listener", "exited") /\ StopPlaybin
     ELSE Goto("listener", "pop") /\ UNCHANGED <<playbin, bus>>
  /\ UNCHANGED <<list, playlist_mode, terminate, cur_music, disturbed>>

(* A stream ends, and the playbin says so on its bus.                      *)
TrackEnds ==
  /\ playbin.state = "PLAYING" /\ ~playbin.ended
  /\ bus < MaxEos
  /\ playbin' = [playbin EXCEPT !.ended = TRUE]
  /\ bus' = bus + 1
  /\ UNCHANGED <<list, playlist_mode, terminate, pc, cur_music, disturbed>>

-----------------------------------------------------------------------------
Init ==
  /\ playlist_start = NULL /\ playlist_end = NULL /\ playlist_current = NULL
  /\ next = [n \in Tracks |-> NULL] /\ prev = [n \in Tracks |-> NULL]
  /\ playlist_cnt = 0
  /\ playlist_mode = "SEQ"
  /\ added = 0 /\ freed = {}
  /\ playbin = [state |-> "NULL", uri |-> NULL, playing |-> NULL,
                 ended |-> FALSE, failed |-> FALSE]
  /\ bus = 0
  /\ terminate = FALSE
  /\ pc = [p \in Threads |-> IF p = "app" THEN "idle" ELSE "none"]
  /\ cur_music = [p \in Threads |-> NULL]
  /\ disturbed = FALSE

Idle == pc["app"] = "idle"
App ==
  \/ Idle /\ RK_mediaplayer_next("app")
  \/ Idle /\ RK_mediaplayer_prev("app")
  \/ Idle /\ RK_mediaplayer_start_playlist("app")
  \/ Idle /\ RK_mediaplayer_add_music
  \/ Idle /\ \E mode \in Modes : RK_mediaplayer_set_mode(mode)
  \/ Idle /\ RK_mediaplayer_play
  \/ Idle /\ \E then \in {"idle", "clear"} : RK_mediaplayer_stop(then)
  \/ Idle /\ RK_mediaplayer_pause
  \/ Idle /\ RK_mediaplayer_resume
  \/ Idle /\ RK_mediaplayer_destroy

AppReturns == Play("app") \/ Clear \/ SetState \/ Joined
Listener == Pop \/ Eos \/ Check \/ Play("listener")

Next == App \/ AppReturns \/ Listener \/ TrackEnds

(* The listener runs and its callback returns; the application need not    *)
(* call anything, and a stream need not end.                               *)
Spec == Init /\ [][Next]_vars /\ WF_vars(Listener)

-----------------------------------------------------------------------------
(* What holds.                                                             *)

(* The playlist is the list of the nodes that were added and not freed, in *)
(* the order of their addition, both ways, as long as playlist_cnt says;   *)
(* the current track is one of them.                                       *)
ListIsLinked ==
  /\ playlist_current \in Nodes \cup {NULL}
  /\ IF playlist_start = NULL
     THEN Nodes = {} /\ playlist_end = NULL /\ playlist_cnt = 0
     ELSE /\ Nodes = playlist_start..playlist_end
          /\ playlist_start <= playlist_end
          /\ playlist_cnt = playlist_end - playlist_start + 1
          /\ prev[playlist_start] = NULL /\ next[playlist_end] = NULL
          /\ \A n \in playlist_start..(playlist_end - 1) :
               next[n] = n + 1 /\ prev[n + 1] = n

(* In a loop the next tracks visit the whole list, and in a loop as in     *)
(* sequence prev leads back where next came from.                          *)
PrevUndoesNext ==
  /\ playlist_mode \in {"SEQ", "LOOP"} =>
       \A n \in Nodes : \A m \in NextTracks(n) \ {NULL} : PrevTracks(m) = {n}
  /\ playlist_mode = "LOOP" => UNION {NextTracks(n) : n \in Nodes} = Nodes

(* Shuffled, any track may follow but the current one.                     *)
RandomIsOther ==
  playlist_mode = "RAND" /\ playlist_cnt > 1 =>
    \A n \in Nodes : NextTracks(n) = Nodes \ {n}

(* What plays is the current track, whose title RK_mediaplayer_get_title   *)
(* gives, whichever thread chose it - unless both used the playbin at      *)
(* once, or play gave up because the start before had failed.              *)
PlaysCurrent ==
  /\ ~disturbed
  /\ ~\E p \in Threads : Busy(p) \/ pc[p] = "crashed"
  /\ playbin.state = "PLAYING" /\ playbin.playing \in Nodes
  /\ playlist_current # NULL
  => playbin.playing = playlist_current

(* When a stream has ended the next one is started, but at the end of a    *)
(* sequence and of an empty list.                                          *)
KeepsPlaying ==
  pc["listener"] = "eos" ~>
    \/ playbin.state = "PLAYING" /\ ~playbin.ended
    \/ playlist_mode = "SEQ" \/ Nodes = {}
    \/ playbin.failed \/ pc["listener"] = "crashed"
=============================================================================
