----------------------------- MODULE EventStream ------------------------------
(***************************************************************************)
(* How a page follows a run: DeployManager._emit keeps the newest snapshot,  *)
(* saves it and offers it to every subscriber's one-slot queue; subscribe()  *)
(* and _event_stream (routes/api.py) hand it on as events; the browser's     *)
(* EventSource connects again whenever the stream ends.                      *)
(*                                                                           *)
(* A snapshot is its number.  The last one is the finale (or the error), on  *)
(* which the page closes the stream for good.                                *)
(***************************************************************************)
EXTENDS Naturals

CONSTANTS
  Page,     \* pages that watch
  LastSnap  \* bound: snapshots of the run, the last of them its finale

ASSUME StreamAssumption == LastSnap \in Nat \ {0}

VARIABLES
  snap,       \* the newest snapshot (_snapshot)
  disk,       \* the one deploy.json holds
  subscribed, \* pages whose queue _emit still feeds (_subscribers)
  queue,      \* what waits in a page's queue, 0 for nothing
  stream,     \* a page's stream: "off", "open", "ending" or "closed" for good
  shown       \* what a page has painted, 0 for what it came with

streamVars == <<snap, disk, subscribed, queue, stream, shown>>

Snap == 0 .. LastSnap

StreamTypeOK ==
  /\ snap \in Snap /\ disk \in Snap /\ disk = snap
  /\ subscribed \subseteq {p \in Page : stream[p] = "open"}
  /\ queue \in [Page -> Snap] /\ shown \in [Page -> Snap]
  /\ stream \in [Page -> {"off", "open", "ending", "closed"}]

StreamInit ==
  /\ snap = 1 /\ disk = 1 /\ subscribed = {}
  /\ queue = [p \in Page |-> 0] /\ shown = [p \in Page |-> 0]
  /\ stream = [p \in Page |-> "off"]

------------------------------------------------------------------------------
Watching(p) == stream[p] = "open"

(* Mutant: the snapshot is kept in memory only. *)
EmitUnsaved ==
  /\ snap < LastSnap /\ snap' = snap + 1 /\ UNCHANGED disk
  /\ queue' = [p \in Page |-> IF p \in subscribed /\ queue[p] = 0 THEN snap' ELSE queue[p]]
  /\ subscribed' = {p \in subscribed : queue[p] = 0}
  /\ UNCHANGED <<stream, shown>>

(* A new snapshot: a subscriber whose slot is still taken is fed no longer.   *)
Emit ==
  /\ snap < LastSnap /\ snap' = snap + 1 /\ disk' = snap + 1
  /\ queue' = [p \in Page |-> IF p \in subscribed /\ queue[p] = 0 THEN snap' ELSE queue[p]]
  /\ subscribed' = {p \in subscribed : queue[p] = 0}
  /\ UNCHANGED <<stream, shown>>

(* The page connects; the newest snapshot is the first it gets. *)
OpenStream(p) ==
  /\ stream[p] = "off"
  /\ stream' = [stream EXCEPT ![p] = "open"]
  /\ queue' = [queue EXCEPT ![p] = snap]
  /\ subscribed' = subscribed \union {p}
  /\ UNCHANGED <<snap, disk, shown>>

(* An event reaches the page; after the finale it wants no more. *)
Deliver(p) ==
  /\ Watching(p) /\ queue[p] # 0
  /\ shown' = [shown EXCEPT ![p] = queue[p]]
  /\ queue' = [queue EXCEPT ![p] = 0]
  /\ IF queue[p] = LastSnap
       THEN /\ stream' = [stream EXCEPT ![p] = "closed"]
            /\ subscribed' = subscribed \ {p}
       ELSE UNCHANGED <<stream, subscribed>>
  /\ UNCHANGED <<snap, disk>>

(* Mutant: the subscription outlives the heartbeat. *)
HeartbeatKeeps(p) ==
  /\ Watching(p) /\ queue[p] = 0
  /\ UNCHANGED streamVars

(* A quiet interval: wait_for cancels the wait on the queue, which ends the   *)
(* generator it is in; the page is sent a keep-alive.                         *)
Heartbeat(p) ==
  /\ Watching(p) /\ queue[p] = 0
  /\ stream' = [stream EXCEPT ![p] = "ending"]
  /\ subscribed' = subscribed \ {p}
  /\ UNCHANGED <<snap, disk, queue, shown>>

(* The next round finds the generator at its end.                             *)
StreamEnds(p) ==
  /\ stream[p] = "ending"
  /\ stream' = [stream EXCEPT ![p] = "off"]
  /\ UNCHANGED <<snap, disk, subscribed, queue, shown>>

(* Mutant: a closed tab stays registered. *)
DropUnclosed(p) ==
  /\ Watching(p)
  /\ stream' = [stream EXCEPT ![p] = "off"]
  /\ queue' = [queue EXCEPT ![p] = 0]
  /\ UNCHANGED <<snap, disk, subscribed, shown>>

(* The connection breaks, whatever was on its way. *)
Drop(p) ==
  /\ Watching(p)
  /\ stream' = [stream EXCEPT ![p] = "off"]
  /\ queue' = [queue EXCEPT ![p] = 0]
  /\ subscribed' = subscribed \ {p}
  /\ UNCHANGED <<snap, disk, shown>>

(* A new process knows the snapshot it finds on disk. *)
StreamRestart ==
  /\ snap' = disk
  /\ stream' = [p \in Page |-> IF stream[p] = "closed" THEN "closed" ELSE "off"]
  /\ queue' = [p \in Page |-> 0] /\ subscribed' = {}
  /\ UNCHANGED <<disk, shown>>

------------------------------------------------------------------------------
(* A page never falls behind for good: whatever has been emitted, it paints   *)
(* that or something newer, also after _emit has dropped it, a broken         *)
(* connection or a restart.  That a dropped page recovers rests on the        *)
(* heartbeat ending its stream.                                               *)
PagesCatchUp == \A v \in Snap, p \in Page : snap = v ~> shown[p] >= v

(* No page goes back to what the run had left behind.                         *)
PagesNeverGoBack == [][\A p \in Page : shown'[p] >= shown[p]]_streamVars
==============================================================================
