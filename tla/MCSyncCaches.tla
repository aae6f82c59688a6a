---------------------------- MODULE MCSyncCaches ----------------------------
(* Instances of SyncCaches for TLC. *)
EXTENDS SyncCaches, TLC

MCFds == 0..6

Symmetry == Permutations(Threads) \cup Permutations(Futures)

(***************************************************************************)
(* States up to the numbers of the descriptors: which places share a       *)
(* descriptor, and what the object of each place is and watches.           *)
(***************************************************************************)
Kept == [p \in Places |-> KeptAt(p)]

PlacesOf(ds, kept) == {p \in Places : kept[p] \in ds}

View ==
    LET kept == Kept
        of(d) == [at |-> PlacesOf({d}, kept), kind |-> objects[d].kind,
                  signaled |-> objects[d].signaled,
                  watched |-> PlacesOf(objects[d].watched, kept)]
    IN  <<alive, [t \in Threads |-> <<events[t].latest, latched[t].event_cache.latest>>],
          [f \in Futures |-> <<future[f].type, future[f].upstream, future[f].attached,
                               future[f].notify_event, future[f].announced>>],
          {of(d) : d \in {e \in Fds : objects[e].kind # "closed"}},
          {p \in Places : kept[p] = FD_INVALID}>>
=============================================================================
