------------------------------ MODULE Discover ------------------------------
(***************************************************************************)
(* Discovery of the videos of channels (stages/discover.py discover_all):  *)
(* one producer coroutine per channel, a semaphore around the listing and  *)
(* the delay after it, a bounded queue, and a closer that puts the         *)
(* sentinel when all producers have ended.  Who takes from the queue is    *)
(* the generator in module Intake.                                         *)
(*                                                                         *)
(* yt-dlp is external: a listing names the videos of Catalog[c], which may *)
(* name one twice or share it with another channel, or fails (exit code,   *)
(* timeout).                                                               *)
(***************************************************************************)
EXTENDS Naturals, FiniteSets, Sequences, SequencesExt

CONSTANTS
    Channel,            \* cfg.sources.channels
    Catalog,            \* the videos a channel lists, in order
    MaxConcurrency,     \* max(1, discover.max_concurrency)
    FoundMax,           \* queue_maxsize of the queue
    DiscoverError,      \* an item of the queue: the channel failed
    NoMore              \* an item of the queue: the sentinel

ASSUME DiscoverAssumption ==
    /\ IsFiniteSet(Channel) /\ Channel # {}
    /\ MaxConcurrency \in Nat \ {0}
    /\ FoundMax \in Nat \ {0}
    /\ DiscoverError # NoMore

VARIABLES
    producer,           \* where the coroutine of each channel is
    found,              \* what it has still to put
    foundQ,             \* the queue
    listed              \* channels whose listing succeeded

discoverVars == <<producer, found, foundQ, listed>>

Listed == UNION {ToSet(Catalog[c]) : c \in Channel}

DiscoverTypeOK ==
    /\ producer \in [Channel -> {"created", "listing", "delaying", "putting", "done", "closed"}]
    /\ found \in [Channel -> Seq(Listed \union {DiscoverError})]
    /\ foundQ \in Seq(Listed \union {DiscoverError, NoMore})
    /\ listed \subseteq Channel

DiscoverInit ==
    /\ producer = [c \in Channel |-> "created"]
    /\ found = [c \in Channel |-> <<>>]
    /\ foundQ = <<>>
    /\ listed = {}

\* Who holds the semaphore; the delay is inside it.
Requesting == {c \in Channel : producer[c] \in {"listing", "delaying"}}

StartListing(c) ==
    /\ producer[c] = "created"
    /\ Cardinality(Requesting) < MaxConcurrency
    /\ producer' = [producer EXCEPT ![c] = "listing"]
    /\ UNCHANGED <<found, foundQ, listed>>

\* Mutant of List: a failed listing is raised out of the producer.
ListRaises(c) ==
    /\ producer[c] = "listing"
    /\ \/ /\ producer' = [producer EXCEPT ![c] = "delaying"]
          /\ found' = [found EXCEPT ![c] = Catalog[c]]
          /\ listed' = listed \union {c}
       \/ /\ producer' = [producer EXCEPT ![c] = "raised"]
          /\ UNCHANGED <<found, listed>>
    /\ UNCHANGED foundQ

\* The runner returns the ids of the channel, or raises.
List(c) ==
    /\ producer[c] = "listing"
    /\ producer' = [producer EXCEPT ![c] = "delaying"]
    /\ \/ /\ found' = [found EXCEPT ![c] = Catalog[c]]
          /\ listed' = listed \union {c}
       \/ /\ found' = [found EXCEPT ![c] = <<DiscoverError>>]
          /\ UNCHANGED listed
    /\ UNCHANGED foundQ

\* The sleep of request_delay_s ends and the semaphore is released.
EndDelay(c) ==
    /\ producer[c] = "delaying"
    /\ producer' = [producer EXCEPT ![c] = IF found[c] = <<>> THEN "done" ELSE "putting"]
    /\ UNCHANGED <<found, foundQ, listed>>

FoundFull == Len(foundQ) >= FoundMax

PutFound(c) ==
    /\ producer[c] = "putting"
    /\ ~FoundFull
    /\ foundQ' = Append(foundQ, Head(found[c]))
    /\ found' = [found EXCEPT ![c] = Tail(@)]
    /\ producer' = [producer EXCEPT ![c] = IF Len(found[c]) = 1 THEN "done" ELSE "putting"]
    /\ UNCHANGED listed

\* Mutant of CloseDiscovery: it waits for the listings and not for the puts.
CloseDiscoveryEarly ==
    /\ \A c \in Channel : producer[c] \in {"putting", "done"}
    /\ ~FoundFull
    /\ foundQ' = Append(foundQ, NoMore)
    /\ producer' = [c \in Channel |-> "closed"]
    /\ UNCHANGED <<found, listed>>

\* closer: gather all producers, then put the sentinel.
CloseDiscovery ==
    /\ \A c \in Channel : producer[c] = "done"
    /\ ~FoundFull
    /\ foundQ' = Append(foundQ, NoMore)
    /\ producer' = [c \in Channel |-> "closed"]
    /\ UNCHANGED <<found, listed>>

DiscoverStep ==
    \/ \E c \in Channel : StartListing(c) \/ List(c) \/ EndDelay(c) \/ PutFound(c)
    \/ CloseDiscovery

=============================================================================
