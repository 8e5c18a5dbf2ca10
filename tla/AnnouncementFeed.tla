-------------------------- MODULE AnnouncementFeed --------------------------
(***************************************************************************)
(* What the runtime promises to whoever subscribes to the broker, without  *)
(* its goroutines, channels and contexts: collectors announce devices, and *)
(* the feed carries each announcement that is news, of an enabled type, in *)
(* the order of the announcements, none twice, none invented and none left *)
(* out.  It may lag behind, and may stop at any point.                     *)
(***************************************************************************)
EXTENDS Naturals, Sequences, FiniteSets

CONSTANT Devices  \* MAC addresses

VARIABLES
  enabled,   \* the types of event that are enabled
  accepted,  \* the announcements, in the order in which the bus took them
  published  \* the messages that have left for the broker

Type  == {"connected", "disconnected"}
Event == [mac : Devices, type : Type]

\* The announcements of h before the i-th that are about the same device.
Earlier(h, i) == {j \in 1 .. i - 1 : h[j].mac = h[i].mac}

\* An announcement repeats the last one about its device.
Repeats(h, i) ==
  \E j \in Earlier(h, i) :
    h[j].type = h[i].type /\ \A k \in Earlier(h, i) : k <= j

News(h) == {i \in DOMAIN h : h[i].type \in enabled /\ ~Repeats(h, i)}

\* The news among h, in order.
Digest(h) ==
  [n \in 1 .. Cardinality(News(h)) |->
     h[CHOOSE i \in News(h) : Cardinality({j \in News(h) : j <= i}) = n]]

FeedInit ==
  /\ enabled \in SUBSET Type \ {{}}
  /\ accepted = <<>>
  /\ published = <<>>

Announce(e) ==
  /\ accepted' = Append(accepted, e)
  /\ UNCHANGED <<enabled, published>>

PublishNext ==
  /\ Len(published) < Len(Digest(accepted))
  /\ published' = Append(published, Digest(accepted)[Len(published) + 1])
  /\ UNCHANGED <<enabled, accepted>>

FeedNext == (\E e \in Event : Announce(e)) \/ PublishNext

FeedSpec == FeedInit /\ [][FeedNext]_<<enabled, accepted, published>>
=============================================================================
