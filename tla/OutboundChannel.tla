---------------------------- MODULE OutboundChannel ----------------------------
(***************************************************************************)
(* What one browser socket is promised by the server's outbound flow       *)
(* control: an ordered channel that may lose cumulative messages (each is  *)
(* superseded by a later one of its kind) but no other, and that may break *)
(* off at any time, after which nothing more is delivered.                 *)
(***************************************************************************)
EXTENDS Naturals, Sequences

CONSTANTS Message, Cumulative(_)

VARIABLES
    offered,    \* every message the server has asked to send while the channel was up
    pending,    \* retained for later
    delivered,  \* handed to the socket
    up          \* not broken off

vars == <<offered, pending, delivered, up>>

Init == offered = <<>> /\ pending = <<>> /\ delivered = <<>> /\ up = TRUE

(* s without the elements at the positions in R.                           *)
Thin(s, R) ==
    LET thin[n \in 0..Len(s)] ==
          IF n = 0 THEN <<>>
          ELSE IF n \in R THEN thin[n - 1] ELSE Append(thin[n - 1], s[n])
    IN thin[Len(s)]

(* A first part of s is delivered; the rest is retained or lost with the   *)
(* channel.                                                                *)
Move(s) ==
    \E k \in 0..Len(s) :
        /\ delivered' = delivered \o SubSeq(s, 1, k)
        /\ \/ up' = TRUE /\ pending' = SubSeq(s, k + 1, Len(s))
           \/ up' = FALSE /\ pending' = <<>>

Offer(m) ==
    /\ up
    /\ offered' = Append(offered, m)
    /\ LET s == Append(pending, m) IN
       \E R \in SUBSET {i \in DOMAIN s : Cumulative(s[i])} : Move(Thin(s, R))

Drain == up /\ Move(pending) /\ UNCHANGED offered

Next == Drain \/ \E m \in Message : Offer(m)

Spec == Init /\ [][Next]_vars
=============================================================================
