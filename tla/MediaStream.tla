----------------------------- MODULE MediaStream -----------------------------
(***************************************************************************)
(* What a media path of the sender promises whoever reads its connection: a   *)
(* first-in first-out stream that may lose packets, never duplicates one and  *)
(* never delivers one out of encoder order.  Losses happen to packets that    *)
(* wait, on the arrival of a new one (the queue makes room or refuses it) or  *)
(* on their own (the keyframe guard, a failed write).                         *)
(***************************************************************************)
EXTENDS Naturals, Sequences, SequencesExt

VARIABLES
    buffer,     \* packets published and not yet delivered or lost
    delivered,  \* packets delivered, oldest first
    next        \* id of the next packet

Init == buffer = <<>> /\ delivered = <<>> /\ next = 1

\* The new packet, if it is not itself refused, goes behind what is kept: some
\* packets waiting behind position i make room for it.
Publish ==
    /\ next' = next + 1
    /\ \/ buffer' = buffer
       \/ \E i \in 0..Len(buffer), j \in 0..Len(buffer) :
            /\ i <= j
            /\ Len(buffer') = i + (Len(buffer) - j) + 1
            /\ Front(buffer') = SubSeq(buffer, 1, i) \o SubSeq(buffer, j + 1, Len(buffer))
            /\ Last(buffer').id = next
    /\ UNCHANGED delivered

Deliver ==
    /\ buffer # <<>>
    /\ delivered' = Append(delivered, Head(buffer))
    /\ buffer' = Tail(buffer)
    /\ UNCHANGED next

Lose ==
    /\ \E i \in 1..Len(buffer) : buffer' = RemoveAt(buffer, i)
    /\ UNCHANGED <<delivered, next>>

Next == Publish \/ Deliver \/ Lose

Spec == Init /\ [][Next]_<<buffer, delivered, next>>
=============================================================================
