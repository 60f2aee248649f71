--------------------------- MODULE ClockSyncClient ---------------------------
(***************************************************************************)
(* A sender measures how far its clock is from the receiver's:                *)
(* ClockSyncClient sends a UDP probe, the receiver's ClockSyncManager answers    *)
(* with its own times, the client filters the samples into an offset.           *)
(* Datagrams are lost, duplicated and late, the sender's clock is set, and the   *)
(* discovery may point the client at another receiver at any moment.             *)
(*                                                                         *)
(* A receiver r reads now + Base[r], the sender now + skew.                       *)
(***************************************************************************)
EXTENDS Integers, FiniteSets, Sequences

CONSTANTS
    Base,      \* the receivers' clocks, by receiver
    Skews,     \* values the sender's clock is set to, in order
    MaxDelay,  \* config max_delay_us
    LargeStep, \* 50000
    MaxAge,    \* max_sync_age_us
    Window,    \* config sample_window
    MaxTime, MaxProbes, MaxTargets, MaxInFlight \* bounds

VARIABLES
    now, sets,  \* time; how many times the sender's clock was set
    target,     \* ReceiverTarget: [host, generation]
    client,     \* [pc, host, gen, seq, t1]: the probe it waits for
    probes, responses, \* datagrams that are under way or may come again
    state, samples,    \* ClockSyncClientState; samples_
    targetGen   \* target_generation_

vars == <<now, sets, target, client, probes, responses, state, samples, targetGen>>

Receivers == DOMAIN Base
Skew == Skews[sets + 1]
SenderClock == now + Skew
Idle == [pc |-> "idle", host |-> 0, gen |-> 0, seq |-> 0, t1 |-> 0]
NoState == [valid |-> FALSE, offset |-> 0, lastSync |-> 0]

Init ==
    /\ now = 0 /\ sets = 0
    /\ target = [host |-> 1, generation |-> 1]
    /\ client = Idle /\ probes = {} /\ responses = {}
    /\ state = NoState /\ samples = <<>> /\ targetGen = 0

Tick ==
    /\ now < MaxTime /\ now' = now + 1
    /\ UNCHANGED <<sets, target, client, probes, responses, state, samples, targetGen>>

SetClock ==
    /\ sets + 1 < Len(Skews) /\ sets' = sets + 1
    /\ UNCHANGED <<now, target, client, probes, responses, state, samples, targetGen>>

TargetChanges(r) ==
    /\ r # target.host /\ target.generation < MaxTargets
    /\ target' = [host |-> r, generation |-> target.generation + 1]
    /\ UNCHANGED <<now, sets, client, probes, responses, state, samples, targetGen>>

-----------------------------------------------------------------------------
\* The client

Restarts(gen) == targetGen # gen

SendProbe ==
    /\ client.pc = "idle" /\ client.seq < MaxProbes
    /\ client' = [pc |-> "wait", host |-> target.host, gen |-> target.generation,
                  seq |-> client.seq + 1, t1 |-> SenderClock]
    /\ probes' = IF Cardinality(probes) = MaxInFlight THEN probes  \* lost
                 ELSE probes \cup {[host |-> target.host, seq |-> client.seq + 1, t1 |-> SenderClock]}
    /\ IF Restarts(target.generation) THEN state' = NoState /\ samples' = <<>>
       ELSE UNCHANGED <<state, samples>>
    /\ targetGen' = target.generation
    /\ UNCHANGED <<now, sets, target, responses>>

Lose ==
    /\ \/ \E m \in probes : probes' = probes \ {m} /\ UNCHANGED responses
       \/ \E m \in responses : responses' = responses \ {m} /\ UNCHANGED probes
    /\ UNCHANGED <<now, sets, target, client, state, samples, targetGen>>

Timeout ==
    /\ client.pc = "wait"
    /\ client' = [client EXCEPT !.pc = "idle"]
    /\ UNCHANGED <<now, sets, target, probes, responses, state, samples, targetGen>>

\* (Mutant of Answers: a late answer to an earlier probe is taken for this one.)
AnswersAny(m) == m.host = client.host
\* The sender address, the sequence and t1 must be those of the probe.
Answers(m) == m.host = client.host /\ m.seq = client.seq /\ m.t1 = client.t1

Offset(m, t4) == LET sum == (m.t2 - client.t1) + (m.t3 - t4)
                 IN IF sum >= 0 THEN sum \div 2 ELSE -((-sum) \div 2)
Delay(m, t4) == (t4 - client.t1) - (m.t3 - m.t2)
Apart(a, b) == IF a >= b THEN a - b ELSE b - a

\* A far-away sample is refused as long as the last one is recent.
Stale(t4) == state.lastSync = 0 \/ t4 <= state.lastSync \/ t4 - state.lastSync > MaxAge

\* The half of the samples with the shortest delays; which of two equal delays
\* comes first is up to the sort.
Selected(ss) ==
    {half \in SUBSET (1..Len(ss)) :
        /\ Cardinality(half) = (Len(ss) + 1) \div 2
        /\ \A i \in half, j \in 1..Len(ss) \ half : ss[i].delay <= ss[j].delay}

\* The i-th sample has the median offset of the half.
Median(ss, half, i) ==
    /\ Cardinality({j \in half : ss[j].offset < ss[i].offset}) <= Cardinality(half) \div 2
    /\ Cardinality({j \in half : ss[j].offset <= ss[i].offset}) > Cardinality(half) \div 2

\* 0.8 of the old offset and 0.2 of the new, rounded away from zero at a half.
Blend(old, new) == LET fifths == 4 * old + new
                   IN IF fifths >= 0 THEN (2 * fifths + 5) \div 10 ELSE -((-2 * fifths + 5) \div 10)

Apply(t4, offset, delay) ==
    LET large == state.valid /\ Apart(offset, state.offset) > LargeStep
        kept == IF large THEN <<>> ELSE samples
        more == Append(kept, [offset |-> offset, delay |-> delay])
        new == IF Len(more) > Window THEN Tail(more) ELSE more
    IN IF large /\ ~Stale(t4) THEN UNCHANGED <<state, samples>>
       ELSE /\ samples' = new
            /\ \E half \in Selected(new) : \E i \in half :
                  /\ Median(new, half, i)
                  /\ state' = [valid |-> TRUE, lastSync |-> t4,
                               offset |-> IF state.valid /\ ~large
                                          THEN Blend(state.offset, new[i].offset)
                                          ELSE new[i].offset]

Acceptable(m, t4) == 0 <= Delay(m, t4) /\ Delay(m, t4) <= MaxDelay

TakeResponse(m) ==
    /\ client.pc = "wait" /\ m \in responses
    /\ IF ~Answers(m) \/ SenderClock < client.t1 \/ m.t3 < m.t2
       THEN UNCHANGED <<client, state, samples>>
       ELSE /\ client' = [client EXCEPT !.pc = "idle"]
            /\ IF target.generation = client.gen /\ Acceptable(m, SenderClock)
               THEN Apply(SenderClock, Offset(m, SenderClock), Delay(m, SenderClock))
               ELSE UNCHANGED <<state, samples>>
    /\ responses' = responses \ {m}
    /\ UNCHANGED <<now, sets, target, probes, targetGen>>

-----------------------------------------------------------------------------
\* The receiver's answer (ClockSyncManager::handle_datagram)
Answer(m) ==
    /\ m \in probes /\ Cardinality(responses) < MaxInFlight
    /\ responses' = responses \cup
           {[host |-> m.host, seq |-> m.seq, t1 |-> m.t1, t2 |-> now + Base[m.host], t3 |-> now + Base[m.host]]}
    /\ probes' \in {probes, probes \ {m}}
    /\ UNCHANGED <<now, sets, target, client, state, samples, targetGen>>

Next ==
    \/ Tick \/ SetClock \/ SendProbe \/ Timeout \/ Lose
    \/ \E r \in Receivers : TargetChanges(r)
    \/ \E m \in responses : TakeResponse(m)
    \/ \E m \in probes : Answer(m)

Spec == Init /\ [][Next]_vars

-----------------------------------------------------------------------------
\* The offset the sender reports is that of the receiver it last probed, to
\* within half of the longest round trip it accepts, at one of the settings its
\* own clock had: no late, duplicated or foreign answer, no filtering and no
\* setting of the clock in the middle of a probe gets it further away.
HalfDelay == (MaxDelay + 1) \div 2
OffsetIsMeasured ==
    state.valid =>
        \E r \in Receivers :
            /\ targetGen = target.generation => r = target.host
            /\ \E i \in 1..(sets + 1) : state.offset >= Base[r] - Skews[i] - HalfDelay
            /\ \E i \in 1..(sets + 1) : state.offset <= Base[r] - Skews[i] + HalfDelay
=============================================================================
