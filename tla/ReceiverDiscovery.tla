-------------------------- MODULE ReceiverDiscovery --------------------------
(***************************************************************************)
(* Which receiver a sender talks to (receiver_target, receiver_discovery_client, *)
(* receiver_discovery_server).  In every cycle the client broadcasts a request,   *)
(* collects the answers of a window, and keeps, moves, switches or gives up its   *)
(* target; its clock client tells the target of every exchange that succeeds.     *)
(* Receivers come up, go down and move to another address; answers get lost; the *)
(* sender restarts with the target it saved.                                   *)
(*                                                                         *)
(* Times are counted in cycles, up to Sticky + 1.                                *)
(***************************************************************************)
EXTENDS Naturals, FiniteSets

CONSTANTS
    Receivers,  \* receiver ids, numbers: the order of std::map
    Hosts, Fallback, \* addresses; the configured one
    Sticky,     \* sticky_timeout_ms
    MaxChanges  \* bound: receivers that start, stop or move; restarts of the sender

VARIABLES
    at,         \* the receivers that run, and where: [Receivers -> Hosts \cup {None}]
    target,     \* ReceiverTarget::current_: [host, id]; id 0 is none
    exchange,   \* the clock exchange under way: "none", "current", "old" (of an earlier target)
    sinceSeen, sinceSuccess, \* last_current_seen_ms, last_success_ms_
    window, candidates, \* is a window over and to be decided on; its answers
    saved,      \* receiver_target.json
    silent,     \* for how long nothing came from each receiver or address
    changes

vars == <<at, target, exchange, sinceSeen, sinceSuccess, window, candidates, saved, silent, changes>>

None == 0
Never == Sticky + 1
Later(age) == IF age = Never THEN Never ELSE age + 1
NoTarget == [host |-> Fallback, id |-> None]
Peers == Receivers \X Hosts

Init ==
    /\ at \in [Receivers -> Hosts \cup {None}]
    /\ \A r, q \in Receivers : at[r] = at[q] => r = q \/ at[r] = None
    /\ target = NoTarget /\ exchange = "none"
    /\ sinceSeen = Never /\ sinceSuccess = Never
    /\ window = FALSE /\ candidates = {} /\ saved = NoTarget
    /\ silent = [p \in Peers |-> Never] /\ changes = 0

-----------------------------------------------------------------------------
\* The world: a receiver starts, stops or moves to a free address.
ReceiverChanges(r) ==
    /\ changes < MaxChanges /\ changes' = changes + 1
    /\ \E h \in (Hosts \ {at[q] : q \in Receivers}) \cup {None} : h # at[r] /\ at' = [at EXCEPT ![r] = h]
    /\ UNCHANGED <<target, exchange, sinceSeen, sinceSuccess, window, candidates, saved, silent>>

\* The sender restarts: ReceiverDiscoveryClient::start loads what was saved.
SenderRestarts ==
    /\ changes < MaxChanges /\ changes' = changes + 1
    /\ target' = saved
    /\ sinceSeen' = IF saved.id = None THEN Never ELSE 0
    /\ sinceSuccess' = Never /\ exchange' = "none" /\ window' = FALSE /\ candidates' = {}
    /\ silent' = [p \in Peers |-> IF saved.id # None /\ (p[1] = saved.id \/ p[2] = saved.host) THEN 0 ELSE Never]
    /\ UNCHANGED <<at, saved>>

-----------------------------------------------------------------------------
\* ReceiverTarget::update_locked
SetTarget(t) ==
    /\ target' = t
    /\ IF t = target THEN UNCHANGED <<sinceSuccess, exchange>>
       ELSE /\ sinceSuccess' = Never
            /\ exchange' = IF exchange = "current" THEN "old" ELSE exchange

\* The clock client starts an exchange with the target, and it succeeds.
ExchangeBegins ==
    /\ exchange = "none" /\ \E r \in Receivers : at[r] = target.host
    /\ exchange' = "current"
    /\ UNCHANGED <<at, target, sinceSeen, sinceSuccess, window, candidates, saved, silent, changes>>

\* ReceiverTarget::mark_success
MarkSuccess ==
    /\ exchange # "none" /\ exchange' = "none"
    /\ IF exchange = "current"
       THEN /\ sinceSuccess' = 0
            /\ silent' = [p \in Peers |-> IF p[2] = target.host THEN 0 ELSE silent[p]]
       ELSE UNCHANGED <<sinceSuccess, silent>>
    /\ UNCHANGED <<at, target, sinceSeen, window, candidates, saved, changes>>

-----------------------------------------------------------------------------
\* A cycle

Up == {r \in Receivers : at[r] # None}

\* The receivers in answered have their answer taken (ReceiverDiscoveryServer::run
\* answers every request; an answer to an earlier one is dropped).
Collect(answered) ==
    /\ ~window /\ window' = TRUE
    /\ candidates' = {[id |-> r, host |-> at[r]] : r \in answered}
    /\ sinceSeen' = Later(sinceSeen) /\ sinceSuccess' = Later(sinceSuccess)
    /\ silent' = [p \in Peers |-> IF \E r \in answered : r = p[1] \/ at[r] = p[2] THEN 0
                                  ELSE Later(silent[p])]
    /\ UNCHANGED <<at, target, exchange, saved, changes>>

\* The answer of the receiver itself, else one from its address.
Same ==
    LET own == {c \in candidates : target.id # None /\ c.id = target.id}
    IN IF own # {} THEN own ELSE {c \in candidates : c.host = target.host}

FirstOf(cs) == CHOOSE c \in cs : \A d \in cs : c.id <= d.id

\* (Mutants of Recent: an exchange does not count; any answer counts.)
RecentSeen == sinceSeen <= Sticky
RecentAny == sinceSeen <= Sticky \/ sinceSuccess <= Sticky \/ candidates # {}
Recent == sinceSeen <= Sticky \/ sinceSuccess <= Sticky

Adopt(c) ==
    /\ SetTarget([host |-> c.host, id |-> c.id])
    /\ sinceSeen' = 0
    /\ saved' \in {saved, [host |-> c.host, id |-> c.id]}

Decide ==
    /\ window /\ window' = FALSE /\ candidates' = {}
    /\ IF Same # {} THEN Adopt(FirstOf(Same))
       ELSE IF Recent THEN UNCHANGED <<target, sinceSuccess, exchange, sinceSeen, saved>>
       ELSE IF candidates # {} THEN Adopt(FirstOf(candidates))
       ELSE SetTarget(NoTarget) /\ UNCHANGED <<sinceSeen, saved>>
    /\ UNCHANGED <<at, silent, changes>>

Next ==
    \/ \E r \in Receivers : ReceiverChanges(r)
    \/ SenderRestarts \/ ExchangeBegins \/ MarkSuccess \/ Decide
    \/ \E answered \in SUBSET Up : Collect(answered)

\* The client cycles for ever; now and again every answer gets through.
Fairness == WF_vars(Decide) /\ SF_vars(Collect(Up))

Spec == Init /\ [][Next]_vars /\ Fairness

-----------------------------------------------------------------------------
LeavesSilent ==
    /\ target.id # None /\ target'.id # target.id /\ target'.host # target.host
    /\ window /\ ~window' /\ changes' = changes
    => silent[<<target.id, target.host>>] > Sticky

\* A sender leaves a receiver only when nothing came from its id or its address,
\* neither an answer nor a clock exchange, for longer than the sticky time; a
\* receiver that moved is followed at once.
LeavesSilentOnly == [][LeavesSilent]_vars

OnlyAt(r, h) == at[r] = h /\ Up = {r}
Targeted(r, h) == target = [host |-> h, id |-> r]

\* A sender finds the receiver that is left: whenever just one runs and stays
\* where it is, the target is, again and again, that receiver at its address.
FindsTheReceiver == \A r \in Receivers, h \in Hosts : <>[]OnlyAt(r, h) => []<>Targeted(r, h)
=============================================================================
