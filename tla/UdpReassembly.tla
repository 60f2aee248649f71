---------------------------- MODULE UdpReassembly ----------------------------
(***************************************************************************)
(* How the receiver puts the fragments of UDP media and preview packets         *)
(* together (receiver_app: handle_fragmented_udp_datagram and its helpers):       *)
(* fragments arrive late, twice, in any order or not at all; assemblies that      *)
(* make no progress expire, and the oldest go when there are too many or they       *)
(* take too many bytes.  A sender that restarts on the same port uses the number    *)
(* of an earlier packet again, for one of another length.                          *)
(***************************************************************************)
EXTENDS Integers, Sequences, FiniteSets, Functions

CONSTANTS
    Packets,       \* what headers say: [key, size, chunks], where key is the endpoint and
                   \* the sequence number
    MaxAssemblies, MaxBytes, \* kPreviewUdpMaxAssemblies, kPreviewUdpMaxAssemblyBytes
    MaxDatagrams   \* bound

VARIABLES
    assemblies,    \* preview_udp_assemblies_: by key [size, chunks, got, layout, age, turn]
    stats,         \* UdpReassemblyStats
    delivered,     \* the packets handed on to handle_media_packet, with their fragments
    datagrams

vars == <<assemblies, stats, delivered, datagrams>>

\* got: the fragments, each with its packet; age: how long ago updated_us is, up to
\* Expired; turn: the order of updated_us, as every datagram has a later now_us.
Expired == 2

NoStats == [valid |-> 0, duplicates |-> 0, started |-> 0, completed |-> 0, expired |-> 0, evicted |-> 0,
            missing |-> 0, invalid |-> 0]

Init == assemblies = <<>> /\ stats = NoStats /\ delivered = <<>> /\ datagrams = 0

Has(a, index) == \E fragment \in a.got : fragment[1] = index
Lacking(a) == {index \in 1..a.chunks : ~Has(a, index)}

Bytes(as) == Cardinality(UNION {{k} \X (1..as[k].size) : k \in DOMAIN as})
With(as, key, a) == [k \in DOMAIN as \cup {key} |-> IF k = key THEN a ELSE as[k]]
Rest(as, gone) == Restrict(as, DOMAIN as \ gone)

\* account_incomplete_udp_assembly_locked
Account(st, as, gone, kind) ==
    [st EXCEPT ![kind] = @ + Cardinality(gone),
               !.missing = @ + Cardinality(UNION {{k} \X Lacking(as[k]) : k \in gone})]

\* The oldest go, one by one, until what is left fits.
Fits(as, most, bytes) == Cardinality(DOMAIN as) <= most /\ Bytes(as) <= bytes
Since(as, k) == Restrict(as, {j \in DOMAIN as : as[j].turn >= as[k].turn})
Evicted(as, most, bytes) == {k \in DOMAIN as : ~Fits(Since(as, k), most, bytes)}

\* cleanup_preview_udp_assemblies_locked
Cleaned(s) ==
    LET expired == {k \in DOMAIN s.as : s.as[k].age = Expired}
        live == Rest(s.as, expired)
        gone == Evicted(live, MaxAssemblies, MaxBytes)
    IN [as |-> Rest(live, gone),
        st |-> Account(Account(s.st, s.as, expired, "expired"), live, gone, "evicted")]

\* reserve_udp_assembly_budget_locked
\* (Mutant of Reserved: what is evicted is not counted.)
ReservedSilently(s, size) ==
    [s EXCEPT !.as = Rest(@, Evicted(@, MaxAssemblies - 1, MaxBytes - size))]
Reserved(s, size) ==
    LET gone == Evicted(s.as, MaxAssemblies - 1, MaxBytes - size)
    IN [as |-> Rest(s.as, gone), st |-> Account(s.st, s.as, gone, "evicted")]

New(p) == [size |-> p.size, chunks |-> p.chunks, got |-> {}, layout |-> TRUE, age |-> 0, turn |-> 0]

\* The assembly a fragment of p goes into: the one there is, a new one, or the one
\* there is begun again because the packet has another length.
Same(a, p) == a.size = p.size /\ a.chunks = p.chunks
Opened(s, p) ==
    LET room == Reserved(s, p.size)
    IN IF p.key \notin DOMAIN s.as
       THEN [as |-> With(room.as, p.key, New(p)), st |-> [room.st EXCEPT !.started = @ + 1]]
       ELSE IF Same(s.as[p.key], p) THEN s
       ELSE [as |-> With(s.as, p.key, New(p)),
             st |-> [Account(s.st, s.as, {p.key}, "evicted") EXCEPT !.started = @ + 1]]

\* What a fragment makes of its assembly; placed: is it where its index says.
Filled(a, p, index, placed) ==
    IF Has(a, index) THEN [a EXCEPT !.age = 0, !.turn = datagrams + 1]
    ELSE [a EXCEPT !.age = 0, !.turn = datagrams + 1, !.got = @ \cup {<<index, p>>},
                   !.layout = @ /\ placed]

\* handle_fragmented_udp_datagram
Datagram(p, index, placed) ==
    /\ datagrams < MaxDatagrams /\ datagrams' = datagrams + 1
    /\ LET cleaned == Cleaned([as |-> assemblies, st |-> stats])
           open == Opened(cleaned, p)
           new == Filled(open.as[p.key], p, index, placed)
           st == [open.st EXCEPT !.valid = @ + 1,
                     !.duplicates = IF Has(open.as[p.key], index) THEN @ + 1 ELSE @]
       IN \/ /\ Lacking(new) # {}
             /\ assemblies' = With(open.as, p.key, new)
             /\ stats' = st /\ UNCHANGED delivered
          \/ /\ Lacking(new) = {} /\ new.layout
             /\ assemblies' = Rest(open.as, {p.key})
             /\ stats' = [st EXCEPT !.completed = @ + 1]
             /\ delivered' = Append(delivered, [packet |-> p, fragments |-> new.got])
          \/ /\ Lacking(new) = {} /\ ~new.layout
             /\ assemblies' = Rest(open.as, {p.key})
             /\ stats' = [st EXCEPT !.evicted = @ + 1, !.invalid = @ + 1]
             /\ UNCHANGED delivered

\* A datagram that is too short, or whose header does not hold together.
Invalid == /\ datagrams < MaxDatagrams /\ datagrams' = datagrams + 1
           /\ stats' = [stats EXCEPT !.invalid = @ + 1] /\ UNCHANGED <<assemblies, delivered>>

\* kPreviewUdpAssemblyTimeoutUs passes in two steps.
TimePasses ==
    /\ \E k \in DOMAIN assemblies : assemblies[k].age < Expired
    /\ assemblies' = [k \in DOMAIN assemblies |->
                        [assemblies[k] EXCEPT !.age = IF @ = Expired THEN Expired ELSE @ + 1]]
    /\ UNCHANGED <<stats, delivered, datagrams>>

Next == Invalid \/ TimePasses
        \/ \E p \in Packets : \E index \in 1..p.chunks, placed \in BOOLEAN : Datagram(p, index, placed)

Spec == Init /\ [][Next]_vars

-----------------------------------------------------------------------------
\* A packet is handed on with all its fragments and with no fragment of another packet;
\* every assembly begun is counted as completed, expired or evicted unless it is still
\* there; there are never too many, and their bytes stay within the limit but for one
\* packet begun again.
ReassemblyAccounted ==
    /\ \A i \in DOMAIN delivered :
          LET p == delivered[i].packet IN delivered[i].fragments = (1..p.chunks) \X {p}
    /\ stats.started = stats.completed + stats.expired + stats.evicted + Cardinality(DOMAIN assemblies)
    /\ Cardinality(DOMAIN assemblies) <= MaxAssemblies
    /\ \E p \in Packets : Bytes(assemblies) <= MaxBytes + p.size
=============================================================================
