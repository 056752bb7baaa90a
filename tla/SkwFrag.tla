------------------------------- MODULE SkwFrag -------------------------------
(***************************************************************************)
(* skwifi's defragmentation (skw_rx.c): fragments of several traffic       *)
(* identifiers are collected in a small table, whose oldest entry makes    *)
(* room when it is full, and handed up or relayed when the last one comes. *)
(* Fragments are lost and repeated, and sequence numbers come round again. *)
(***************************************************************************)
EXTENDS Integers, Sequences, FiniteSets, SequencesExt

CONSTANTS
    Tids,           \* traffic identifiers
    Entries,        \* SKW_MAX_DEFRAG_ENTRY
    FragSnMod,      \* the modulus of sequence numbers (4096)
    MaxFrags,       \* the most fragments of an MSDU
    Sent,           \* bound: the MSDUs sent, each with the number of its fragments and where it is
                    \* for: "own" (an echo), "all", "peer" (a station of ours) or "else"
    Networks,       \* the networks considered
    MaxRepeats,     \* bound: repeated fragments
    MaxFragFaults   \* bound: failing allocations

Destinations == {"own", "all", "peer", "else"}

(* A fragment number has few bits, so an MSDU has few fragments. *)
ASSUME FragAssumption ==
    /\ Entries \in Nat \ {0} /\ MaxFrags \in Nat \ {0} /\ {MaxRepeats, MaxFragFaults} \subseteq Nat
    /\ Sent \in Seq([of : 1 .. MaxFrags, dest : Destinations])
    /\ Networks \subseteq [cipher : {"open", "mixed", "ccmp"}, ap : BOOLEAN]

VARIABLES
    frag,       \* iface->frag, in the order of their start: the newest last
    network,    \* "open", "mixed" (CCMP for the peer, TKIP for the group) or "ccmp"; and AP mode
    rxPn,       \* the key's rx_pn of each TID
    cur,        \* the MSDU each TID is sending (with ghosts: whether all of it arrived so far,
                \* and how many others have started since)
    count,      \* MSDUs on each TID
    up,         \* the MSDU just handed over: its fragments and where it went
    bad,        \* an MSDU of which everything arrived in time was lost (ghost)
    repeats,    \* bound: repeated fragments left
    fragFuel

FragVars == <<frag, network, rxPn, cur, count, up, bad, repeats, fragFuel>>

NoMsdu == [n |-> -1, k |-> 0, of |-> 0, dest |-> "else", ok |-> FALSE, newer |-> 0]
Nothing == [list |-> <<>>, to |-> {}]

FragInit ==
    /\ frag = <<>> /\ network \in Networks
    /\ rxPn = [t \in Tids |-> 0] /\ cur = [t \in Tids |-> NoMsdu] /\ count = [t \in Tids |-> 0]
    /\ up = Nothing /\ bad = FALSE
    /\ repeats = MaxRepeats /\ fragFuel = [msdus |-> 0, faults |-> MaxFragFaults]

(* A sender numbers the fragments of an MSDU, and gives them packet numbers, one by one. *)
Fragment(t, k) ==
    LET m == cur[t]
    IN [n |-> m.n, tid |-> t, sn |-> (count[t] - 1) % FragSnMod, frag_num |-> k, more |-> k + 1 < m.of,
        pn |-> m.n * MaxFrags + k + 1]

----------------------------------------------------------------------------
(* The table.  An entry that is not in it is inactive: its tid is invalid, so nothing finds it. *)

Found(f) == {e \in DOMAIN frag : frag[e].tid = f.tid /\ frag[e].sn = f.sn}

Without(e) == [i \in 1 .. Len(frag) - 1 |-> frag[IF i < e THEN i ELSE i + 1]]

(* skw_frag_get_entry for a first fragment: its own entry, an inactive one, or the oldest. *)
skw_frag_get_entry(f) ==
    IF Found(f) # {} THEN Without(CHOOSE e \in Found(f) : TRUE)
    ELSE IF Len(frag) < Entries THEN frag ELSE Tail(frag)

skw_frag_init_entry(f) ==
    frag' = Append(skw_frag_get_entry(f),
                   [tid |-> f.tid, sn |-> f.sn, frag_num |-> 0, chk |-> network.cipher = "ccmp",
                    last_pn |-> f.pn, list |-> <<f>>])

(* skw_pn_allowed, as far as fragments go: a number below the last of its TID is dropped. *)
Replay(f) == network.cipher # "open" /\ f.pn < rxPn[f.tid]

(* Fault: the packet numbers of fragments are not compared. *)
PnFollows_any(e, f) == TRUE

(* The packet numbers of one MSDU go up by one. *)
PnFollows(e, f) == e.chk => f.pn = e.last_pn + 1

(* skw_deliver_skb: an echo is dropped; an access point relays what is for its stations, and a
   copy of what is for all, if it can make one. *)
skw_deliver_skb(dest, copied) ==
    CASE dest = "own" -> {}
      [] dest = "all" /\ network.ap -> IF copied THEN {"air", "up"} ELSE {"up"}
      [] dest = "peer" /\ network.ap -> {"air"}
      [] OTHER -> {"up"}

HandsUp(list, dest) ==
    \/ up' = [list |-> list, to |-> skw_deliver_skb(dest, TRUE)] /\ UNCHANGED fragFuel
    \/ /\ dest = "all" /\ network.ap /\ fragFuel.faults > 0
       /\ fragFuel' = [fragFuel EXCEPT !.faults = @ - 1]
       /\ up' = [list |-> list, to |-> skw_deliver_skb(dest, FALSE)]

Drops == up' = Nothing /\ UNCHANGED <<frag, fragFuel>>

(* skw_rx_defragment. *)
skw_rx_defragment(f, dest) ==
    IF f.frag_num = 0 /\ ~f.more THEN HandsUp(<<f>>, dest) /\ UNCHANGED frag
    ELSE IF f.frag_num = 0 THEN skw_frag_init_entry(f) /\ up' = Nothing /\ UNCHANGED fragFuel
    ELSE IF Found(f) = {} THEN Drops
    ELSE LET i == CHOOSE e \in Found(f) : TRUE
             e == frag[i]
             list == Append(e.list, f)
         IN IF e.frag_num + 1 # f.frag_num \/ ~PnFollows(e, f) THEN Drops
            ELSE IF f.more
              THEN /\ frag' = [frag EXCEPT ![i] = [e EXCEPT !.frag_num = @ + 1, !.list = list,
                                                   !.last_pn = IF e.chk THEN f.pn ELSE @]]
                   /\ up' = Nothing /\ UNCHANGED fragFuel
              ELSE /\ frag' = Without(i)
                   /\ \/ HandsUp(list, dest)
                      \/ /\ fragFuel.faults > 0     \* pskb_expand_head fails
                         /\ fragFuel' = [fragFuel EXCEPT !.faults = @ - 1]
                         /\ up' = Nothing

(* skw_rx_handler for one frame. *)
skw_rx_handler(f, dest) ==
    IF Replay(f) THEN Drops /\ UNCHANGED rxPn
    ELSE /\ rxPn' = [rxPn EXCEPT ![f.tid] = IF network.cipher = "open" THEN @ ELSE f.pn]
         /\ skw_rx_defragment(f, dest)

----------------------------------------------------------------------------
(* The sender and the air. *)

Begins(t) ==
    /\ cur[t].k = cur[t].of /\ fragFuel.msdus < Len(Sent)
    /\ LET m == Sent[fragFuel.msdus + 1]
       IN cur' = [cur EXCEPT ![t] = [n |-> fragFuel.msdus, k |-> 0, of |-> m.of, dest |-> m.dest,
                                     ok |-> TRUE, newer |-> 0]]
    /\ count' = [count EXCEPT ![t] = @ + 1]
    /\ fragFuel' = [fragFuel EXCEPT !.msdus = @ + 1]
    /\ up' = Nothing
    /\ UNCHANGED <<frag, network, rxPn, bad, repeats>>

(* Another MSDU has taken an entry. *)
Newer(t, f) == [s \in Tids |-> IF s # t /\ f.frag_num = 0 /\ f.more THEN [cur[s] EXCEPT !.newer = @ + 1] ELSE cur[s]]

(* What must come through: all of it arrived, its entry cannot have been the oldest of a full
   table, the memory sufficed, and it is no echo. *)
Due(t) == cur[t].ok /\ cur[t].newer < Entries /\ cur[t].dest # "own" /\ fragFuel'.faults = fragFuel.faults

Arrives(t) ==
    /\ cur[t].k < cur[t].of
    /\ LET f == Fragment(t, cur[t].k)
       IN /\ skw_rx_handler(f, cur[t].dest)
          /\ cur' = [Newer(t, f) EXCEPT ![t].k = @ + 1]
          /\ bad' = (bad \/ (Due(t) /\ ~f.more /\ up'.to = {}))
    /\ UNCHANGED <<network, count, repeats>>

Lost(t) ==
    /\ cur[t].k < cur[t].of
    /\ cur' = [cur EXCEPT ![t] = [cur[t] EXCEPT !.k = @ + 1, !.ok = FALSE]]
    /\ up' = Nothing
    /\ UNCHANGED <<frag, network, rxPn, count, bad, repeats, fragFuel>>

(* The last fragment sent comes a second time.  An unfragmented frame that does is stopped by the
   firmware. *)
Repeats(t) ==
    /\ cur[t].k > 0 /\ cur[t].of > 1 /\ repeats > 0
    /\ LET f == Fragment(t, cur[t].k - 1)
       IN skw_rx_handler(f, cur[t].dest) /\ cur' = Newer(t, f)
    /\ repeats' = repeats - 1
    /\ UNCHANGED <<network, count, bad>>

FragNext == \E t \in Tids : Begins(t) \/ Arrives(t) \/ Lost(t) \/ Repeats(t)

FragSpec == FragInit /\ [][FragNext]_FragVars

----------------------------------------------------------------------------
(* What is handed up is fragment 0 to the last, none missing and none twice; under CCMP they are
   of one MSDU, although its sequence number has been used before (skw_rx_defragment). *)
FragWhole ==
    LET list == up.list
    IN list # <<>> =>
         /\ \A k \in DOMAIN list : list[k].frag_num = k - 1 /\ (list[k].more <=> k < Len(list))
         /\ network.cipher = "ccmp" => \A k \in DOMAIN list : list[k].n = list[1].n

(* An MSDU all of whose fragments arrive is handed over, however many others were left incomplete
   before it, unless a full table of others has started since (skw_frag_get_entry). *)
FragSurvives == ~bad

(* Fragments are put together whole or not at all, and one MSDU's do not push out another's.
   *)
FragSafe == FragWhole /\ FragSurvives
=============================================================================
