---------------------------- MODULE SkwDataProofs ----------------------------
(***************************************************************************)
(* Proofs about the Wi-Fi driver's command channel.                        *)
(***************************************************************************)
EXTENDS SkwCmd, FiniteSetTheorems, TLAPS

-----------------------------------------------------------------------------
(* SkwCmd: one command at a time, and its own answer.                      *)

CmdFlags == {"ACKED", "DONE", "XMIT", "NO_ACK", "IGNORE_BLOCK_TX"}
Extras == SUBSET {"NO_ACK", "IGNORE_BLOCK_TX"}
Holding(c) == caller[c].at \in {"set", "wait", "up"}
Held == \E c \in Callers : Holding(c)
Setting == \E c \in Callers : caller[c].at = "set"

Caller == [at : {"idle", "down", "set", "wait", "up"}, extra : Extras, seq : Nat, result : Int]
Command == [seq : Nat, hdr : Nat, flags : SUBSET CmdFlags, callback : {"xmit", "try"}, status : Nat]

CmdTypeOK ==
    /\ caller \in [Callers -> Caller]
    /\ cmd \in Command
    /\ sent \subseteq Nat \ {0} /\ acks \subseteq Nat \ {0} /\ acking \in Nat
    /\ abandoned \in BOOLEAN /\ misfired \in BOOLEAN
    /\ Setting \/ trying # "idle" \/ "XMIT" \in cmd.flags => cmd.hdr # 0

(* Who holds the semaphore, while it is counted: a caller, a try_send, which has its timer and its
   callback once it is set up, or nobody.  A try_send that an abort ended may still have XMIT to
   set; a command that is being set up may have either callback. *)
CmdHolder ==
    /\ \A c, d \in Callers : Holding(c) /\ Holding(d) => c = d
    /\ tryHeld \in BOOLEAN /\ ~(Held /\ tryHeld)
    /\ sem = IF Held \/ tryHeld THEN 0 ELSE 1
    /\ trying = "set" => tryHeld
    /\ timer = IF tryHeld /\ trying # "set" THEN "armed" ELSE "off"
    /\ \A c \in Callers : caller[c].at \in {"wait", "up"} => cmd.callback = "xmit"
    /\ tryHeld /\ trying # "set" => cmd.callback = "try"
    /\ tryHeld => "NO_ACK" \notin cmd.flags
    /\ cmd.callback = "try" /\ "NO_ACK" \in cmd.flags => Setting

(* How far its command is: accepted answers are marked, a finished command has been answered,
   aborted or needs no answer, and nothing is under way when nobody holds the semaphore. *)
CmdAnswer ==
    /\ acking # 0 => "ACKED" \in cmd.flags /\ {"DONE", "NO_ACK"} \cap cmd.flags = {}
    /\ "DONE" \in cmd.flags => {"ACKED", "NO_ACK"} \cap cmd.flags # {}
    /\ ~Held /\ ~tryHeld => acking = 0 /\ {"ACKED", "NO_ACK"} \cap cmd.flags # {}
    /\ \A c \in Callers : Holding(c) =>
          /\ cmd.status \in {0, caller[c].seq} /\ cmd.seq \in {0, caller[c].seq}
          /\ acking \in {0, caller[c].seq}
    /\ \A c \in Callers : caller[c].at = "up" =>
          "DONE" \in cmd.flags /\ caller[c].result \in {0, caller[c].seq}

CmdInv == CmdTypeOK /\ (CmdCounted => CmdHolder /\ CmdAnswer)

LEMMA CmdInitInv == CmdInit => CmdInv
<1> SUFFICES ASSUME CmdInit PROVE CmdInv OBVIOUS
<1> USE DEF CmdInit, Holding, Held, Setting, CmdCounted, Idle
<1>1. \A c \in Callers : caller[c] = [at |-> "idle", extra |-> {}, seq |-> 0, result |-> 0] OBVIOUS
<1>4. caller \in [Callers -> Caller] BY DEF Caller, Extras
<1>5. cmd \in Command BY DEF Command, CmdFlags
<1>2. CmdTypeOK BY <1>4, <1>5 DEF CmdTypeOK
<1>3. CmdHolder /\ CmdAnswer BY <1>1 DEF CmdHolder, CmdAnswer
<1> QED BY <1>2, <1>3 DEF CmdInv

(* What CmdHolder says is what CmdExclusive counts. *)
LEMMA CmdInvSafe == CmdInv => CmdSafe
<1> SUFFICES ASSUME CmdInv, CmdCounted PROVE
      /\ Cardinality({c \in Callers : caller[c].at \in {"set", "wait", "up"}}) + (IF tryHeld THEN 1 ELSE 0) + sem = 1
      /\ \A c \in Callers : caller[c].at = "up" => caller[c].result \in {0, caller[c].seq}
  BY DEF CmdSafe, CmdExclusive, CmdOwnAnswer
<1> DEFINE H == {c \in Callers : caller[c].at \in {"set", "wait", "up"}}
<1>1. CASE Held
  <2>1. PICK c \in Callers : Holding(c) BY <1>1 DEF Held
  <2>2. H = {c} BY <2>1 DEF CmdInv, CmdHolder, Holding
  <2>3. Cardinality(H) = 1 BY <2>2, FS_Singleton
  <2> QED BY <1>1, <2>3 DEF CmdInv, CmdHolder, CmdAnswer
<1>2. CASE ~Held
  <2>1. H = {} BY <1>2 DEF Held, Holding
  <2>2. Cardinality(H) = 0 BY <2>1, FS_EmptySet
  <2> QED BY <1>2, <2>2 DEF CmdInv, CmdHolder, CmdAnswer
<1> QED BY <1>1, <1>2

(* A caller that neither held the semaphore nor comes to hold it disturbs nothing. *)
LEMMA CmdBystander ==
    ASSUME CmdInv, NEW c \in Callers, NEW r \in Caller, r.at \notin {"set", "wait", "up"}, ~Holding(c),
           caller' = [caller EXCEPT ![c] = r], UNCHANGED <<sem, cmd, timer, sent, acks, acking, tryHeld, abandoned, misfired, trying>>
    PROVE  CmdInv'
<1>1. caller' \in [Callers -> Caller] BY DEF CmdInv, CmdTypeOK
<1>0. \A d \in Callers : caller'[d].at \in {"set", "wait", "up"} \/ caller[d].at \in {"set", "wait", "up"}
         => caller'[d] = caller[d]
  BY DEF CmdInv, CmdTypeOK, Holding
<1>00. Setting' <=> Setting BY <1>0 DEF Setting
<1>2. CmdTypeOK' BY <1>1, <1>00 DEF CmdInv, CmdTypeOK
<1>3. \A d \in Callers : Holding(d)' <=> Holding(d) BY <1>0 DEF Holding
<1>4. \A d \in Callers : Holding(d) => caller'[d] = caller[d] BY DEF CmdInv, CmdTypeOK
<1>5. Held' <=> Held BY <1>3 DEF Held
<1>6. \A d \in Callers : caller'[d].at = "up" => Holding(d) /\ caller[d].at = "up" BY <1>3, <1>4 DEF Holding
<1>9. CmdCounted' <=> CmdCounted BY DEF CmdCounted
<1>10. \A d \in Callers : caller'[d].at \in {"wait", "up"} => caller[d].at \in {"wait", "up"} BY <1>0
<1>7. CmdCounted => CmdHolder' BY <1>00, <1>3, <1>5, <1>10 DEF CmdInv, CmdHolder
<1>8. CmdCounted => CmdAnswer' BY <1>3, <1>4, <1>5, <1>6 DEF CmdInv, CmdAnswer
<1> QED BY <1>2, <1>7, <1>8, <1>9 DEF CmdInv

(* The command goes on without a callback: at most its XMIT flag is gone. *)
LEMMA CmdKept ==
    ASSUME CmdInv, NEW d \in Command, d = [cmd EXCEPT !.flags = d.flags], d.flags \in {cmd.flags, cmd.flags \ {"XMIT"}},
           cmd' = d, sent' \subseteq Nat \ {0},
           UNCHANGED <<caller, sem, timer, acks, acking, tryHeld, abandoned, misfired, trying>>
    PROVE  CmdInv'
<1>1. /\ d.seq = cmd.seq /\ d.hdr = cmd.hdr /\ d.callback = cmd.callback /\ d.status = cmd.status
      /\ \A f \in CmdFlags \ {"XMIT"} : f \in d.flags <=> f \in cmd.flags
      /\ "XMIT" \in d.flags => "XMIT" \in cmd.flags
  BY DEF CmdInv, CmdTypeOK, Command
<1>3. (\A c \in Callers : Holding(c)' <=> Holding(c)) /\ (Setting' <=> Setting) BY DEF Holding, Setting
<1>2. CmdTypeOK' BY <1>1, <1>3 DEF CmdInv, CmdTypeOK
<1>4. Held' <=> Held BY <1>3 DEF Held
<1>7. CmdCounted' <=> CmdCounted BY DEF CmdCounted
<1>5. CmdCounted => CmdHolder' BY <1>1, <1>3, <1>4 DEF CmdInv, CmdHolder, CmdFlags
<1>6. CmdCounted => CmdAnswer' BY <1>1, <1>3, <1>4 DEF CmdInv, CmdAnswer, CmdFlags
<1> QED BY <1>2, <1>5, <1>6, <1>7 DEF CmdInv

(* The callback, which ends the command: a caller is woken, or a try_send's semaphore released. *)
LEMMA CmdCallback ==
    ASSUME CmdInv, NEW d \in Command, Callback(d),
           d.seq = cmd.seq, d.hdr = cmd.hdr, d.callback = cmd.callback, d.status \in {cmd.status, acking},
           "XMIT" \in d.flags => "XMIT" \in cmd.flags, "NO_ACK" \in d.flags <=> "NO_ACK" \in cmd.flags,
           {"ACKED", "NO_ACK"} \cap d.flags # {}, "DONE" \in cmd.flags => "DONE" \in d.flags,
           CmdCounted => Held \/ tryHeld \/ "NO_ACK" \in cmd.flags, acking' \in Nat,
           CmdCounted => acking' = 0, UNCHANGED <<caller, sent, acks, abandoned, trying>>
    PROVE  CmdInv'
<1>1. (\A c \in Callers : Holding(c)' <=> Holding(c)) /\ (Setting' <=> Setting) BY DEF Holding, Setting
<1>2. Held' <=> Held BY <1>1 DEF Held
<1>3. CASE d.callback = "xmit"
  <2>1. cmd' = [d EXCEPT !.flags = @ \cup {"DONE"}] /\ UNCHANGED <<sem, timer, tryHeld, misfired>>
    BY <1>3 DEF Callback
  <2>2. cmd' \in Command BY <2>1 DEF Command, CmdFlags
  <2>3. /\ cmd'.seq = cmd.seq /\ cmd'.hdr = cmd.hdr /\ cmd'.callback = "xmit" /\ cmd'.status = d.status
        /\ cmd'.flags = d.flags \cup {"DONE"}
    BY <1>3, <2>1 DEF Command
  <2>4. CmdTypeOK' BY <1>1, <2>1, <2>2, <2>3 DEF CmdInv, CmdTypeOK
  <2>7. CmdCounted' <=> CmdCounted BY <2>1 DEF CmdCounted
  <2>5. CmdCounted => CmdHolder' BY <1>1, <1>2, <1>3, <2>1, <2>3 DEF CmdInv, CmdHolder
  <2>6. CmdCounted => CmdAnswer'
    BY <1>1, <1>2, <1>3, <2>1, <2>3 DEF CmdInv, CmdAnswer, CmdHolder
  <2> QED BY <2>4, <2>5, <2>6, <2>7 DEF CmdInv
<1>4. CASE d.callback = "try"
  <2>1. /\ cmd' = d /\ sem' = sem + 1 /\ tryHeld' = FALSE /\ timer' = (IF timer = "armed" THEN "off" ELSE timer)
        /\ misfired' = (misfired \/ CallbackOfBefore)
    BY <1>4 DEF Callback
  <2>2. CmdTypeOK' BY <1>1, <2>1 DEF CmdInv, CmdTypeOK, CallbackOfBefore
  <2>3. CmdCounted' => CmdCounted /\ trying # "set" /\ ~Setting
    BY <2>1 DEF CmdInv, CmdTypeOK, CmdCounted, CallbackOfBefore, Setting
  <2>4. ASSUME CmdCounted' PROVE CmdHolder' /\ CmdAnswer'
    <3>1. CmdHolder /\ CmdAnswer /\ trying # "set" /\ ~Setting BY <2>3, <2>4 DEF CmdInv
    <3>2. ~Held BY <1>4, <3>1 DEF Held, Holding, Setting, CmdHolder
    <3>3. tryHeld /\ "NO_ACK" \notin cmd.flags BY <1>4, <2>3, <2>4, <3>1, <3>2 DEF CmdHolder
    <3>4. sem = 0 /\ timer = "armed" BY <3>1, <3>2, <3>3 DEF CmdHolder
    <3>5. ~Held' /\ sem' = 1 /\ timer' = "off" /\ tryHeld' = FALSE /\ acking' = 0
      BY <1>2, <2>1, <2>3, <2>4, <3>2, <3>4
    <3>6. CmdHolder' BY <1>1, <2>1, <3>1, <3>3, <3>5 DEF CmdHolder, Held, Holding
    <3>7. CmdAnswer' BY <1>1, <2>1, <3>1, <3>5 DEF CmdAnswer, Held, Holding
    <3> QED BY <3>6, <3>7
  <2> QED BY <2>2, <2>4 DEF CmdInv
<1> QED BY <1>3, <1>4 DEF Command

(* An abort answers for a command that nobody has answered yet. *)
LEMMA CmdAbort ==
    ASSUME CmdInv, NEW d \in Command, d = [cmd EXCEPT !.flags = d.flags], d.flags \in {cmd.flags, cmd.flags \ {"XMIT"}},
           skw_abort_cmd(d), UNCHANGED <<caller, sent, acks, acking, abandoned, trying>>
    PROVE  CmdInv'
<1>1. CASE sem = 0 /\ "ACKED" \notin d.flags
  <2> DEFINE e == [d EXCEPT !.flags = @ \cup {"ACKED"}]
  <2>1. Callback(e) BY <1>1 DEF skw_abort_cmd
  <2>2. e \in Command BY DEF Command, CmdFlags
  <2>3. /\ e.seq = cmd.seq /\ e.hdr = cmd.hdr /\ e.callback = cmd.callback /\ e.status = cmd.status
        /\ e.flags = d.flags \cup {"ACKED"}
    BY DEF CmdInv, CmdTypeOK, Command
  <2>4. CmdCounted => Held \/ tryHeld BY <1>1 DEF CmdInv, CmdHolder
  <2>5. "ACKED" \notin cmd.flags BY <1>1
  <2>6. CmdCounted => acking' = 0 BY <2>5 DEF CmdInv, CmdAnswer
  <2>7. acking' \in Nat BY DEF CmdInv, CmdTypeOK
  <2>8. /\ "XMIT" \in e.flags => "XMIT" \in cmd.flags
        /\ "NO_ACK" \in e.flags <=> "NO_ACK" \in cmd.flags
        /\ {"ACKED", "NO_ACK"} \cap e.flags # {} /\ ("DONE" \in cmd.flags => "DONE" \in e.flags)
    BY <2>3
  <2> HIDE DEF e
  <2> QED BY <2>1, <2>2, <2>3, <2>4, <2>6, <2>7, <2>8, CmdCallback
<1>2. CASE ~(sem = 0 /\ "ACKED" \notin d.flags)
  <2>1. cmd' = d /\ UNCHANGED <<sem, timer, tryHeld, misfired>> BY <1>2 DEF skw_abort_cmd
  <2>2. sent' \subseteq Nat \ {0} BY DEF CmdInv, CmdTypeOK
  <2> QED BY <2>1, <2>2, CmdKept
<1> QED BY <1>1, <1>2

(* What the updates of a caller's record make of it. *)
LEMMA CallerTakes ==
    ASSUME caller \in [Callers -> Caller], NEW c \in Callers, NEW n \in Nat,
           caller' = [caller EXCEPT ![c].at = "set", ![c].seq = n]
    PROVE  /\ caller' \in [Callers -> Caller] /\ caller'[c].at = "set" /\ caller'[c].seq = n
           /\ \A d \in Callers \ {c} : caller'[d] = caller[d]
<1> DEFINE r == [at |-> "set", extra |-> caller[c].extra, seq |-> n, result |-> caller[c].result]
<1>0. caller[c] \in Caller OBVIOUS
<1>1. r \in Caller BY <1>0 DEF Caller
<1>2. caller'[c] = r BY <1>0 DEF Caller
<1>3. \A d \in Callers \ {c} : caller'[d] = caller[d] OBVIOUS
<1>4. DOMAIN caller' = Callers /\ caller' = [d \in Callers |-> caller'[d]] OBVIOUS
<1> HIDE DEF r
<1>5. \A d \in Callers : caller'[d] \in Caller BY <1>1, <1>2, <1>3
<1>6. caller' \in [Callers -> Caller] BY <1>4, <1>5
<1> QED BY <1>2, <1>3, <1>6 DEF r

LEMMA CallerWaits ==
    ASSUME caller \in [Callers -> Caller], NEW c \in Callers, caller' = [caller EXCEPT ![c].at = "wait"]
    PROVE  /\ caller' \in [Callers -> Caller] /\ caller'[c].at = "wait" /\ caller'[c].seq = caller[c].seq
           /\ \A d \in Callers \ {c} : caller'[d] = caller[d]
<1> DEFINE r == [at |-> "wait", extra |-> caller[c].extra, seq |-> caller[c].seq, result |-> caller[c].result]
<1>0. caller[c] \in Caller OBVIOUS
<1>1. r \in Caller BY <1>0 DEF Caller
<1>2. caller'[c] = r BY <1>0 DEF Caller
<1>3. \A d \in Callers \ {c} : caller'[d] = caller[d] OBVIOUS
<1>4. DOMAIN caller' = Callers /\ caller' = [d \in Callers |-> caller'[d]] OBVIOUS
<1> HIDE DEF r
<1>5. \A d \in Callers : caller'[d] \in Caller BY <1>1, <1>2, <1>3
<1>6. caller' \in [Callers -> Caller] BY <1>4, <1>5
<1> QED BY <1>2, <1>3, <1>6 DEF r

LEMMA CallerGets ==
    ASSUME caller \in [Callers -> Caller], NEW c \in Callers, NEW v \in Int,
           caller' = [caller EXCEPT ![c].at = "up", ![c].result = v]
    PROVE  /\ caller' \in [Callers -> Caller] /\ caller'[c].at = "up" /\ caller'[c].seq = caller[c].seq
           /\ caller'[c].result = v /\ \A d \in Callers \ {c} : caller'[d] = caller[d]
<1> DEFINE r == [at |-> "up", extra |-> caller[c].extra, seq |-> caller[c].seq, result |-> v]
<1>0. caller[c] \in Caller OBVIOUS
<1>1. r \in Caller BY <1>0 DEF Caller
<1>2. caller'[c] = r BY <1>0 DEF Caller
<1>3. \A d \in Callers \ {c} : caller'[d] = caller[d] OBVIOUS
<1>4. DOMAIN caller' = Callers /\ caller' = [d \in Callers |-> caller'[d]] OBVIOUS
<1> HIDE DEF r
<1>5. \A d \in Callers : caller'[d] \in Caller BY <1>1, <1>2, <1>3
<1>6. caller' \in [Callers -> Caller] BY <1>4, <1>5
<1> QED BY <1>2, <1>3, <1>6 DEF r

LEMMA CmdStep == CmdInv /\ [CmdNext]_CmdVars => CmdInv'
<1> SUFFICES ASSUME CmdInv, [CmdNext]_CmdVars PROVE CmdInv' OBVIOUS
<1> USE DEF CmdInv, CmdTypeOK, CmdHolder, CmdAnswer, Holding, Held, Setting, CmdCounted, cmdEnd, cmdGhosts, CmdFlags, Extras, Caller, Command
<1>1. ASSUME NEW c \in Callers, skw_msg_xmit_timeout(c, {}) PROVE CmdInv'
  <2> DEFINE r == IF skw_cmd_tx_allowed({}) THEN [Idle EXCEPT !.at = "down", !.extra = {}]
                  ELSE [Idle EXCEPT !.result = EIO]
  <2>1. r \in Caller /\ r.at \notin {"set", "wait", "up"}
    <3>1. r \in {[at |-> "down", extra |-> {}, seq |-> 0, result |-> 0],
                 [at |-> "idle", extra |-> {}, seq |-> 0, result |-> -1]} BY DEF Idle, EIO
    <3> HIDE DEF r
    <3> QED BY <3>1
  <2>2. ~Holding(c) /\ caller' = [caller EXCEPT ![c] = r] BY <1>1 DEF skw_msg_xmit_timeout
  <2>3. UNCHANGED <<sem, cmd, timer, sent, acks, acking, tryHeld, abandoned, misfired, trying>> BY <1>1 DEF skw_msg_xmit_timeout
  <2> HIDE DEF r, CmdInv, Holding, Caller
  <2> QED BY <2>1, <2>2, <2>3, CmdBystander
<1>2. ASSUME NEW c \in Callers, skw_suspend(c) PROVE CmdInv'
  <2> DEFINE r == IF skw_flags \subseteq {"BLOCK_TX"}
                  THEN [Idle EXCEPT !.at = "down", !.extra = {"NO_ACK", "IGNORE_BLOCK_TX"}]
                  ELSE [Idle EXCEPT !.result = EIO]
  <2>1. r \in Caller /\ r.at \notin {"set", "wait", "up"}
    <3>1. r \in {[at |-> "down", extra |-> {"NO_ACK", "IGNORE_BLOCK_TX"}, seq |-> 0, result |-> 0],
                 [at |-> "idle", extra |-> {}, seq |-> 0, result |-> -1]} BY DEF Idle, EIO
    <3> HIDE DEF r
    <3> QED BY <3>1
  <2>2. ~Holding(c) /\ caller' = [caller EXCEPT ![c] = r] BY <1>2 DEF skw_suspend
  <2>3. UNCHANGED <<sem, cmd, timer, sent, acks, acking, tryHeld, abandoned, misfired, trying>> BY <1>2 DEF skw_suspend
  <2> HIDE DEF r, CmdInv, Holding, Caller
  <2> QED BY <2>1, <2>2, <2>3, CmdBystander
<1>3. ASSUME NEW c \in Callers, skw_cmd_xmit_timeout(c) PROVE CmdInv'
  <2>1. sem > 0 /\ sem' = sem - 1 /\ UNCHANGED <<timer, sent, acks, acking, tryHeld, abandoned, misfired, trying>>
    BY <1>3 DEF skw_cmd_xmit_timeout
  <2>2. cmd' = [seq |-> cmd.seq + 1, hdr |-> cmd.seq + 1, callback |-> cmd.callback, status |-> 0,
                flags |-> caller[c].extra]
    BY <1>3 DEF skw_cmd_xmit_timeout, skw_set_cmd
  <2>3. /\ caller' \in [Callers -> Caller] /\ caller'[c].at = "set" /\ caller'[c].seq = cmd.seq + 1
        /\ \A d \in Callers \ {c} : caller'[d] = caller[d]
    <3>1. cmd.seq + 1 \in Nat OBVIOUS
    <3>2. caller' = [caller EXCEPT ![c].at = "set", ![c].seq = cmd.seq + 1] BY <1>3 DEF skw_cmd_xmit_timeout
    <3> QED BY <3>1, <3>2, CallerTakes
  <2>9. cmd' \in Command /\ cmd'.hdr # 0 BY <2>2
  <2>4. CmdTypeOK' BY <2>1, <2>3, <2>9
  <2>5. CmdCounted => ~Held /\ ~tryHeld /\ sem = 1 /\ acking = 0 /\ trying # "set" BY <2>1
  <2>6. (\A d \in Callers : Holding(d)' <=> d = c \/ Holding(d)) /\ Setting' BY <2>3
  <2>7. CmdCounted' => CmdHolder' BY <2>1, <2>2, <2>3, <2>5, <2>6
  <2>8. CmdCounted' => CmdAnswer' BY <2>1, <2>2, <2>3, <2>5, <2>6
  <2> QED BY <2>4, <2>7, <2>8
<1>19. ASSUME NEW c \in Callers, CallerHandsOver(c) PROVE CmdInv'
  <2>1. caller[c].at = "set" /\ UNCHANGED <<sem, timer, sent, acks, acking, tryHeld, abandoned, misfired, trying>>
    BY <1>19 DEF CallerHandsOver
  <2>2. cmd' = [seq |-> cmd.seq, hdr |-> cmd.hdr, callback |-> "xmit", status |-> cmd.status,
                flags |-> cmd.flags \cup {"XMIT"}]
    BY <1>19 DEF CallerHandsOver
  <2>3. /\ caller' \in [Callers -> Caller] /\ caller'[c].at = "wait" /\ caller'[c].seq = caller[c].seq
        /\ \A d \in Callers \ {c} : caller'[d] = caller[d]
    <3>1. caller' = [caller EXCEPT ![c].at = "wait"] BY <1>19 DEF CallerHandsOver
    <3> QED BY <3>1, CallerWaits
  <2>9. cmd' \in Command /\ cmd'.hdr # 0 BY <2>1, <2>2
  <2>4. CmdTypeOK' BY <2>1, <2>3, <2>9
  <2>6. \A d \in Callers : Holding(d)' <=> Holding(d) BY <2>1, <2>3
  <2>7. CmdCounted' => CmdHolder' BY <2>1, <2>2, <2>3, <2>6
  <2>8. CmdCounted' => CmdAnswer' BY <2>1, <2>2, <2>3, <2>6
  <2> QED BY <2>4, <2>7, <2>8
<1>4. ASSUME NEW c \in Callers, CallerWakes(c) PROVE CmdInv'
  <2>1. PICK v \in Int : caller' = [caller EXCEPT ![c].at = "up", ![c].result = v]
    BY <1>4 DEF CallerWakes, ERESTARTSYS, ETIMEDOUT
  <2>2. /\ caller' \in [Callers -> Caller] /\ caller'[c].at = "up" /\ caller'[c].seq = caller[c].seq
        /\ caller'[c].result = v /\ \A d \in Callers \ {c} : caller'[d] = caller[d]
    BY <2>1, CallerGets
  <2>3. UNCHANGED <<sem, timer, sent, acks, acking, tryHeld, misfired, trying>> /\ caller[c].at = "wait"
    BY <1>4 DEF CallerWakes
  <2>4. (\A d \in Callers : Holding(d)' <=> Holding(d)) /\ (Setting' <=> Setting) BY <2>2, <2>3
  <2>5. CASE "DONE" \in cmd.flags /\ caller' = [caller EXCEPT ![c].at = "up", ![c].result = cmd.status]
             /\ UNCHANGED <<cmd, abandoned>>
    <3>0. cmd.status \in Int /\ caller \in [Callers -> Caller] OBVIOUS
    <3>1. caller'[c].result = cmd.status
      <4> HIDE DEF CmdInv, Caller, Command
      <4> QED BY <2>5, <3>0, CallerGets
    <3>5. UNCHANGED <<cmd, abandoned>> BY <2>5
    <3>2. CmdTypeOK' BY <2>2, <2>3, <2>4, <3>5
    <3>3. CmdCounted' => CmdHolder' BY <2>2, <2>3, <2>4, <3>5
    <3>4. CmdCounted' => CmdAnswer' BY <2>2, <2>3, <2>4, <2>5, <3>1
    <3> QED BY <3>2, <3>3, <3>4
  <2>6. CASE abandoned' = TRUE /\ cmd' \in {cmd, [cmd EXCEPT !.flags = @ \cup {"ACKED"}]}
    <3>1. cmd' \in Command /\ cmd'.hdr = cmd.hdr /\ ("XMIT" \in cmd'.flags => "XMIT" \in cmd.flags) BY <2>6
    <3> QED BY <2>2, <2>3, <2>4, <2>6, <3>1
  <2>7. \/ /\ "DONE" \in cmd.flags /\ caller' = [caller EXCEPT ![c].at = "up", ![c].result = cmd.status]
           /\ UNCHANGED <<cmd, abandoned>>
        \/ abandoned' = TRUE /\ cmd' \in {cmd, [cmd EXCEPT !.flags = @ \cup {"ACKED"}]}
    <3> HIDE DEF CmdInv
    <3> QED BY <1>4, Zenon DEF CallerWakes
  <2> QED BY <2>5, <2>6, <2>7
<1>5. ASSUME NEW c \in Callers, CallerReturns(c) PROVE CmdInv'
  BY <1>5 DEF CallerReturns, Idle
<1>6. CASE skw_resume BY <1>6 DEF skw_resume
<1>7. CASE skw_msg_try_send
  <2>1. /\ sem > 0 /\ sem' = sem - 1 /\ trying' = "set" /\ tryHeld' = TRUE
        /\ UNCHANGED <<timer, caller, sent, acks, acking, abandoned, misfired>>
    BY <1>7 DEF skw_msg_try_send
  <2>2. cmd' = [seq |-> cmd.seq + 1, hdr |-> cmd.seq + 1, callback |-> cmd.callback, status |-> 0, flags |-> {}]
    BY <1>7 DEF skw_msg_try_send, skw_set_cmd
  <2>3. cmd' \in Command /\ cmd'.hdr # 0 BY <2>2
  <2>4. (\A d \in Callers : Holding(d)' <=> Holding(d)) /\ (Setting' <=> Setting) BY <2>1
  <2>5. CmdCounted => ~Held /\ ~tryHeld /\ sem = 1 /\ acking = 0 BY <2>1
  <2>6. CmdTypeOK' BY <2>1, <2>3, <2>4
  <2>7. CmdCounted' => CmdHolder' BY <2>1, <2>2, <2>4, <2>5
  <2>8. CmdCounted' => CmdAnswer' BY <2>1, <2>2, <2>4, <2>5
  <2> QED BY <2>6, <2>7, <2>8
<1>20. CASE TryArms
  <2>1. /\ trying = "set" /\ trying' = "built" /\ timer' = "armed"
        /\ UNCHANGED <<sem, caller, sent, acks, acking, tryHeld, abandoned, misfired>>
    BY <1>20 DEF TryArms
  <2>2. cmd' = [seq |-> cmd.seq, hdr |-> cmd.hdr, callback |-> "try", status |-> cmd.status, flags |-> cmd.flags]
    BY <1>20 DEF TryArms
  <2>3. cmd' \in Command /\ cmd'.hdr = cmd.hdr /\ cmd'.flags = cmd.flags BY <2>2
  <2>4. (\A d \in Callers : Holding(d)' <=> Holding(d)) /\ (Setting' <=> Setting) BY <2>1
  <2>5. CmdTypeOK' BY <2>1, <2>3, <2>4
  <2>6. CmdCounted' => CmdHolder'
    <3>1. CmdCounted' => tryHeld /\ ~Held BY <2>1
    <3> QED BY <2>1, <2>2, <2>4, <3>1
  <2>7. CmdCounted' => CmdAnswer' BY <2>1, <2>2, <2>4
  <2> QED BY <2>5, <2>6, <2>7
<1>21. CASE TryHandsOver BY <1>21 DEF TryHandsOver
<1>8. CASE CmdTimerWork BY <1>8 DEF CmdTimerWork
<1>9. CASE skw_cmd_timeout_fn BY <1>9 DEF skw_cmd_timeout_fn
<1>10. CASE AssertWork BY <1>10 DEF AssertWork
<1>11. CASE skw_bus_cmd_xmit
  <2> DEFINE d == [cmd EXCEPT !.flags = @ \ {"XMIT"}]
  <2>1. d \in Command /\ d = [cmd EXCEPT !.flags = d.flags] /\ d.flags = cmd.flags \ {"XMIT"} OBVIOUS
  <2>2. UNCHANGED <<caller, acks, acking, abandoned, trying>> BY <1>11 DEF skw_bus_cmd_xmit
  <2>3. CASE ~skw_cmd_tx_allowed(d.flags)
    <3>1. skw_abort_cmd(d) /\ UNCHANGED sent BY <1>11, <2>3 DEF skw_bus_cmd_xmit
    <3> HIDE DEF d, CmdInv, Command
    <3> QED BY <2>1, <2>2, <3>1, CmdAbort
  <2>4. CASE cmd' = d /\ sent' \in {sent, sent \cup {d.hdr}} /\ UNCHANGED <<sem, timer, tryHeld, misfired>>
    <3>1. sent' \subseteq Nat \ {0} BY <1>11, <2>4 DEF skw_bus_cmd_xmit
    <3> HIDE DEF d, CmdInv, Command
    <3> QED BY <2>1, <2>2, <2>4, <3>1, CmdKept
  <2> QED BY <1>11, <2>3, <2>4 DEF skw_bus_cmd_xmit
<1>22. CASE NoAckDone
  <2>1. UNCHANGED <<caller, sent, acks, acking, abandoned, trying>> BY <1>22 DEF NoAckDone
  <2>2. CASE "NO_ACK" \in cmd.flags /\ Callback([cmd EXCEPT !.flags = @ \cup {"DONE"}])
    <3> DEFINE e == [cmd EXCEPT !.flags = @ \cup {"DONE"}]
    <3>1. e \in Command /\ e.flags = cmd.flags \cup {"DONE"} OBVIOUS
    <3>2. e.seq = cmd.seq /\ e.hdr = cmd.hdr /\ e.callback = cmd.callback /\ e.status = cmd.status OBVIOUS
    <3>3. acking' \in Nat /\ (CmdCounted => acking' = 0) BY <2>1, <2>2
    <3>4. /\ "XMIT" \in e.flags => "XMIT" \in cmd.flags
          /\ "NO_ACK" \in e.flags <=> "NO_ACK" \in cmd.flags
          /\ {"ACKED", "NO_ACK"} \cap e.flags # {} /\ ("DONE" \in cmd.flags => "DONE" \in e.flags)
      BY <2>2, <3>1
    <3>5. Callback(e) /\ "NO_ACK" \in cmd.flags BY <2>2
    <3> HIDE DEF e, CmdInv, Command, CmdCounted, Held
    <3> QED BY <2>1, <3>1, <3>2, <3>3, <3>4, <3>5, CmdCallback
  <2>3. CASE UNCHANGED <<cmd, sem, timer, tryHeld, misfired>> BY <2>1, <2>3
  <2> QED BY <1>22, <2>2, <2>3 DEF NoAckDone
<1>12. CASE skw_cmd_ack_handler
  <2> DEFINE d == [cmd EXCEPT !.status = acking]
  <2>1. d \in Command /\ d.flags = cmd.flags /\ d.status = acking OBVIOUS
  <2>2. d.seq = cmd.seq /\ d.hdr = cmd.hdr /\ d.callback = cmd.callback OBVIOUS
  <2>3. Callback(d) /\ acking # 0 /\ acking' = 0 /\ UNCHANGED <<caller, sent, acks, abandoned, trying>>
    BY <1>12 DEF skw_cmd_ack_handler
  <2>4. CASE ~CmdCounted
    <3>1. /\ cmd' \in Command /\ cmd'.hdr = cmd.hdr /\ ("XMIT" \in cmd'.flags => "XMIT" \in cmd.flags)
          /\ misfired' \in BOOLEAN /\ (misfired => misfired')
      <4> HIDE DEF d
      <4>1. CASE d.callback = "xmit" BY <2>1, <2>2, <2>3, <4>1 DEF Callback
      <4>2. CASE d.callback # "xmit" BY <2>1, <2>2, <2>3, <4>2 DEF Callback, CallbackOfBefore
      <4> QED BY <4>1, <4>2
    <3> QED BY <2>3, <2>4, <3>1
  <2>5. CASE CmdCounted
    <3>1. (Held \/ tryHeld) /\ "ACKED" \in cmd.flags BY <2>3, <2>5
    <3>2. acking' \in Nat BY <2>3
    <3> HIDE DEF d, CmdInv, Command, Held, CmdCounted
    <3> QED BY <2>1, <2>2, <2>3, <2>5, <3>1, <3>2, CmdCallback
  <2> QED BY <2>4, <2>5
<1>13. ASSUME NEW s \in sent, FirmwareAnswers(s) PROVE CmdInv' BY <1>13 DEF FirmwareAnswers
<1>14. ASSUME NEW s \in acks, AckArrives(s) PROVE CmdInv' BY <1>14 DEF AckArrives, AckOf
<1>15. CASE skw_bsp_notifier
  <2>1. cmd \in Command /\ cmd = [cmd EXCEPT !.flags = cmd.flags] OBVIOUS
  <2>2. skw_abort_cmd(cmd) /\ UNCHANGED <<caller, sent, acks, acking, abandoned, trying>> BY <1>15 DEF skw_bsp_notifier
  <2> HIDE DEF CmdInv, Command
  <2> QED BY <2>1, <2>2, CmdAbort
<1>16. CASE skw_event_mp_mode_handler
  <2>1. cmd \in Command /\ cmd = [cmd EXCEPT !.flags = cmd.flags] OBVIOUS
  <2>2. UNCHANGED <<caller, sent, acks, acking, abandoned, trying>> BY <1>16 DEF skw_event_mp_mode_handler
  <2>3. CASE skw_abort_cmd(cmd)
    <3> HIDE DEF CmdInv, Command
    <3> QED BY <2>1, <2>2, <2>3, CmdAbort
  <2>4. CASE UNCHANGED <<cmd, sem, timer, tryHeld, misfired>> BY <2>2, <2>4
  <2> QED BY <1>16, <2>3, <2>4 DEF skw_event_mp_mode_handler
<1>17. CASE skw_recovery_work BY <1>17 DEF skw_recovery_work
<1>18. CASE UNCHANGED CmdVars BY <1>18 DEF CmdVars
<1> QED BY <1>1, <1>2, <1>3, <1>4, <1>5, <1>6, <1>7, <1>8, <1>9, <1>10, <1>11, <1>12, <1>13, <1>14,
           <1>15, <1>16, <1>17, <1>18, <1>19, <1>20, <1>21, <1>22 DEF CmdNext, CmdCaller

(* Who holds the one command slot and whose answer is in it, as long as the semaphore's count can be right:
   kept by every step of the callers, try_send, the transmit worker, the receive thread and the firmware. *)
THEOREM CommandInvariance == CmdSpec => []CmdInv
BY CmdInitInv, CmdStep, PTL DEF CmdSpec

(* Until a sender gives up on a command, or an abort strikes a command between skw_set_cmd and its callback
   and releases a try_send that is over, one command is under way at a time and its sender gets its own answer,
   for any number of callers, answers and asserts (skw_msg_xmit_timeout against skw_cmd_ack_handler, the
   transmit worker and skw_abort_cmd). *)
THEOREM CommandSafety == CmdSpec => []CmdSafe
BY CommandInvariance, CmdInvSafe, PTL
=============================================================================
